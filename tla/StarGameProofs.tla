--------------------------- MODULE StarGameProofs ---------------------------
(* Theorems about the network game of module StarGame.                      *)
EXTENDS StarGame, HubBooksProofs, SequenceTheorems

----------------------------------------------------------------------------
(* The hub's steps, as far as the rest of the game notices them.            *)

\* What a game needs of its hub.
HubSound(h) ==
  /\ h \in BoundedHubs /\ LateInStep(h) /\ Books(h) /\ FlagsOrdered(h)
  /\ h.unsent <= h.incomplete /\ h.incomplete <= h.disp.w

\* Nothing is sent.
SendsNothing(h, k) == k.unsent = h.unsent /\ k.sinceSent = h.sinceSent

\* Who is connected has acknowledged what it had.
AcksKept(h, k) == \A q \in k.connected : k.ack[q] = h.ack[q]

\* But p may have acknowledged the ticks below ack.
AcksKeptBut(h, k, p, ack) ==
  \A q \in k.connected : k.ack[q] = h.ack[q] \/ (q = p /\ k.ack[q] = ack)

\* Acknowledging, taking in flags and dropping a player send nothing.
LEMMA AcknowledgedSendsNothing ==
  ASSUME NEW h \in HubRecords, NEW p, NEW tick
  PROVE  SendsNothing(h, Acknowledged(h, p, tick))
BY SMTT(60) DEF Acknowledged, CheckCompletion, SendsNothing, HubRecords

LEMMA ProvidedSendsNothing ==
  ASSUME NEW h \in HubRecords, NEW p \in Player, NEW from \in Int, NEW to \in Int
  PROVE  SendsNothing(h, Provided(h, p, from, to))
BY ProvidedFields DEF SendsNothing

LEMMA MarkNetDeadSendsNothing ==
  ASSUME NEW h \in HubRecords, NEW p
  PROVE  SendsNothing(h, MarkNetDead(h, p))
BY SMTT(60) DEF MarkNetDead, SendsNothing, HubRecords

\* The second half of make_player_netdead: it completes at most the ticks
\* that p is waited for, and acknowledges for p only.
LEMMA BuryEffect ==
  ASSUME NEW h \in HubRecords, NEW p \in Player
  PROVE  /\ Bury(h, p) \in HubRecords /\ SendsNothing(h, Bury(h, p))
         /\ \A q \in Player \ {p} : Bury(h, p).ack[q] = h.ack[q]
         /\ \A q \in Player : Bury(h, p).flags[q].w = h.flags[q].w
         /\ Bury(h, p).disp.w = h.disp.w
         /\ Bury(h, p).incomplete
              = h.incomplete + Completed(h, p, h.flags[p].w, h.disp.w)
<1> DEFINE k == Provided(h, p, h.flags[p].w, h.disp.w)
           m == Acknowledged(k, p, h.incomplete)
<1>1. h.flags[p].w \in Int /\ h.disp.w \in Int /\ h.incomplete \in Int
  BY HubFields
<1>2. k = Provided(h, p, h.flags[p].w, h.disp.w) /\ Bury(h, p) = m
  BY DEF Bury
<1>3. SendsNothing(h, k)  BY <1>1, ProvidedSendsNothing
<1> HIDE DEF k
<1>4. /\ k \in HubRecords /\ k.ack = h.ack /\ k.flags = h.flags
      /\ k.disp = Grow(h.disp, Greatest(h.disp.w - h.disp.w, 0))
      /\ k.incomplete = h.incomplete + Completed(h, p, h.flags[p].w, h.disp.w)
  BY <1>1, <1>2, ProvidedFields
<1>5. k.disp.w = h.disp.w  BY <1>1, <1>4 DEF Grow, Greatest
<1>6. m = Acknowledged(k, p, h.incomplete)  OBVIOUS
<1>7. SendsNothing(k, m)  BY <1>4, AcknowledgedSendsNothing
<1> HIDE DEF m
<1>8. CASE h.incomplete < k.ack[p]
  <2>1. m = k  BY <1>6, <1>8 DEF Acknowledged
  <2> QED  BY <1>2, <1>3, <1>4, <1>5, <2>1
<1>9. CASE k.ack[p] <= h.incomplete
  <2>1. /\ m \in HubRecords /\ m.incomplete = k.incomplete
        /\ \A q \in Player : m.ack[q] = IF q = p THEN h.incomplete ELSE k.ack[q]
        /\ m.disp = Drop(k.disp, Count(k, p, h.incomplete))
        /\ m.flags = Dequeued(k, Count(k, p, h.incomplete))
    BY <1>1, <1>4, <1>6, <1>9, AcknowledgedFields
  <2>2. m.disp.w = k.disp.w /\ \A q \in Player : m.flags[q].w = k.flags[q].w
    BY <2>1 DEF Drop, Dequeued
  <2>3. SendsNothing(h, m)  BY <1>3, <1>7 DEF SendsNothing
  <2> QED  BY <1>2, <1>4, <1>5, <2>1, <2>2, <2>3
<1>10. k.ack[p] \in Int  BY <1>4, HubFields
<1> QED  BY <1>1, <1>8, <1>9, <1>10

\* Ticks between two given ones are no more than the distance.
LEMMA TicksBetween ==
  ASSUME NEW a \in Int, NEW b \in Int, NEW S \in SUBSET (a .. (b - 1)), a <= b
  PROVE  Cardinality(S) \in Nat /\ Cardinality(S) <= b - a
<1>1. b - 1 \in Int  OBVIOUS
<1>2. IsFiniteSet(a .. (b - 1)) /\ Cardinality(a .. (b - 1)) = IF a > b - 1 THEN 0 ELSE (b - 1) - a + 1
  BY <1>1, FS_Interval
<1>3. Cardinality(a .. (b - 1)) = b - a  BY <1>2
<1>4. IsFiniteSet(S) /\ Cardinality(S) <= Cardinality(a .. (b - 1))
  BY <1>2, FS_Subset
<1>5. Cardinality(S) \in Nat  BY <1>4, FS_CardinalityType
<1> QED  BY <1>3, <1>4, <1>5

\* The death of one player completes at most the ticks that are there.
LEMMA NetDeadWithin ==
  ASSUME NEW h \in BoundedHubs, InOrder(h), NEW p \in h.connected
  PROVE  /\ NetDead(h, p).incomplete <= NetDead(h, p).disp.w
         /\ SendsNothing(h, NetDead(h, p)) /\ AcksKept(h, NetDead(h, p))
<1> DEFINE m == MarkNetDead(h, p)
<1>1. /\ h \in HubRecords /\ p \in Player /\ h.incomplete \in Int /\ h.disp.w \in Int
      /\ \A q \in Player : h.flags[q].w \in Int
  BY HubFields DEF BoundedHubs
<1>2. FlagsInWindow(h) /\ FlagsAwaited(h)  BY DEF InOrder
<1>3. m \in BoundedHubs /\ m = MarkNetDead(h, p) /\ SendsNothing(h, m)
  BY <1>1, MarkNetDeadType, MarkNetDeadSendsNothing
<1> HIDE DEF m
<1>4. /\ m \in HubRecords /\ m.connected = h.connected \ {p} /\ m.incomplete = h.incomplete
      /\ m.ack = h.ack /\ m.flags = h.flags /\ m.disp = h.disp /\ m.awaited = h.awaited
  BY <1>1, <1>3, MarkNetDeadFields
<1>5. \A q \in Player : q \in h.connected => h.incomplete <= h.flags[q].w
  BY <1>2 DEF FlagsInWindow, QueueInWindow
<1>6. \A q \in Player : h.flags[q].w <= h.disp.w
  BY <1>2 DEF FlagsInWindow, QueueInWindow
<1>7. CASE NetDead(h, p) = Bury(m, p)
  <2> DEFINE k == Bury(m, p)
             n == Completed(m, p, m.flags[p].w, m.disp.w)
             a == h.flags[p].w
  <2>1. /\ k \in HubRecords /\ SendsNothing(m, k)
        /\ \A q \in Player \ {p} : k.ack[q] = m.ack[q]
        /\ k.disp.w = m.disp.w /\ k.incomplete = m.incomplete + n
        /\ k.connected = m.connected
    BY <1>1, <1>4, BuryEffect, BuryConnected
  <2>2. n \in Nat /\ n <= h.disp.w - a
    <3>1. Complete(m, p, m.flags[p].w, m.disp.w) \in SUBSET (a .. (h.disp.w - 1))
      BY <1>4 DEF Complete
    <3>2. a \in Int /\ a <= h.disp.w  BY <1>1, <1>6
    <3> HIDE DEF a
    <3> QED  BY <1>1, <3>1, <3>2, TicksBetween DEF Completed
  <2>3. a \in Int /\ h.incomplete <= a  BY <1>1, <1>5
  <2>4. k.incomplete = h.incomplete + n /\ k.disp.w = h.disp.w  BY <1>4, <2>1
  <2> HIDE DEF k, n, a
  <2>5. k.incomplete <= k.disp.w  BY <1>1, <2>2, <2>3, <2>4
  <2>6. SendsNothing(h, k)  BY <1>3, <2>1 DEF SendsNothing
  <2>7. AcksKept(h, k)
    <3>1. k.connected \in SUBSET Player  BY <2>1, HubFields
    <3> QED  BY <1>4, <2>1, <3>1 DEF AcksKept
  <2> QED  BY <1>7, <2>5, <2>6, <2>7 DEF k
<1>8. ASSUME NEW last \in Player, m.connected = {last},
             NetDead(h, p) = Bury(Bury(MarkNetDead(m, last), last), p)
      PROVE  /\ NetDead(h, p).incomplete <= NetDead(h, p).disp.w
             /\ SendsNothing(h, NetDead(h, p)) /\ AcksKept(h, NetDead(h, p))
  <2> DEFINE n == MarkNetDead(m, last)
  <2>1. n \in HubRecords /\ n = MarkNetDead(m, last) /\ SendsNothing(m, n)
    BY <1>3, <1>4, MarkNetDeadType, MarkNetDeadSendsNothing DEF BoundedHubs
  <2>2. NetDead(h, p) = Bury(Bury(n, last), p)  BY <1>8
  <2> HIDE DEF n
  <2>3. /\ n.connected = {} /\ n.incomplete = h.incomplete
        /\ n.flags = h.flags /\ n.disp = h.disp /\ n.awaited = h.awaited
    BY <1>4, <1>8, <2>1, MarkNetDeadFields
  <2> DEFINE b == Bury(n, last)
             i == Completed(n, last, n.flags[last].w, n.disp.w)
             a == h.flags[last].w
             c == h.flags[p].w
  <2>4. /\ b \in HubRecords /\ SendsNothing(n, b) /\ b.connected = {}
        /\ \A q \in Player : b.flags[q].w = n.flags[q].w
        /\ b.disp.w = n.disp.w /\ b.incomplete = n.incomplete + i
    BY <2>1, <2>3, BuryEffect, BuryConnected
  <2>5. a \in Int /\ c \in Int /\ h.incomplete <= a /\ h.incomplete <= c
        /\ a <= h.disp.w /\ c <= h.disp.w
    BY <1>1, <1>4, <1>5, <1>6, <1>8
  <2>6. i = 0 \/ (i \in Nat /\ i <= c - a)
    <3> DEFINE S == Complete(n, last, n.flags[last].w, n.disp.w)
    <3>1. S \in SUBSET (a .. (c - 1))
      <4> SUFFICES ASSUME NEW t \in S, ~(t < c)  PROVE FALSE
        <5>1. ASSUME NEW t \in S  PROVE t \in Int /\ a <= t
          <6>1. t \in a .. (h.disp.w - 1)  BY <2>3 DEF Complete
          <6> QED  BY <1>1, <2>5, <6>1
        <5> HIDE DEF S, a, c
        <5> QED  BY <2>5, <5>1
      <4>1. t \in a .. (h.disp.w - 1) /\ Entered(n, n.disp.w)[t] \ {last} = {}
        BY <2>3 DEF Complete
      <4>2. t \in Int /\ a <= t /\ t < h.disp.w  BY <1>1, <2>5, <4>1
      <4>3. t \in Ticks
        <5>1. FirstTick <= h.incomplete /\ h.disp.w <= LastTick + 1  BY DEF BoundedHubs
        <5> QED  BY <1>1, <2>5, <4>2, <5>1, TicksAssumption DEF Ticks
      <4>4. t \notin h.disp.w .. (h.disp.w - 1)  BY <1>1, <4>2
      <4>5. h.awaited[t] \ {last} = {}
        BY <2>3, <4>1, <4>3, <4>4 DEF Entered
      <4>6. t \in h.incomplete .. (h.disp.w - 1)  BY <1>1, <2>5, <4>2
      <4>7. h.awaited[t] = {q \in h.connected : h.flags[q].w <= t}
        BY <1>2, <4>6 DEF FlagsAwaited
      <4>8. c <= t  BY <2>5, <4>2
      <4>9. p \in h.awaited[t]  BY <4>7, <4>8
      <4>10. p # last  BY <1>4, <1>8
      <4> QED  BY <4>5, <4>9, <4>10
    <3>2. i = Cardinality(S)  BY DEF Completed
    <3> HIDE DEF S, i
    <3>3. CASE S = {}  BY <3>2, <3>3, FS_EmptySet
    <3>4. CASE S # {}
      <4> HIDE DEF a, c
      <4>1. PICK t \in S : TRUE  BY <3>4
      <4>2. a <= c  BY <2>5, <3>1, <4>1
      <4> QED  BY <2>5, <3>1, <3>2, <4>2, TicksBetween
    <3> QED  BY <3>3, <3>4
  <2>7. b.incomplete <= c /\ b.incomplete \in Int
    <3> HIDE DEF a, c, i
    <3>1. h.incomplete + i <= c /\ h.incomplete + i \in Int  BY <1>1, <2>5, <2>6
    <3>2. b.incomplete = h.incomplete + i  BY <2>3, <2>4
    <3> QED  BY <3>1, <3>2
  <2>8. b.flags[p].w = c /\ b.disp.w = h.disp.w  BY <1>1, <2>3, <2>4
  <2> HIDE DEF b, i, a
  <2> DEFINE k == Bury(b, p)
             j == Completed(b, p, b.flags[p].w, b.disp.w)
  <2>9. /\ SendsNothing(b, k) /\ k.connected = {}
        /\ k.disp.w = b.disp.w /\ k.incomplete = b.incomplete + j
    BY <1>1, <2>4, BuryEffect, BuryConnected
  <2>10. j \in Nat /\ j <= h.disp.w - c
    <3>1. Complete(b, p, b.flags[p].w, b.disp.w) \in SUBSET (c .. (h.disp.w - 1))
      BY <2>8 DEF Complete
    <3> HIDE DEF c
    <3> QED  BY <1>1, <2>5, <3>1, TicksBetween DEF Completed
  <2> HIDE DEF c, j, k
  <2>11. k.incomplete <= k.disp.w  BY <1>1, <2>5, <2>7, <2>8, <2>9, <2>10
  <2>12. SendsNothing(h, k)  BY <1>3, <2>1, <2>4, <2>9 DEF SendsNothing
  <2>13. AcksKept(h, k)  BY <2>9 DEF AcksKept
  <2>14. NetDead(h, p) = k  BY <2>2 DEF b, k
  <2> QED  BY <2>11, <2>12, <2>13, <2>14
<1> QED  BY <1>1, <1>3, <1>7, <1>8, NetDeadCases

\* make_player_netdead leaves a sound hub.
LEMMA NetDeadSound ==
  ASSUME NEW h, HubSound(h), NEW p \in h.connected
  PROVE  LET k == NetDead(h, p)
         IN HubSound(k) /\ Onward(h, k) /\ SendsNothing(h, k) /\ AcksKept(h, k)
<1> DEFINE k == NetDead(h, p)
<1>1. h \in BoundedHubs /\ h \in HubRecords /\ InOrder(h) /\ LateInStep(h) /\ FlagsOrdered(h)
  BY DEF HubSound, Books, BoundedHubs
<1>2. p \in Player  BY <1>1, HubFields
<1>3. k \in BoundedHubs /\ LateInStep(k) /\ Books(k)
  BY <1>1, <1>2, NetDeadType, NetDeadLate, NetDeadBooks
<1>4. k.incomplete <= k.disp.w /\ SendsNothing(h, k) /\ AcksKept(h, k)
  BY <1>1, NetDeadWithin
<1>5. Onward(h, k)  BY <1>1, NetDeadOnward
<1> HIDE DEF k
<1>6. FlagsOrdered(k) /\ h.incomplete <= k.incomplete  BY <1>1, <1>5 DEF Onward
<1>7. k.unsent <= k.incomplete
  <2>1. k.unsent = h.unsent /\ h.unsent <= h.incomplete
    BY <1>4 DEF SendsNothing, HubSound
  <2>2. h.unsent \in Int /\ h.incomplete \in Int /\ k.incomplete \in Int
    BY <1>1, <1>3, HubFields DEF BoundedHubs
  <2> QED  BY <1>6, <2>1, <2>2
<1>8. HubSound(k)  BY <1>3, <1>4, <1>6, <1>7 DEF HubSound
<1> QED  BY <1>4, <1>5, <1>8 DEF k

\* What leaves the books, and the late flags, alone leaves a sound hub.
LEMMA SoundUntouched ==
  ASSUME NEW h, HubSound(h), NEW k, SameBooks(h, k), SameEnd(h, k), k.late = h.late
  PROVE  /\ HubSound(k) /\ Onward(h, k) /\ k.unsent = h.unsent
         /\ k.connected = h.connected /\ AcksKept(h, k)
<1>1. h \in HubRecords /\ h \in BoundedHubs  BY DEF HubSound, BoundedHubs
<1>2. Onward(h, k)  BY <1>1, OnwardSameBooks
<1>3. /\ k \in HubRecords /\ k.connected = h.connected /\ k.unsent = h.unsent
      /\ k.incomplete = h.incomplete /\ k.disp = h.disp /\ k.ack = h.ack
      /\ k.flags = h.flags
  BY DEF SameBooks
<1>4. k \in BoundedHubs /\ LateInStep(k) /\ FlagsOrdered(k)
  BY <1>1, <1>3 DEF HubSound, BoundedHubs, LateInStep, FlagsOrdered
<1>5. Books(k)  BY BooksUntouched DEF HubSound
<1>6. HubSound(k)  BY <1>3, <1>4, <1>5 DEF HubSound
<1> QED  BY <1>2, <1>3, <1>6 DEF AcksKept

\* hub_tick counts on.
LEMMA AgedSound ==
  ASSUME NEW h, HubSound(h)
  PROVE  LET k == Aged(h)
         IN /\ HubSound(k) /\ Onward(h, k) /\ k.unsent = h.unsent
            /\ k.connected = h.connected /\ AcksKept(h, k)
            /\ k.sinceSent # 0
<1>1. h \in HubRecords  BY DEF HubSound, BoundedHubs
<1>2. PICK p : p \in Player  BY PlayersAssumption DEF Player
<1>3. SameBooks(h, Aged(h)) /\ SameEnd(h, Aged(h))  BY <1>1, <1>2, SmallBooks
<1>4. Aged(h).late = h.late  BY <1>1 DEF Aged, HubRecords
<1>5. Aged(h).sinceSent = Least(h.sinceSent + 1, RecoveryPeriod)
  BY <1>1 DEF Aged, HubRecords
<1>6. Aged(h).sinceSent # 0
  <2>1. h.sinceSent \in 0 .. RecoveryPeriod  BY <1>1 DEF HubRecords
  <2> QED  BY <1>5, <2>1, TimingAssumption DEF Least
<1> QED  BY <1>3, <1>4, <1>6, SoundUntouched

\* An identification leaves everything but the addresses alone.
LEMMA IdentifiedSound ==
  ASSUME NEW h, HubSound(h), NEW p \in Player
  PROVE  LET k == Identified(h, p)
         IN /\ HubSound(k) /\ Onward(h, k) /\ k.unsent = h.unsent
            /\ k.connected = h.connected /\ AcksKept(h, k)
<1>1. h \in HubRecords  BY DEF HubSound, BoundedHubs
<1>2. SameBooks(h, Identified(h, p)) /\ SameEnd(h, Identified(h, p))
  BY <1>1, SmallBooks
<1>3. Identified(h, p).late = h.late  BY <1>1 DEF Identified, HubRecords
<1> QED  BY <1>2, <1>3, SoundUntouched

\* hub_initialize.
LEMMA InitialSound ==
  ASSUME NEW connected \in SUBSET Player, connected # {}
  PROVE  HubSound(Initial(connected))
<1> DEFINE h == Initial(connected)
<1>1. h \in BoundedHubs /\ LateInStep(h) /\ InOrder(h)
  BY InitialType, InitialBooks
<1>2. /\ h.incomplete = FirstTick /\ h.unsent = FirstTick /\ h.disp.w = FirstTick
      /\ \A q \in Player : h.flags[q].r = FirstTick /\ h.flags[q].w = FirstTick
  BY DEF Initial, EmptyAt
<1> HIDE DEF h
<1>3. FlagsOrdered(h)  BY <1>2, TicksAssumption DEF FlagsOrdered
<1> QED  BY <1>1, <1>2, <1>3, TicksAssumption DEF HubSound, Books, h

\* send_packets sends the ticks that are complete.
LEMMA SentSound ==
  ASSUME NEW h, HubSound(h)
  PROVE  LET k == Sent(h)
         IN /\ HubSound(k) /\ Onward(h, k) /\ k.connected = h.connected /\ k.ack = h.ack
            /\ k.unsent = k.incomplete /\ k.incomplete = h.incomplete
            /\ h.unsent <= k.unsent /\ k.sinceSent = 0
<1> DEFINE k == Sent(h)
<1>1. h \in BoundedHubs /\ h \in HubRecords /\ LateInStep(h) /\ FlagsOrdered(h)
  BY DEF HubSound, BoundedHubs
<1>2. k \in BoundedHubs /\ LateInStep(k) /\ Onward(h, k)
  BY <1>1, SentBounded, SentLate, SentOnward
<1>3. /\ k.connected = h.connected /\ k.ack = h.ack /\ k.incomplete = h.incomplete
      /\ k.unsent = h.incomplete /\ k.disp = h.disp /\ k.sinceSent = 0
  BY <1>1 DEF Sent, HubRecords
<1>4. Books(k)
  BY <1>1, <1>3, SentBooks DEF HubSound, Books
<1> HIDE DEF k
<1>5. FlagsOrdered(k)  BY <1>1, <1>2 DEF Onward
<1>6. h.unsent <= h.incomplete /\ h.incomplete <= h.disp.w  BY DEF HubSound
<1>7. h.incomplete \in Int  BY <1>1, HubFields
<1>8. HubSound(k)
  BY <1>2, <1>3, <1>4, <1>5, <1>6, <1>7 DEF HubSound
<1> QED  BY <1>2, <1>3, <1>6, <1>8 DEF k

\* Flags are only made up for a tick that is there.
LEMMA HeldUpSound ==
  ASSUME NEW h, HubSound(h)
  PROVE  LET k == HeldUp(h)
         IN /\ HubSound(k) /\ Onward(h, k) /\ k.connected = h.connected /\ k.ack = h.ack
            /\ k.unsent = h.unsent
<1> DEFINE k == HeldUp(h)
<1>1. h \in BoundedHubs /\ h \in HubRecords /\ LateInStep(h) /\ FlagsOrdered(h)
  BY DEF HubSound, BoundedHubs
<1>2. k \in BoundedHubs /\ LateInStep(k) /\ Onward(h, k)
  BY <1>1, HeldUpType, HeldUpLate, HeldUpOnward
<1>3. k.connected = h.connected  BY <1>1, HeldUpMembers DEF SameMembers
<1>4. Books(k)
  BY <1>1, <1>3, HeldUpBooks DEF HubSound, Books
<1>5. FlagsOrdered(k) /\ h.incomplete <= k.incomplete  BY <1>1, <1>2 DEF Onward
<1>6. h.unsent <= h.incomplete /\ h.incomplete <= h.disp.w  BY DEF HubSound
<1>7. k.ack = h.ack /\ k.unsent = h.unsent /\ k.incomplete <= k.disp.w
  <2>1. PICK g \in BoundedHubs :
          /\ SameBooks(h, g)
          /\ HeldUp(h) \in {h, g} \/ (h.incomplete < h.disp.w /\ HeldUp(h) = MadeUp(g))
    BY <1>1, HeldUpCases
  <2> HIDE DEF k
  <2>2. CASE k \in {h, g}
    BY <1>6, <2>1, <2>2 DEF SameBooks
  <2>3. CASE h.incomplete < h.disp.w /\ k = MadeUp(g)
    <3>1. g.incomplete < g.disp.w  BY <2>1, <2>3 DEF SameBooks
    <3>2. k.ack = g.ack /\ k.unsent = g.unsent /\ k.disp = g.disp
          /\ k.incomplete = g.incomplete + 1
      BY <2>3, <3>1, MadeUpFields
    <3>3. g.incomplete \in Int /\ g.disp.w \in Int  BY HubFields DEF BoundedHubs
    <3>4. k.incomplete <= k.disp.w  BY <3>1, <3>2, <3>3
    <3> QED  BY <2>1, <3>2, <3>4 DEF SameBooks
  <2> QED  BY <2>1, <2>2, <2>3 DEF k
<1> HIDE DEF k
<1>8. h.unsent \in Int /\ h.incomplete \in Int /\ k.incomplete \in Int
  BY <1>1, <1>2, HubFields DEF BoundedHubs
<1>9. k.unsent <= k.incomplete  BY <1>5, <1>6, <1>7, <1>8
<1>10. HubSound(k)  BY <1>2, <1>4, <1>5, <1>7, <1>9 DEF HubSound
<1> QED  BY <1>2, <1>3, <1>7, <1>10 DEF k

\* The end of hub_tick: it has called send_packets if and only if packets were
\* sent just now.
LEMMA FinishedSound ==
  ASSUME NEW h, HubSound(h), NEW send \in BOOLEAN, h.sinceSent # 0
  PROVE  LET k == Finished(h, send)
         IN /\ HubSound(k) /\ Onward(h, k) /\ k.connected = h.connected /\ k.ack = h.ack
            /\ h.unsent <= k.unsent
            /\ IF k.sinceSent = 0 THEN k.unsent = k.incomplete ELSE k = h /\ ~send
<1> DEFINE k == Finished(h, send)
           g == HeldUp(h)
<1>1. h \in HubRecords  BY DEF HubSound, BoundedHubs
<1>2. /\ HubSound(g) /\ Onward(h, g) /\ g.connected = h.connected /\ g.ack = h.ack
      /\ g.unsent = h.unsent
  BY HeldUpSound
<1>3. k = Sent(g) \/ k = Sent(h) \/ (k = h /\ ~send)
  BY DEF Finished
<1> HIDE DEF k, g
<1>4. CASE k = Sent(g)
  <2>1. /\ HubSound(k) /\ Onward(g, k) /\ k.connected = g.connected /\ k.ack = g.ack
        /\ k.unsent = k.incomplete /\ g.unsent <= k.unsent /\ k.sinceSent = 0
    BY <1>2, <1>4, SentSound
  <2>2. Onward(h, k)  BY <1>1, <1>2, <2>1, OnwardTransitive
  <2> QED  BY <1>2, <2>1, <2>2 DEF k
<1>5. CASE k = Sent(h)
  <2>1. /\ HubSound(k) /\ Onward(h, k) /\ k.connected = h.connected /\ k.ack = h.ack
        /\ k.unsent = k.incomplete /\ h.unsent <= k.unsent /\ k.sinceSent = 0
    BY <1>5, SentSound
  <2> QED  BY <2>1 DEF k
<1>6. CASE k = h /\ ~send
  <2>1. Onward(h, k)  BY <1>1, <1>6, OnwardReflexive
  <2>2. h.unsent <= k.unsent  BY <1>1, <1>6, HubFields
  <2> QED  BY <1>6, <2>1, <2>2 DEF k
<1> QED  BY <1>3, <1>4, <1>5, <1>6

\* The flags of a packet acknowledge nothing, and are sent on with all others
\* that are complete or not at all.
LEMMA FlagsReceivedEffect ==
  ASSUME NEW h \in HubRecords, LateInStep(h), NEW p \in Player, NEW from \in Int,
         NEW to \in Int, NEW asked \in Int, from <= to
  PROVE  LET k == FlagsReceived(h, p, from, to, asked)
         IN k.ack = h.ack /\ (k.unsent = h.unsent \/ k.unsent = k.incomplete)
<1> DEFINE result == FlagsReceived(h, p, from, to, asked)
<1>1. h.flags[p].w \in Int  BY HubFields
<1>2. CASE result = h  BY <1>2
<1>3. CASE result # h
  <2>1. PICK k \in HubRecords, n \in Nat :
          /\ TakesFlags(h, k, p, n)
          /\ IF n = 0 THEN result = k
             ELSE result \in ProvidedFrom(k, p, h.flags[p].w, h.flags[p].w + n)
    BY <1>3, FlagsTaken
  <2> HIDE DEF result
  <2>2. k.ack = h.ack /\ k.unsent = h.unsent  BY <2>1 DEF TakesFlags
  <2>3. CASE n = 0  BY <2>1, <2>2, <2>3 DEF result
  <2>4. CASE n # 0
    <3> DEFINE a == h.flags[p].w
               m == Provided(k, p, a, a + n)
    <3>1. result \in {m, Sent(m)}  BY <2>1, <2>4 DEF ProvidedFrom
    <3>2. a + n \in Int  BY <1>1
    <3> HIDE DEF a
    <3>3. m \in HubRecords /\ m.ack = k.ack /\ m.unsent = k.unsent
      BY <1>1, <3>2, ProvidedFields DEF a
    <3> HIDE DEF m
    <3>4. Sent(m).ack = m.ack /\ Sent(m).unsent = Sent(m).incomplete
      BY <3>3 DEF Sent, HubRecords
    <3> QED  BY <2>2, <3>1, <3>3, <3>4 DEF result
  <2> QED  BY <2>3, <2>4
<1> QED  BY <1>2, <1>3

\* hub_received_game_data_packet_v1, for a packet that acknowledges what was
\* sent.
LEMMA GameDataSound ==
  ASSUME NEW h, HubSound(h), NEW p \in h.connected, NEW ack \in Int, ack <= h.unsent,
         NEW from \in Int, NEW to \in Int, NEW asked \in Int, from <= to,
         to <= LastTick + 1
  PROVE  LET k == GameData(h, p, ack, from, to, asked)
         IN /\ HubSound(k) /\ Onward(h, k) /\ k.connected = h.connected
            /\ h.unsent <= k.unsent /\ (k.unsent = h.unsent \/ k.unsent = k.incomplete)
            /\ AcksKeptBut(h, k, p, ack)
<1> DEFINE k == GameData(h, p, ack, from, to, asked)
           m == Acknowledged(h, p, ack)
<1>1. h \in BoundedHubs /\ h \in HubRecords /\ InOrder(h) /\ LateInStep(h) /\ FlagsOrdered(h)
  BY DEF HubSound, Books, BoundedHubs
<1>2. p \in Player /\ h.ack[p] \in Int /\ h.connected \in SUBSET Player
  BY <1>1, HubFields
<1>3. k \in BoundedHubs /\ LateInStep(k) /\ InOrder(k) /\ Onward(h, k)
  BY <1>1, <1>2, GameDataLate, GameDataBooks, GameDataOnward
<1>4. k.connected = h.connected
  <2>1. SameMembers(h, k)  BY <1>1, <1>2, GameDataMembers
  <2> QED  BY <2>1 DEF SameMembers
<1>5. m \in HubRecords /\ LateInStep(m)
  BY <1>1, <1>2, AcknowledgedType, AcknowledgedLate
<1>6. m.unsent = h.unsent
  BY <1>1, AcknowledgedSendsNothing DEF SendsNothing
<1>7. \A q \in Player : m.ack[q] = h.ack[q] \/ (q = p /\ m.ack[q] = ack)
  <2>1. CASE ack < h.ack[p]  BY <2>1 DEF Acknowledged
  <2>2. CASE h.ack[p] <= ack
    <3>1. m = Acknowledged(h, p, ack)  OBVIOUS
    <3> HIDE DEF m
    <3> QED  BY <1>1, <1>2, <2>2, <3>1, AcknowledgedFields
  <2> QED  BY <1>2, <2>1, <2>2
<1>8. k \in {h, m, FlagsReceived(m, p, from, to, asked)}
  BY DEF GameData
<1> HIDE DEF k, m
<1>9. /\ \A q \in Player : k.ack[q] = h.ack[q] \/ (q = p /\ k.ack[q] = ack)
      /\ k.unsent = h.unsent \/ k.unsent = k.incomplete
  BY <1>2, <1>5, <1>6, <1>7, <1>8, FlagsReceivedEffect
<1>10. /\ k.unsent \in Int /\ h.unsent \in Int /\ k.incomplete \in Int /\ h.incomplete \in Int
  BY <1>1, <1>3, HubFields DEF BoundedHubs
<1>11. k.unsent <= k.incomplete /\ k.incomplete <= k.disp.w
  BY <1>3 DEF InOrder, WindowsOrdered
<1>12. FlagsOrdered(k) /\ h.incomplete <= k.incomplete  BY <1>1, <1>3 DEF Onward
<1>13. h.unsent <= k.unsent
  BY <1>9, <1>10, <1>12 DEF HubSound
<1>14. HubSound(k)  BY <1>3, <1>11, <1>12 DEF HubSound, Books
<1>15. AcksKeptBut(h, k, p, ack)  BY <1>2, <1>4, <1>9 DEF AcksKeptBut
<1> QED  BY <1>3, <1>4, <1>9, <1>13, <1>14, <1>15 DEF k

----------------------------------------------------------------------------
(* The loop of hub_tick.                                                    *)

\* One iteration of the loop.
CheckedPlayer(before, i) ==
  IF Overdue(before.hub, i) THEN [hub |-> NetDead(before.hub, i), send |-> TRUE] ELSE before
\* Before the first iteration the hub has counted the tick.
NobodyChecked == [hub |-> Aged(hub), send |-> FALSE]

\* The first n iterations, as a function of how many they are.
FirstChecks(f, n) ==
  f = [i \in 0 .. n |-> IF i = 0 THEN NobodyChecked ELSE CheckedPlayer(f[i - 1], i - 1)]

\* The loop can be run for any number of iterations.
LEMMA ChecksExist ==
  ASSUME NEW n \in Nat
  PROVE  \E f : FirstChecks(f, n)
<1> DEFINE Bad == {i \in Nat : ~ \E f : FirstChecks(f, i)}
<1>1. 0 \notin Bad
  <2> DEFINE f == [i \in 0 .. 0 |-> NobodyChecked]
  <2>1. f = [i \in 0 .. 0 |-> IF i = 0 THEN NobodyChecked ELSE CheckedPlayer(f[i - 1], i - 1)]
    <3> HIDE DEF NobodyChecked, CheckedPlayer
    <3>1. \A i \in 0 .. 0 : i = 0  OBVIOUS
    <3> QED  BY <3>1, Zenon
  <2>2. FirstChecks(f, 0)  BY <2>1 DEF FirstChecks
  <2> QED  BY <2>2
<1>2. ASSUME NEW i \in Nat, i + 1 \in Bad  PROVE i \in Bad
  <2> SUFFICES ASSUME NEW f, FirstChecks(f, i)  PROVE \E g : FirstChecks(g, i + 1)
    BY <1>2
  <2> DEFINE g == [j \in 0 .. (i + 1) |-> IF j <= i THEN f[j] ELSE CheckedPlayer(f[i], i)]
  <2>1. ASSUME NEW j \in 0 .. (i + 1)
        PROVE  g[j] = IF j = 0 THEN NobodyChecked ELSE CheckedPlayer(g[j - 1], j - 1)
    <3>1. CASE j = 0
      <4>1. j \in 0 .. i /\ g[j] = f[j]  BY <3>1
      <4>2. f[j] = NobodyChecked  BY <3>1, <4>1 DEF FirstChecks
      <4> QED  BY <3>1, <4>1, <4>2
    <3>2. CASE j # 0 /\ j <= i
      <4>1. j \in 0 .. i /\ j - 1 \in 0 .. i /\ g[j] = f[j] /\ g[j - 1] = f[j - 1]  BY <3>2
      <4>2. f[j] = CheckedPlayer(f[j - 1], j - 1)  BY <3>2, <4>1 DEF FirstChecks
      <4> QED  BY <3>2, <4>1, <4>2
    <3>3. CASE j = i + 1
      <4>1. j - 1 = i /\ g[j] = CheckedPlayer(f[i], i) /\ g[i] = f[i] /\ j # 0  BY <3>3
      <4> QED  BY ONLY <4>1
    <3> QED  BY <3>1, <3>2, <3>3
  <2>2. DOMAIN g = 0 .. (i + 1) /\ g = [j \in 0 .. (i + 1) |-> g[j]]
    <3>1. DOMAIN g = 0 .. (i + 1)  OBVIOUS
    <3>2. \A j \in 0 .. (i + 1) : g[j] = g[j]  OBVIOUS
    <3> QED  BY <3>1, Zenon
  <2> HIDE DEF g
  <2>3. FirstChecks(g, i + 1)
    BY <2>1, <2>2, Zenon DEF FirstChecks
  <2> QED  BY <2>3
<1>3. Bad = {}
  <2> SUFFICES ASSUME Bad # {}  PROVE FALSE  OBVIOUS
  <2>1. Bad \in SUBSET Nat  OBVIOUS
  <2> HIDE DEF Bad
  <2>2. PICK m \in Bad : \A i \in Bad : m <= i  BY <2>1, LeastNumber
  <2>3. m # 0 /\ m \in Nat  BY <1>1, <2>1
  <2>4. m - 1 \in Nat /\ (m - 1) + 1 = m  BY <2>3
  <2>5. m - 1 \in Bad  BY <1>2, <2>2, <2>4
  <2> QED  BY <2>2, <2>3, <2>4, <2>5
<1> QED  BY <1>3

\* Checked is the loop.
LEMMA CheckedLoop ==
  /\ Checked[0] = NobodyChecked
  /\ \A i \in 1 .. NumPlayers : Checked[i] = CheckedPlayer(Checked[i - 1], i - 1)
<1>1. NumPlayers \in Nat  BY PlayersAssumption
<1>2. \E f : FirstChecks(f, NumPlayers)  BY <1>1, ChecksExist
<1>3. Checked = CHOOSE f : FirstChecks(f, NumPlayers)
  BY Zenon DEF Checked, FirstChecks, CheckedPlayer, NobodyChecked
<1>4. FirstChecks(Checked, NumPlayers)  BY <1>2, <1>3, Zenon
<1> HIDE DEF NobodyChecked, CheckedPlayer
<1>5. Checked = [i \in 0 .. NumPlayers |->
        IF i = 0 THEN NobodyChecked ELSE CheckedPlayer(Checked[i - 1], i - 1)]
  BY <1>4, Zenon DEF FirstChecks
<1> HIDE DEF Checked
<1>6. \A i \in 1 .. NumPlayers : i \in 0 .. NumPlayers /\ i # 0  BY <1>1
<1>7. 0 \in 0 .. NumPlayers  BY <1>1
<1> QED  BY <1>5, <1>6, <1>7

\* Acknowledgements that are kept by two steps are kept by both.
LEMMA AcksKeptTransitive ==
  ASSUME NEW h, NEW k, NEW m, Onward(k, m), k \in HubRecords, AcksKept(h, k), AcksKept(k, m)
  PROVE  AcksKept(h, m)
<1>1. m.connected \in SUBSET Player  BY HubFields DEF Onward
<1>2. \A q \in m.connected : q \in k.connected  BY <1>1 DEF Onward, PlayerKept
<1> QED  BY <1>2 DEF AcksKept

\* What holds after each iteration: nothing was sent, but something will be
\* if somebody has died.
LoopSound(c) ==
  /\ HubSound(c.hub) /\ Onward(hub, c.hub) /\ AcksKept(hub, c.hub)
  /\ c.hub.unsent = hub.unsent /\ c.hub.sinceSent # 0
  /\ c.send \in BOOLEAN /\ (c.send = FALSE => c.hub.connected = hub.connected)

\* One iteration: a player that is overdue is dropped.
LEMMA CheckedPlayerSound ==
  ASSUME NEW c, LoopSound(c), NEW p \in Player, hub \in HubRecords
  PROVE  LoopSound(CheckedPlayer(c, p))
<1> DEFINE k == NetDead(c.hub, p)
           d == [hub |-> k, send |-> TRUE]
<1>1. CASE ~Overdue(c.hub, p)
  BY <1>1 DEF CheckedPlayer
<1>2. CASE Overdue(c.hub, p)
  <2>1. CheckedPlayer(c, p) = d  BY <1>2 DEF CheckedPlayer
  <2>2. p \in c.hub.connected  BY <1>2 DEF Overdue
  <2>3. HubSound(k) /\ Onward(c.hub, k) /\ SendsNothing(c.hub, k) /\ AcksKept(c.hub, k)
    BY <2>2, NetDeadSound DEF LoopSound
  <2>4. d.hub = k /\ d.send = TRUE  OBVIOUS
  <2> HIDE DEF k, d
  <2>5. c.hub \in HubRecords  BY DEF LoopSound, HubSound, BoundedHubs
  <2>6. Onward(hub, k) /\ AcksKept(hub, k)
    BY <2>3, <2>5, OnwardTransitive, AcksKeptTransitive DEF LoopSound
  <2>7. k.unsent = hub.unsent /\ k.sinceSent # 0
    BY <2>3 DEF LoopSound, SendsNothing
  <2> QED  BY <2>1, <2>3, <2>4, <2>6, <2>7 DEF LoopSound
<1> QED  BY <1>1, <1>2

\* The whole loop, by induction on the number of players checked.
LEMMA CheckedSound ==
  ASSUME HubSound(hub)
  PROVE  LoopSound(Checked[NumPlayers])
<1>1. hub \in HubRecords  BY DEF HubSound, BoundedHubs
<1>2. LoopSound(NobodyChecked)
  <2> DEFINE k == Aged(hub)
             c == [hub |-> k, send |-> FALSE]
  <2>1. /\ HubSound(k) /\ Onward(hub, k) /\ k.unsent = hub.unsent
        /\ k.connected = hub.connected /\ AcksKept(hub, k) /\ k.sinceSent # 0
    BY AgedSound
  <2>2. NobodyChecked = c  BY DEF NobodyChecked
  <2>3. c.hub = k /\ c.send = FALSE  OBVIOUS
  <2> HIDE DEF k, c
  <2> QED  BY <2>1, <2>2, <2>3 DEF LoopSound
<1> DEFINE Bad == {i \in Nat : i <= NumPlayers /\ ~LoopSound(Checked[i])}
<1>3. NumPlayers \in Nat  BY PlayersAssumption
<1>4. 0 \notin Bad  BY <1>2, CheckedLoop
<1>5. ASSUME NEW i \in Nat, i + 1 \in Bad  PROVE i \in Bad
  <2>1. i + 1 \in 1 .. NumPlayers /\ i <= NumPlayers /\ (i + 1) - 1 = i  BY <1>3, <1>5
  <2>2. i \in Player  BY <1>3, <2>1 DEF Player
  <2>3. Checked[i + 1] = CheckedPlayer(Checked[i], i)  BY <2>1, CheckedLoop
  <2>4. ~LoopSound(Checked[i + 1])  BY <1>5
  <2>5. ~LoopSound(Checked[i])  BY <1>1, <2>2, <2>3, <2>4, CheckedPlayerSound
  <2> QED  BY <2>1, <2>5
<1>6. Bad = {}
  <2> SUFFICES ASSUME Bad # {}  PROVE FALSE  OBVIOUS
  <2>1. Bad \in SUBSET Nat  OBVIOUS
  <2> HIDE DEF Bad
  <2>2. PICK m \in Bad : \A i \in Bad : m <= i  BY <2>1, LeastNumber
  <2>3. m # 0 /\ m \in Nat  BY <1>4, <2>1
  <2>4. m - 1 \in Nat /\ (m - 1) + 1 = m  BY <2>3
  <2>5. m - 1 \in Bad  BY <1>5, <2>2, <2>4
  <2> QED  BY <2>2, <2>3, <2>4, <2>5
<1>7. NumPlayers \notin Bad  BY <1>6
<1> QED  BY <1>3, <1>7

\* hub_tick.
LEMMA HubTickSound ==
  ASSUME HubSound(hub)
  PROVE  LET k == Finished(Checked[NumPlayers].hub, Checked[NumPlayers].send)
         IN /\ HubSound(k) /\ Onward(hub, k) /\ hub.unsent <= k.unsent /\ AcksKept(hub, k)
            /\ k.connected = hub.connected \/ k.unsent = k.incomplete
            /\ k.sinceSent = 0 => k.unsent = k.incomplete
<1> DEFINE c == Checked[NumPlayers]
           k == Finished(c.hub, c.send)
<1>1. LoopSound(c)  BY CheckedSound
<1> HIDE DEF c
<1>2. /\ HubSound(k) /\ Onward(c.hub, k) /\ k.connected = c.hub.connected
      /\ k.ack = c.hub.ack /\ c.hub.unsent <= k.unsent
      /\ IF k.sinceSent = 0 THEN k.unsent = k.incomplete ELSE k = c.hub /\ ~c.send
  BY <1>1, FinishedSound DEF LoopSound
<1> HIDE DEF k
<1>3. hub \in HubRecords /\ c.hub \in HubRecords
  BY <1>1 DEF LoopSound, HubSound, BoundedHubs
<1>4. Onward(hub, k)  BY <1>1, <1>2, <1>3, OnwardTransitive DEF LoopSound
<1>5. AcksKept(hub, k)  BY <1>1, <1>2 DEF LoopSound, AcksKept
<1>6. k.connected = hub.connected \/ k.unsent = k.incomplete
  BY <1>1, <1>2 DEF LoopSound
<1> QED  BY <1>1, <1>2, <1>4, <1>5, <1>6 DEF LoopSound, c, k

----------------------------------------------------------------------------
(* The invariant: what holds of the hub and the tape, of a spoke and of the *)
(* packets in flight, for a hub h, a tape tp, the players S that take part  *)
(* and the spoke s of player p.                                             *)

\* What can be decided on for a player and a tick.
Decisions == {"sent", "made", "dead"}

\* What a spoke keeps, whatever it is (module SpokeState).
SpokeRecords == [
  online : BOOLEAN, heard : BOOLEAN, out : Queue, unconf : Queue, confirmed : Int,
  unreceived : Int, peers : SUBSET Player, deadTick : [Player -> Int],
  next : [Player -> Int], got : [Player -> [Ticks -> Decisions \cup {"none"}]],
  requested : Int, outstanding : Int, silence : Int, sinceSent : Int,
  garbled : BOOLEAN, broken : SUBSET Int ]

\* Who is connected takes part, and has not died; who does not take part died
\* before the first tick.
MembersSound(h, S) ==
  /\ S \subseteq Listed
  /\ \A q \in Player : q \in h.connected => q \in S /\ h.deadTick[q] < FirstTick
  /\ \A q \in Player \ S : h.deadTick[q] < FirstTick

\* What was decided for a tick that was sent: a dead player is dead from its
\* last tick on, and made-up flags are marked while the tick is held.
Decided(h, tp, t, q) ==
  /\ tp[t][q] = "dead" <=> q \notin h.connected /\ h.deadTick[q] <= t
  /\ (h.connected # {} /\ h.disp.r <= t /\ tp[t][q] # "dead")
       => (tp[t][q] = "made" <=> t \in h.made[q])
\* The tape, for all ticks that were sent.
TapeSound(h, tp) ==
  /\ tp \in [Ticks -> [Player -> Decisions]]
  /\ \A t \in Ticks, q \in Player : t < h.unsent => Decided(h, tp, t, q)

\* A spoke learns of each death in time: from whom it takes for connected the
\* hub has flags for the next tick that the spoke has not received.
PeerKnown(h, p, s, q) ==
  /\ q \notin s.peers => q \notin h.connected /\ s.deadTick[q] = h.deadTick[q]
  /\ q \in s.peers /\ q # p => q \in h.connected \/ s.unreceived <= h.deadTick[q]
\* The same for all others; the spoke itself never hears of its own death.
PeersSound(h, S, p, s) ==
  /\ s.peers \subseteq S /\ p \in s.peers /\ s.garbled = FALSE
  /\ \A q \in Player : PeerKnown(h, p, s, q)

\* The hub has sent what a spoke has received, unless that one is alone, and
\* has at least the flags that the spoke has dropped; a spoke has received
\* what it has acknowledged.
SpokeInWindow(h, p, s) ==
  /\ s.unreceived <= h.unsent \/ (p \notin h.connected /\ WeAreAlone(s, p))
  /\ FirstTick <= s.unreceived /\ s.unreceived <= LastTick + 1
  /\ FirstTick <= s.out.r /\ s.out.r <= s.out.w /\ s.out.w <= LastTick + 1
  /\ p \in h.connected => s.out.r <= h.flags[p].w
  /\ h.connected = {p} => s.out.r <= h.unsent
  /\ p \in h.connected => WeAreAlone(s, p) \/ h.ack[p] <= s.unreceived

\* What a spoke has received is on the tape.
SpokePlays(tp, p, s) ==
  s.online /\ ~WeAreAlone(s, p) => \A q \in Listed :
    /\ s.next[q] = Greatest(s.unreceived, RealTick)
    /\ \A t \in RealTick .. (s.unreceived - 1) : s.got[q][t] = tp[t][q]

\* The queues of a spoke that waits for the hub's flags stand at the tick that
\* it waits for, and it has the flags that it has sent and the hub lacks.
InStep(s) ==
  /\ s.broken = {} /\ s.confirmed = Greatest(s.unreceived, RealTick)
  /\ s.unconf.r <= s.confirmed /\ s.unconf.w = Greatest(s.out.w, RealTick)
  /\ \A q \in Listed : s.next[q] = Greatest(s.unreceived, RealTick)
\* One that has gone on without them was alone, and all others are dead by the
\* tick it waits for.
GoneAhead(p, s) ==
  WeAreAlone(s, p) /\ \A q \in Player \ {p} : s.deadTick[q] <= s.unreceived
\* What an assertion that has failed says of the spoke.
BrokenAlone(p, s) ==
  s.broken # {} => s.broken = {589} /\ p # LocalPlayer /\ WeAreAlone(s, p)
SpokeQueues(p, s) ==
  BrokenAlone(p, s) /\ (s.online => InStep(s) \/ GoneAhead(p, s))

\* All of this for one spoke.
SpokeSound(h, tp, S, p, s) ==
  /\ s \in SpokeRecords /\ PeersSound(h, S, p, s) /\ SpokeInWindow(h, p, s)
  /\ SpokePlays(tp, p, s) /\ SpokeQueues(p, s)

\* A packet to a spoke holds, for some successive ticks, the flags on the tape
\* of all that are not dead, the player's own ones only if some of them were
\* made up; it tells of the deaths that the spoke has to know to read it.
TickInPacket(h, tp, p, m, t) ==
  /\ t \in Ticks /\ t < h.unsent
  /\ DOMAIN m.flags[t] = {q \in Player : tp[t][q] # "dead" /\ (q = p => m.reflected)}
  /\ \A q \in DOMAIN m.flags[t] : m.flags[t][q] = tp[t][q]
  /\ ~m.reflected => tp[t][p] = "sent"
\* A death that a packet tells of is that of another player, with its last tick.
DeathInPacket(h, p, m, q) ==
  q \in Player /\ q # p /\ q \notin h.connected /\ m.deaths[q] = h.deadTick[q]
\* A player is there, or its death is told, or its flags are.
PeerInPacket(h, m, q) ==
  q \in h.connected \/ q \in DOMAIN m.deaths \/ \A t \in DOMAIN m.flags : t < h.deadTick[q]
\* The hub has the player's flags for the ticks of a packet, each of which has
\* somebody's; flags are only sent back to players on other machines.
OwnFlagsHeld(p, m) ==
  /\ \A t \in DOMAIN m.flags : t < m.ack /\ DOMAIN m.flags[t] # {}
  /\ p = LocalPlayer => ~m.reflected
\* All of this for a packet m to the spoke s of player p.
ToSpokeSound(h, tp, p, s, m) ==
  /\ m.ack \in Int /\ m.adjust \in Int /\ m.reflected \in BOOLEAN /\ OwnFlagsHeld(p, m)
  /\ m.ack <= h.flags[p].w /\ (h.connected = {p} => m.ack <= h.unsent)
  /\ \A q \in DOMAIN m.deaths : DeathInPacket(h, p, m, q)
  /\ \A t \in DOMAIN m.flags : TickInPacket(h, tp, p, m, t)
  /\ \A t, u \in DOMAIN m.flags : \A v \in t .. u : v \in DOMAIN m.flags
  /\ \A q \in s.peers : PeerInPacket(h, m, q)

\* A packet to the hub acknowledges what was sent and received, and leaves no
\* gap in the player's flags.
ToHubSound(h, p, s, m) ==
  /\ m.ack \in Int /\ m.from \in Int /\ m.to \in Int
  /\ m.from <= m.to /\ m.to <= LastTick + 1
  /\ p \in h.connected => m.ack <= h.unsent /\ m.from <= h.flags[p].w
  /\ WeAreAlone(s, p) \/ m.ack <= s.unreceived

\* A channel is a sequence.
ChannelSound(c) == c \in Seq(Arriving(c))

\* The whole game: hub, tape, spokes and what is on its way between them.
GameSound(h, tp, sp, th, ts) ==
  /\ HubSound(h) /\ MembersSound(h, DOMAIN sp) /\ TapeSound(h, tp)
  /\ \A p \in DOMAIN sp : SpokeSound(h, tp, DOMAIN sp, p, sp[p])
  /\ DOMAIN th = DOMAIN sp \ {LocalPlayer} /\ DOMAIN ts = DOMAIN sp \ {LocalPlayer}
  /\ \A p \in DOMAIN sp \ {LocalPlayer} :
       /\ ChannelSound(th[p]) /\ ChannelSound(ts[p])
       /\ \A m \in Arriving(th[p]) : IsIdent(m) \/ ToHubSound(h, p, sp[p], m)
       /\ \A m \in Arriving(ts[p]) : ToSpokeSound(h, tp, p, sp[p], m)

\* The inductive invariant.
GameInv == GameSound(hub, tape, spoke, toHub, toSpoke)

----------------------------------------------------------------------------
(* A spoke hears a packet.                                                  *)

\* What the packets in flight rely on: a spoke finds no one again, who is
\* alone, or has lost the hub, stays so, and who is not goes on.
SpokeOnward(p, s, k) ==
  /\ k.peers \subseteq s.peers /\ (k.online => s.online)
  /\ WeAreAlone(s, p) => WeAreAlone(k, p)
  /\ WeAreAlone(k, p) \/ s.unreceived <= k.unreceived

\* The types of a spoke's fields.
LEMMA SpokeFields ==
  ASSUME NEW s \in SpokeRecords
  PROVE  /\ s.out \in Queue /\ s.out.r \in Int /\ s.out.w \in Int
         /\ s.unconf \in Queue /\ s.unconf.r \in Int /\ s.unconf.w \in Int
         /\ s.unreceived \in Int /\ s.confirmed \in Int /\ s.outstanding \in Int
         /\ s.peers \in SUBSET Player /\ s.deadTick \in [Player -> Int]
         /\ s.next \in [Player -> Int]
         /\ s.got \in [Player -> [Ticks -> Decisions \cup {"none"}]]
         /\ s.online \in BOOLEAN /\ s.broken \in SUBSET Int
BY DEF SpokeRecords, Queue

\* process_messages and the hub's acknowledgement: what they change.
LEMMA HubHeardFields ==
  ASSUME NEW s \in SpokeRecords, NEW m, m.ack \in Int, m.adjust \in Int,
         \A q \in DOMAIN m.deaths : q \in Player /\ m.deaths[q] \in Int,
         s.out.r <= s.out.w, NEW k, k = HubHeard(s, m)
  PROVE  /\ k \in SpokeRecords
         /\ k.peers = s.peers \ DOMAIN m.deaths
         /\ \A q \in Player : k.deadTick[q] = IF q \in DOMAIN m.deaths
                                              THEN m.deaths[q] ELSE s.deadTick[q]
         /\ s.out.r <= k.out.r /\ k.out.r <= k.out.w /\ k.out.w = s.out.w
         /\ k.out.r = s.out.r \/ k.out.r <= m.ack
         /\ k.unreceived = s.unreceived /\ k.next = s.next /\ k.got = s.got
         /\ k.online = s.online /\ k.garbled = s.garbled
         /\ k.unconf = s.unconf /\ k.confirmed = s.confirmed /\ k.broken = s.broken
<1> DEFINE out == Unacknowledged(s, m)
           outstanding == IF m.adjust \notin {0, s.requested} THEN m.adjust ELSE s.outstanding
           peers == s.peers \ DOMAIN m.deaths
           deadTick == [q \in Player |-> IF q \in DOMAIN m.deaths
                                         THEN m.deaths[q] ELSE s.deadTick[q]]
           new == [s EXCEPT !.heard = TRUE, !.silence = 0, !.out = out,
                            !.outstanding = outstanding, !.requested = m.adjust,
                            !.peers = peers, !.deadTick = deadTick]
<1>1. k = new  BY DEF HubHeard, SpokeRecords
<1>2. s.out.r \in Int /\ s.out.w \in Int  BY SpokeFields
<1>3. /\ out \in Queue /\ s.out.r <= out.r /\ out.r <= out.w /\ out.w = s.out.w
      /\ out.r = s.out.r \/ out.r <= m.ack
  <2> DEFINE n == Greatest(Least(m.ack, s.out.w) - s.out.r, 0)
  <2>1. /\ n \in Int /\ 0 <= n /\ s.out.r + n <= s.out.w
        /\ n = 0 \/ s.out.r + n <= m.ack
    BY <1>2 DEF Greatest, Least
  <2>2. out = [r |-> s.out.r + n, w |-> s.out.w]
    BY DEF Unacknowledged, Drop
  <2> HIDE DEF n, out
  <2> QED  BY <1>2, <2>1, <2>2 DEF Queue
<1>4. outstanding \in Int /\ peers \in SUBSET Player /\ deadTick \in [Player -> Int] /\ 0 \in Int
  BY DEF SpokeRecords
<1>5. \A q \in Player : deadTick[q] = IF q \in DOMAIN m.deaths
                                      THEN m.deaths[q] ELSE s.deadTick[q]
  OBVIOUS
<1> HIDE DEF out, outstanding, deadTick
<1>6. /\ new \in SpokeRecords /\ new.out = out /\ new.peers = peers /\ new.deadTick = deadTick
      /\ new.unreceived = s.unreceived /\ new.next = s.next /\ new.got = s.got
      /\ new.online = s.online /\ new.garbled = s.garbled
      /\ new.unconf = s.unconf /\ new.confirmed = s.confirmed /\ new.broken = s.broken
  BY <1>3, <1>4 DEF SpokeRecords
<1> HIDE DEF new
<1> QED  BY <1>1, <1>3, <1>5, <1>6

\* A spoke without others connected to it: nobody but the player can be
\* connected to the hub.
LEMMA AloneIsConnected ==
  ASSUME NEW h, NEW S, NEW p, NEW s, PeersSound(h, S, p, s), WeAreAlone(s, p),
         h.connected \in SUBSET Player, p \in h.connected
  PROVE  h.connected = {p}
<1>1. \A q \in Player : q # p => q \notin h.connected
  BY DEF PeersSound, PeerKnown, WeAreAlone
<1> QED  BY <1>1

\* What happens to a spoke that moves no queue but what it knows of the others.
LEMMA SpokeQueuesKept ==
  ASSUME NEW p, NEW s, SpokeQueues(p, s), NEW k,
         k.unreceived = s.unreceived, k.next = s.next, k.out.w = s.out.w,
         k.unconf = s.unconf, k.confirmed = s.confirmed, k.broken = s.broken,
         k.online = s.online, WeAreAlone(s, p) => WeAreAlone(k, p),
         WeAreAlone(s, p) => \A q \in Player \ {p} : k.deadTick[q] = s.deadTick[q]
  PROVE  SpokeQueues(p, k)
BY DEF SpokeQueues, BrokenAlone, InStep, GoneAhead

\* The news of a packet, apart from its flags.
LEMMA HubHeardSound ==
  ASSUME NEW h, HubSound(h), NEW tp, NEW S, NEW p \in Player, NEW s, NEW m,
         SpokeSound(h, tp, S, p, s), ToSpokeSound(h, tp, p, s, m),
         NEW k, k = HubHeard(s, m)
  PROVE  /\ SpokeSound(h, tp, S, p, k) /\ SpokeOnward(p, s, k)
         /\ k.unreceived = s.unreceived /\ k.out.w = s.out.w /\ k.online = s.online
         /\ k.peers = s.peers \ DOMAIN m.deaths
<1>1. /\ h.connected \in SUBSET Player /\ h.deadTick \in [Player -> Int]
      /\ h.unsent \in Int /\ h.flags[p].w \in Int /\ h.ack[p] \in Int
  BY HubFields DEF HubSound, BoundedHubs
<1>2. /\ s \in SpokeRecords /\ PeersSound(h, S, p, s) /\ SpokeInWindow(h, p, s)
      /\ SpokePlays(tp, p, s) /\ SpokeQueues(p, s)
  BY DEF SpokeSound
<1>3. \A q \in DOMAIN m.deaths : DeathInPacket(h, p, m, q)  BY DEF ToSpokeSound
<1>4. \A q \in DOMAIN m.deaths : q \in Player /\ m.deaths[q] \in Int
  BY <1>1, <1>3 DEF DeathInPacket
<1>5. m.ack \in Int /\ m.adjust \in Int /\ m.ack <= h.flags[p].w
      /\ (h.connected = {p} => m.ack <= h.unsent)
  BY DEF ToSpokeSound
<1>6. s.out.r <= s.out.w  BY <1>2 DEF SpokeInWindow
<1>7. /\ k \in SpokeRecords
      /\ k.peers = s.peers \ DOMAIN m.deaths
      /\ \A q \in Player : k.deadTick[q] = IF q \in DOMAIN m.deaths
                                           THEN m.deaths[q] ELSE s.deadTick[q]
      /\ s.out.r <= k.out.r /\ k.out.r <= k.out.w /\ k.out.w = s.out.w
      /\ k.out.r = s.out.r \/ k.out.r <= m.ack
      /\ k.unreceived = s.unreceived /\ k.next = s.next /\ k.got = s.got
      /\ k.online = s.online /\ k.garbled = s.garbled
      /\ k.unconf = s.unconf /\ k.confirmed = s.confirmed /\ k.broken = s.broken
  BY ONLY <1>2, <1>4, <1>5, <1>6, k = HubHeard(s, m), HubHeardFields
<1>8. /\ s.out.r \in Int /\ s.out.w \in Int /\ k.out.r \in Int /\ s.unreceived \in Int
      /\ s.peers \in SUBSET Player
      /\ \A q \in Player : s.deadTick[q] \in Int
  BY <1>2, <1>7, SpokeFields
<1>9. \A q \in Player : PeerKnown(h, p, k, q)
  <2> SUFFICES ASSUME NEW q \in Player  PROVE PeerKnown(h, p, k, q)  OBVIOUS
  <2>1. PeerKnown(h, p, s, q)  BY <1>2 DEF PeersSound
  <2>2. q \in DOMAIN m.deaths => q \notin h.connected /\ m.deaths[q] = h.deadTick[q]
    BY <1>3 DEF DeathInPacket
  <2>3. k.deadTick[q] = IF q \in DOMAIN m.deaths THEN m.deaths[q] ELSE s.deadTick[q]
    BY <1>7
  <2> QED  BY <1>7, <2>1, <2>2, <2>3 DEF PeerKnown
<1>10. PeersSound(h, S, p, k)
  <2>1. p \notin DOMAIN m.deaths  BY <1>3 DEF DeathInPacket
  <2> QED  BY <1>2, <1>7, <1>9, <2>1 DEF PeersSound
<1>11. WeAreAlone(s, p) => /\ WeAreAlone(k, p)
                           /\ \A q \in Player \ {p} : k.deadTick[q] = s.deadTick[q]
  <2> SUFFICES ASSUME WeAreAlone(s, p), NEW q \in Player \ {p}
               PROVE  /\ q \notin k.peers /\ k.deadTick[q] <= k.out.r
                      /\ k.deadTick[q] = s.deadTick[q]
    BY DEF WeAreAlone
  <2>1. q \notin s.peers /\ s.deadTick[q] <= s.out.r  BY DEF WeAreAlone
  <2>2. PeerKnown(h, p, s, q)  BY <1>2 DEF PeersSound
  <2>3. k.deadTick[q] = s.deadTick[q]
    BY <1>3, <1>7, <2>1, <2>2 DEF PeerKnown, DeathInPacket
  <2>4. s.deadTick[q] \in Int  BY <1>8
  <2> QED  BY <1>7, <1>8, <2>1, <2>3, <2>4
<1>12. SpokeInWindow(h, p, k)
  <2>1. k.unreceived <= h.unsent \/ (p \notin h.connected /\ WeAreAlone(k, p))
    BY <1>2, <1>7, <1>11 DEF SpokeInWindow
  <2>2. FirstTick <= k.unreceived /\ k.unreceived <= LastTick + 1
    BY <1>2, <1>7 DEF SpokeInWindow
  <2>3. FirstTick <= k.out.r /\ k.out.r <= k.out.w /\ k.out.w <= LastTick + 1
    <3>1. FirstTick <= s.out.r /\ s.out.w <= LastTick + 1  BY <1>2 DEF SpokeInWindow
    <3> QED  BY <1>7, <1>8, <3>1, TicksAssumption
  <2>4. p \in h.connected => k.out.r <= h.flags[p].w
    <3>1. p \in h.connected => s.out.r <= h.flags[p].w  BY <1>2 DEF SpokeInWindow
    <3> QED  BY <1>1, <1>5, <1>7, <1>8, <3>1
  <2>5. h.connected = {p} => k.out.r <= h.unsent
    <3>1. h.connected = {p} => s.out.r <= h.unsent  BY <1>2 DEF SpokeInWindow
    <3> QED  BY <1>1, <1>5, <1>7, <1>8, <3>1
  <2>6. p \in h.connected => WeAreAlone(k, p) \/ h.ack[p] <= k.unreceived
    BY <1>2, <1>7, <1>11 DEF SpokeInWindow
  <2> QED  BY <2>1, <2>2, <2>3, <2>4, <2>5, <2>6 DEF SpokeInWindow
<1>13. SpokePlays(tp, p, k)
  BY <1>2, <1>7, <1>11 DEF SpokePlays
<1>14. SpokeOnward(p, s, k)
  <2>1. s.unreceived <= k.unreceived  BY <1>7, <1>8
  <2> QED  BY <1>7, <1>11, <2>1 DEF SpokeOnward
<1>15. SpokeQueues(p, k)  BY <1>2, <1>7, <1>11, SpokeQueuesKept
<1> QED  BY <1>7, <1>10, <1>12, <1>13, <1>14, <1>15 DEF SpokeSound

\* What a spoke's place in the game rests on, apart from what it was given.
SamePlace(s, k) ==
  /\ k.peers = s.peers /\ k.deadTick = s.deadTick /\ k.out = s.out
  /\ k.online = s.online /\ k.garbled = s.garbled /\ k.unconf = s.unconf

\* The game's queues when the player goes on alone.
LEMMA GoneOnType ==
  ASSUME NEW s \in SpokeRecords, NEW p \in Player, NEW upTo \in [Player -> Int]
  PROVE  /\ GoneOn(s, p, upTo) \in SpokeRecords
         /\ SamePlace(s, GoneOn(s, p, upTo))
         /\ GoneOn(s, p, upTo).unreceived = s.unreceived
         /\ GoneOn(s, p, upTo).broken = s.broken
<1> DEFINE next == [q \in Player |-> IF q \in Listed THEN upTo[q] ELSE s.next[q]]
           got == [q \in Player |-> [t \in Ticks |->
               IF q \in Listed /\ t \in s.next[q] .. (upTo[q] - 1)
               THEN IF q = p THEN "sent" ELSE "dead" ELSE s.got[q][t]]]
           new == [s EXCEPT !.next = next, !.got = got]
<1>1. GoneOn(s, p, upTo) = new  BY DEF GoneOn, SpokeRecords
<1>2. next \in [Player -> Int]  BY SpokeFields
<1>3. got \in [Player -> [Ticks -> Decisions \cup {"none"}]]
  <2>1. ASSUME NEW q \in Player, NEW t \in Ticks
        PROVE  (IF q \in Listed /\ t \in s.next[q] .. (upTo[q] - 1)
                THEN IF q = p THEN "sent" ELSE "dead" ELSE s.got[q][t])
                 \in Decisions \cup {"none"}
    BY SpokeFields DEF Decisions
  <2> QED  BY <2>1
<1> HIDE DEF next, got
<1>4. /\ new \in SpokeRecords /\ SamePlace(s, new) /\ new.unreceived = s.unreceived
      /\ new.broken = s.broken
  BY <1>2, <1>3 DEF SpokeRecords, SamePlace
<1> QED  BY <1>1, <1>4

\* The special case of a packet without flags.
LEMMA NoFlagsFields ==
  ASSUME NEW s \in SpokeRecords, NEW p \in Player
  PROVE  /\ NoFlags(s, p) \in SpokeRecords /\ SamePlace(s, NoFlags(s, p))
         /\ NoFlags(s, p).unreceived = s.out.r /\ NoFlags(s, p).broken = s.broken
<1> DEFINE own == Greatest(s.unconf.w - s.confirmed, 0)
           upTo == [q \in Player |-> IF q = p THEN s.next[p] + own ELSE Greatest(s.next[q], s.out.r)]
           g == GoneOn(s, p, upTo)
           new == [g EXCEPT !.confirmed = @ + own, !.unreceived = s.out.r]
<1>1. own \in Int  BY SpokeFields DEF Greatest
<1>2. upTo \in [Player -> Int]
  <2> HIDE DEF own
  <2> QED  BY <1>1, SpokeFields DEF Greatest
<1>3. NoFlags(s, p) = new  BY DEF NoFlags
<1> HIDE DEF own, upTo
<1>4. g \in SpokeRecords /\ SamePlace(s, g) /\ g.broken = s.broken  BY <1>2, GoneOnType
<1>5. s.out.r \in Int  BY SpokeFields
<1> HIDE DEF g
<1>6. g.confirmed + own \in Int  BY <1>1, <1>4, SpokeFields
<1>7. /\ new \in SpokeRecords /\ SamePlace(g, new) /\ new.unreceived = s.out.r
      /\ new.broken = g.broken
  BY <1>4, <1>5, <1>6 DEF SpokeRecords, SamePlace
<1> HIDE DEF new
<1> QED  BY <1>3, <1>4, <1>7 DEF SamePlace

\* A player that has nobody left to wait for goes on at once.
LEMMA NoFlagsSound ==
  ASSUME NEW h, HubSound(h), NEW tp, NEW S, NEW p \in Player, NEW s,
         SpokeSound(h, tp, S, p, s), WeAreAlone(s, p)
  PROVE  SpokeSound(h, tp, S, p, NoFlags(s, p)) /\ SpokeOnward(p, s, NoFlags(s, p))
<1> DEFINE k == NoFlags(s, p)
<1>1. h.connected \in SUBSET Player /\ h.unsent \in Int
  BY HubFields DEF HubSound, BoundedHubs
<1>2. /\ s \in SpokeRecords /\ PeersSound(h, S, p, s) /\ SpokeInWindow(h, p, s)
      /\ SpokeQueues(p, s)
  BY DEF SpokeSound
<1>3. /\ k \in SpokeRecords /\ SamePlace(s, k) /\ k.unreceived = s.out.r
      /\ k.broken = s.broken
  BY <1>2, NoFlagsFields
<1> HIDE DEF k
<1>4. WeAreAlone(k, p)  BY <1>3 DEF WeAreAlone, SamePlace
<1>5. PeersSound(h, S, p, k)
  <2>1. \A q \in Player : q # p => q \notin s.peers  BY DEF WeAreAlone
  <2>2. \A q \in Player : PeerKnown(h, p, k, q)
    BY <1>2, <1>3, <2>1 DEF PeersSound, PeerKnown, SamePlace
  <2> QED  BY <1>2, <1>3, <2>2 DEF PeersSound, SamePlace
<1>6. SpokeInWindow(h, p, k)
  <2>1. p \in h.connected => k.unreceived <= h.unsent
    <3>1. p \in h.connected => h.connected = {p}  BY <1>1, <1>2, AloneIsConnected
    <3> QED  BY <1>2, <1>3, <3>1 DEF SpokeInWindow
  <2>2. FirstTick <= k.unreceived /\ k.unreceived <= LastTick + 1
    <3>1. s.out.r \in Int /\ s.out.w \in Int  BY <1>2, SpokeFields
    <3>2. FirstTick <= s.out.r /\ s.out.r <= s.out.w /\ s.out.w <= LastTick + 1
      BY <1>2 DEF SpokeInWindow
    <3> QED  BY <1>3, <3>1, <3>2, TicksAssumption
  <2> QED  BY <1>2, <1>3, <1>4, <2>1, <2>2 DEF SpokeInWindow, SamePlace
<1>7. SpokePlays(tp, p, k)  BY <1>4 DEF SpokePlays
<1>8. SpokeOnward(p, s, k)  BY <1>3, <1>4 DEF SpokeOnward, SamePlace
<1>9. SpokeQueues(p, k)
  <2>1. \A q \in Player \ {p} : k.deadTick[q] <= k.unreceived
    BY <1>3 DEF WeAreAlone, SamePlace
  <2> QED  BY <1>2, <1>3, <1>4, <2>1 DEF SpokeQueues, BrokenAlone, GoneAhead
<1> QED  BY <1>3, <1>5, <1>6, <1>7, <1>8, <1>9 DEF SpokeSound, k

\* The ticks of a packet that are new to a spoke, and those of the game.
NewOf(s, m, room) == NewTicks(s, {t \in DOMAIN m.flags : t < s.unreceived + room})
RealOf(s, m, room) == {t \in NewOf(s, m, room) : t >= RealTick}

\* The new ticks of a packet that skips none are the next ones.
LEMMA NewTicksAreNext ==
  ASSUME NEW s, s.unreceived \in Int, NEW m, DOMAIN m.flags \in SUBSET Ticks,
         \A t, u \in DOMAIN m.flags : \A v \in t .. u : v \in DOMAIN m.flags,
         ~Skips(s, m), NEW room \in Nat
  PROVE  LET n == Cardinality(NewOf(s, m, room))
             a == Greatest(s.unreceived, RealTick)
             k == Cardinality(RealOf(s, m, room))
         IN /\ n \in Nat /\ NewOf(s, m, room) = s.unreceived .. (s.unreceived + n - 1)
            /\ k \in Nat /\ RealOf(s, m, room) = a .. (s.unreceived + n - 1)
            /\ Greatest(s.unreceived + n, RealTick) = a + k
<1> DEFINE S == NewOf(s, m, room)
           n == Cardinality(S)
           e == s.unreceived + n - 1
           a == Greatest(s.unreceived, RealTick)
           k == Cardinality(RealOf(s, m, room))
<1>1. /\ FirstTick \in Int /\ LastTick \in Int /\ RealTick \in Int /\ FirstTick < RealTick
  BY TicksAssumption
<1>2. \A t \in S : /\ t \in Int /\ s.unreceived <= t /\ t <= LastTick
                   /\ t \in DOMAIN m.flags /\ t < s.unreceived + room
  BY <1>1 DEF NewOf, NewTicks, Ticks
<1>3. ASSUME NEW t \in S, NEW u \in s.unreceived .. t  PROVE u \in S
  <2>1. PICK w \in DOMAIN m.flags : ~(w > s.unreceived)  BY DEF Skips
  <2>2. w \in Int  BY <2>1, <1>1 DEF Ticks
  <2>3. u \in w .. t  BY <1>2, <2>1, <2>2
  <2>4. u \in DOMAIN m.flags  BY <1>2, <2>1, <2>3
  <2>5. u < s.unreceived + room /\ u >= s.unreceived  BY <1>2
  <2> QED  BY <2>4, <2>5 DEF NewOf, NewTicks
<1>4. n \in Nat /\ S = s.unreceived .. e
  <2>1. S \in SUBSET (s.unreceived .. LastTick)  BY <1>1, <1>2
  <2>2. \A t \in S : \A u \in s.unreceived .. t : u \in S  BY <1>3
  <2> HIDE DEF S
  <2> QED  BY <1>1, <2>1, <2>2, EarliestTicks
<1> HIDE DEF S
<1>5. RealOf(s, m, room) = {t \in S : t >= RealTick}  BY DEF RealOf, S
<1> HIDE DEF n
<1>6. RealOf(s, m, room) = a .. e
  BY ONLY <1>1, <1>4, <1>5, s.unreceived \in Int DEF Greatest, a
<1>7. a \in Int /\ e \in Int  BY <1>1, <1>4 DEF Greatest
<1>8. k = IF a > e THEN 0 ELSE e - a + 1
  <2> HIDE DEF a, e
  <2> QED  BY <1>6, <1>7, FS_Interval
<1>9. k \in Nat  BY <1>7, <1>8
<1>10. Greatest(s.unreceived + n, RealTick) = a + k
  <2> HIDE DEF k
  <2> QED  BY <1>1, <1>4, <1>8 DEF Greatest
<1> QED  BY <1>4, <1>6, <1>9, <1>10 DEF S, n

\* A packet whose flags are as many as the spoke expects: what is done with it.
Given(s, p, m, q, t) ==
  IF q = p /\ ~m.reflected THEN "sent"
  ELSE IF q \in Expected(s, p, m, t) THEN m.flags[t][q] ELSE "dead"

\* A packet with the flags that are expected, and its use.
Readable(s, p, m) ==
  /\ DOMAIN m.flags \in SUBSET Ticks /\ ~Skips(s, m)
  /\ \A t \in DOMAIN m.flags :
       /\ DOMAIN m.flags[t] = Expected(s, p, m, t)
       /\ \A q \in DOMAIN m.flags[t] : m.flags[t][q] \in Decisions
Breaks(s, p, m, real) ==
  OnlyIf(real = {} \/ m.reflected \/ s.next[p] = s.confirmed, 534)
  \cup OnlyIf(real = {} \/ m.reflected \/ s.confirmed >= s.unconf.r, 535)
  \cup OnlyIf(real = {} \/ m.reflected \/ s.confirmed + Cardinality(real) <= s.unconf.w, 536)
  \cup OnlyIf(real = {} \/ \A q \in (s.peers \cap Listed) \ (IF m.reflected THEN {} ELSE {p}) :
                              s.next[q] = Greatest(s.unreceived, RealTick), 589)
Used(s, p, m, room, k) ==
  /\ k \in SpokeRecords /\ SamePlace(s, k)
  /\ k.confirmed = s.confirmed + Cardinality(RealOf(s, m, room))
  /\ k.broken = s.broken \cup Breaks(s, p, m, RealOf(s, m, room))
  /\ k.unreceived = s.unreceived + Cardinality(NewOf(s, m, room))
  /\ \A q \in Listed : k.next[q] = s.next[q] + Cardinality(RealOf(s, m, room))
  /\ \A q \in Listed, t \in Ticks :
       s.next[q] = Greatest(s.unreceived, RealTick) =>
         k.got[q][t] = IF t \in RealOf(s, m, room) THEN Given(s, p, m, q, t)
                       ELSE s.got[q][t]

\* What spoke_received_game_data_packet_v1 does with such a packet's flags.
LEMMA FlagsHeardFields ==
  ASSUME NEW s \in SpokeRecords, NEW p \in Player, NEW m, NEW room \in Nat, room > 0,
         Readable(s, p, m), Cardinality(NewOf(s, m, room)) \in Nat,
         Cardinality(RealOf(s, m, room)) \in Nat, NEW k, k = FlagsHeard(s, p, m, room)
  PROVE  Used(s, p, m, room, k)
<1> DEFINE n == Cardinality(NewOf(s, m, room))
           c == Cardinality(RealOf(s, m, room))
<1>1. /\ ~Skips(s, m)
      /\ \A t \in DOMAIN m.flags :
           /\ DOMAIN m.flags[t] = Expected(s, p, m, t)
           /\ \A q \in DOMAIN m.flags[t] : m.flags[t][q] \in Decisions
  BY DEF Readable
<1> DEFINE read == {t \in DOMAIN m.flags : t < s.unreceived + room}
           real == RealOf(s, m, room)
           first == Greatest(s.unreceived, RealTick)
           next == [q \in Player |-> IF q \in Listed THEN s.next[q] + c ELSE s.next[q]]
           got == [q \in Player |-> [t \in Ticks |->
                     IF q \in Listed /\ t - s.next[q] + first \in real
                     THEN Given(s, p, m, q, t - s.next[q] + first) ELSE s.got[q][t]]]
           broken == s.broken \cup Breaks(s, p, m, real)
           new == [s EXCEPT !.unreceived = @ + n, !.next = next, !.got = got,
                            !.confirmed = @ + c, !.broken = broken]
<1>2. ~(\E t \in read : DOMAIN m.flags[t] # Expected(s, p, m, t))  BY <1>1
<1>3. ~(Skips(s, m) \/ room <= 0)  BY <1>1
<1>4. k = new
  <2>1. broken = s.broken
          \cup OnlyIf(real = {} \/ m.reflected \/ s.next[p] = s.confirmed, 534)
          \cup OnlyIf(real = {} \/ m.reflected \/ s.confirmed >= s.unconf.r, 535)
          \cup OnlyIf(real = {} \/ m.reflected \/ s.confirmed + c <= s.unconf.w, 536)
          \cup OnlyIf(real = {} \/ \A q \in (s.peers \cap Listed) \
                        (IF m.reflected THEN {} ELSE {p}) : s.next[q] = first, 589)
    BY DEF Breaks
  <2> HIDE DEF broken
  <2> QED  BY <1>2, <1>3, <2>1 DEF FlagsHeard, NewOf, RealOf, Given, Confirmed
<1>5. next \in [Player -> Int] /\ \A q \in Listed : next[q] = s.next[q] + c
  <2>1. c \in Nat  OBVIOUS
  <2> HIDE DEF c
  <2> QED  BY <2>1, SpokeFields DEF Listed
<1>6. \A t \in real : t \in DOMAIN m.flags  BY DEF RealOf, NewOf, NewTicks
<1>7. \A t \in real, q \in Player : Given(s, p, m, q, t) \in Decisions
  BY <1>1, <1>6 DEF Given, Decisions
<1>8. got \in [Player -> [Ticks -> Decisions \cup {"none"}]]
  <2>1. ASSUME NEW q \in Player, NEW t \in Ticks
        PROVE  (IF q \in Listed /\ t - s.next[q] + first \in real
                THEN Given(s, p, m, q, t - s.next[q] + first) ELSE s.got[q][t])
                 \in Decisions \cup {"none"}
    <3>1. s.got[q][t] \in Decisions \cup {"none"}  BY SpokeFields
    <3> HIDE DEF real, first
    <3> QED  BY <1>7, <3>1
  <2> QED  BY <2>1
<1>9. \A q \in Listed, t \in Ticks :
        s.next[q] = Greatest(s.unreceived, RealTick) =>
          got[q][t] = IF t \in real THEN Given(s, p, m, q, t) ELSE s.got[q][t]
  <2> SUFFICES ASSUME NEW q \in Listed, NEW t \in Ticks, s.next[q] = first
               PROVE  got[q][t] = IF t \in real THEN Given(s, p, m, q, t) ELSE s.got[q][t]
    OBVIOUS
  <2>1. q \in Player /\ t \in Int /\ s.next[q] \in Int
    BY SpokeFields, TicksAssumption DEF Listed, Ticks
  <2>2. t - s.next[q] + first = t  BY <2>1
  <2>3. got[q][t] = IF q \in Listed /\ t - s.next[q] + first \in real
                    THEN Given(s, p, m, q, t - s.next[q] + first) ELSE s.got[q][t]
    BY <2>1
  <2> HIDE DEF got, real, first
  <2> QED  BY <2>2, <2>3
<1>10. broken \in SUBSET Int
  <2>1. ASSUME NEW b \in BOOLEAN, NEW l \in Int  PROVE OnlyIf(b, l) \in SUBSET Int
    BY DEF OnlyIf
  <2>2. \A b : OnlyIf(b, 534) \in SUBSET Int /\ OnlyIf(b, 535) \in SUBSET Int
               /\ OnlyIf(b, 536) \in SUBSET Int /\ OnlyIf(b, 589) \in SUBSET Int
    BY DEF OnlyIf
  <2>3. s.broken \in SUBSET Int  BY SpokeFields
  <2> QED  BY <2>2, <2>3 DEF Breaks
<1>11. s.unreceived + n \in Int /\ s.confirmed + c \in Int
  <2>1. n \in Nat /\ c \in Nat  OBVIOUS
  <2> HIDE DEF n, c
  <2> QED  BY <2>1, SpokeFields
<1> HIDE DEF next, got, broken, n, c
<1>12. /\ new \in SpokeRecords /\ SamePlace(s, new)
       /\ new.unreceived = s.unreceived + n /\ new.next = next /\ new.got = got
       /\ new.confirmed = s.confirmed + c /\ new.broken = broken
  BY <1>5, <1>8, <1>10, <1>11 DEF SpokeRecords, SamePlace
<1> HIDE DEF new
<1> QED  BY <1>4, <1>5, <1>9, <1>12 DEF Used, n, c, broken

\* No assertion fails for a packet that a spoke in step reads, and one that has
\* gone ahead reads no new ticks but from a packet with its own flags.
LEMMA FlagsHeardQueues ==
  ASSUME NEW p \in Listed, NEW s \in SpokeRecords, s.online, SpokeQueues(p, s),
         NEW m, m.ack \in Int, OwnFlagsHeld(p, m), m.ack <= s.out.w \/ m.reflected,
         Readable(s, p, m), NEW room \in Nat,
         \A t, u \in DOMAIN m.flags : \A v \in t .. u : v \in DOMAIN m.flags,
         NEW k, Used(s, p, m, room, k)
  PROVE  SpokeQueues(p, k)
<1> DEFINE new == NewOf(s, m, room)
           real == RealOf(s, m, room)
           n == Cardinality(new)
           c == Cardinality(real)
           a == Greatest(s.unreceived, RealTick)
<1>1. /\ s.unreceived \in Int /\ s.confirmed \in Int /\ s.out.w \in Int /\ RealTick \in Int
      /\ s.unconf.r \in Int /\ s.unconf.w \in Int /\ \A q \in Player : s.deadTick[q] \in Int
  BY SpokeFields, TicksAssumption
<1>2. /\ DOMAIN m.flags \in SUBSET Ticks /\ ~Skips(s, m)
      /\ \A t \in DOMAIN m.flags : DOMAIN m.flags[t] = Expected(s, p, m, t)
  BY DEF Readable
<1>3. /\ n \in Nat /\ new = s.unreceived .. (s.unreceived + n - 1)
      /\ c \in Nat /\ real = a .. (s.unreceived + n - 1)
      /\ Greatest(s.unreceived + n, RealTick) = a + c
  BY ONLY <1>1, <1>2, room \in Nat, NewTicksAreNext,
          \A t, u \in DOMAIN m.flags : \A v \in t .. u : v \in DOMAIN m.flags
<1>4. /\ SamePlace(s, k) /\ k.confirmed = s.confirmed + c
      /\ k.broken = s.broken \cup Breaks(s, p, m, real)
      /\ k.unreceived = s.unreceived + n
      /\ \A q \in Listed : k.next[q] = s.next[q] + c
  BY DEF Used
<1>5. \A t \in new : t \in DOMAIN m.flags  BY DEF NewOf, NewTicks
<1>6. \A t \in real : t \in new /\ t \in Int
  <2>1. \A t \in real : t \in new  BY DEF RealOf
  <2> QED  BY <1>2, <1>5, <2>1, TicksAssumption DEF Ticks
<1>7. WeAreAlone(k, p) <=> WeAreAlone(s, p)  BY <1>4 DEF WeAreAlone, SamePlace
<1>8. k.deadTick = s.deadTick /\ k.unconf = s.unconf /\ k.out = s.out
  BY <1>4 DEF SamePlace
<1> HIDE DEF new, real, n, c
<1>9. CASE InStep(s)
  <2>1. /\ s.broken = {} /\ s.confirmed = a
        /\ s.unconf.r <= s.confirmed /\ s.unconf.w = Greatest(s.out.w, RealTick)
        /\ \A q \in Listed : s.next[q] = a
    BY <1>9 DEF InStep
  <2> HIDE DEF a
  <2>2. real = {} \/ m.reflected \/ s.confirmed + c <= s.unconf.w
    <3> SUFFICES ASSUME real # {}, ~m.reflected  PROVE a + c <= s.unconf.w
      BY <2>1
    <3>1. s.unreceived + n - 1 \in new  BY <1>1, <1>3, <1>6
    <3>2. s.unreceived + n - 1 < m.ack  BY <1>5, <3>1 DEF OwnFlagsHeld
    <3>3. s.unreceived + n <= s.out.w  BY <1>1, <1>3, <3>2
    <3>4. Greatest(s.unreceived + n, RealTick) <= Greatest(s.out.w, RealTick)
      BY <1>1, <1>3, <3>3 DEF Greatest
    <3> QED  BY <1>3, <2>1, <3>4
  <2>3. Breaks(s, p, m, real) = {}
    <3>1. s.confirmed >= s.unconf.r  BY <1>1, <2>1
    <3>2. s.next[p] = s.confirmed  BY <2>1
    <3>3. \A q \in (s.peers \cap Listed) \ (IF m.reflected THEN {} ELSE {p}) :
            s.next[q] = Greatest(s.unreceived, RealTick)
      BY <2>1 DEF a
    <3> QED  BY <2>2, <3>1, <3>2, <3>3 DEF Breaks, OnlyIf, c
  <2>4. k.confirmed = Greatest(k.unreceived, RealTick)  BY <1>3, <1>4, <2>1
  <2>5. k.unconf.r <= k.confirmed  BY <1>1, <1>3, <1>4, <1>8, <2>1
  <2>6. \A q \in Listed : k.next[q] = Greatest(k.unreceived, RealTick)
    BY <1>3, <1>4, <2>1
  <2>7. k.broken = {}  BY <1>4, <2>1, <2>3
  <2>8. InStep(k)  BY <1>8, <2>1, <2>4, <2>5, <2>6, <2>7 DEF InStep
  <2> QED  BY <2>7, <2>8 DEF SpokeQueues, BrokenAlone
<1>10. CASE GoneAhead(p, s)
  <2>1. WeAreAlone(s, p) /\ \A q \in Player \ {p} : s.deadTick[q] <= s.unreceived
    BY <1>10 DEF GoneAhead
  <2>2. ~m.reflected => real = {}
    <3> SUFFICES ASSUME ~m.reflected, NEW t \in real  PROVE FALSE  OBVIOUS
    <3>1. t \in Int /\ s.unreceived <= t /\ t \in DOMAIN m.flags
      BY <1>1, <1>3, <1>5, <1>6
    <3>2. PICK q \in Expected(s, p, m, t) : TRUE
      BY <1>2, <3>1 DEF OwnFlagsHeld
    <3>3. q \in Player \ {p} /\ (q \in s.peers \/ t < s.deadTick[q])
      BY <3>2 DEF Expected, Listed
    <3>4. q \notin s.peers  BY <2>1, <3>3 DEF WeAreAlone
    <3>5. s.deadTick[q] \in Int /\ s.deadTick[q] <= s.unreceived  BY <1>1, <2>1, <3>3
    <3> QED  BY <1>1, <3>1, <3>3, <3>4, <3>5
  <2>3. Breaks(s, p, m, real) \subseteq {589}
        /\ (Breaks(s, p, m, real) # {} => m.reflected)
    BY <2>2 DEF Breaks, OnlyIf
  <2>4. m.reflected => p # LocalPlayer  BY DEF OwnFlagsHeld
  <2>5. s.broken # {} => s.broken = {589} /\ p # LocalPlayer
    BY DEF SpokeQueues, BrokenAlone
  <2>6. BrokenAlone(p, k)
    BY <1>4, <1>7, <2>1, <2>3, <2>4, <2>5 DEF BrokenAlone
  <2>7. GoneAhead(p, k)
    <3> SUFFICES ASSUME NEW q \in Player \ {p}  PROVE k.deadTick[q] <= k.unreceived
      BY <1>7, <2>1 DEF GoneAhead
    <3>1. s.deadTick[q] \in Int /\ s.deadTick[q] <= s.unreceived  BY <1>1, <2>1
    <3> QED  BY <1>1, <1>3, <1>4, <1>8, <3>1
  <2> QED  BY <2>6, <2>7 DEF SpokeQueues
<1> QED  BY <1>9, <1>10 DEF SpokeQueues

\* A spoke that has heard of the deaths a packet tells of expects the flags
\* that are in it.
LEMMA PacketMatches ==
  ASSUME NEW h, HubSound(h), NEW tp, NEW S, MembersSound(h, S), TapeSound(h, tp),
         NEW p \in Player, NEW s, SpokeSound(h, tp, S, p, s),
         NEW m, ToSpokeSound(h, tp, p, s, m), \A q \in s.peers : q \notin DOMAIN m.deaths,
         NEW t \in DOMAIN m.flags
  PROVE  /\ t \in Ticks /\ t < h.unsent
         /\ DOMAIN m.flags[t] = Expected(s, p, m, t)
         /\ \A q \in DOMAIN m.flags[t] : m.flags[t][q] \in Decisions
         /\ \A q \in Player : Given(s, p, m, q, t) = tp[t][q]
         /\ \A q \in s.peers : q \in h.connected \/ t < h.deadTick[q]
<1>1. TickInPacket(h, tp, p, m, t)  BY DEF ToSpokeSound
<1>2. t \in Ticks /\ t < h.unsent  BY <1>1 DEF TickInPacket
<1>3. \A q \in Player : Decided(h, tp, t, q)  BY <1>2 DEF TapeSound
<1>4. tp[t] \in [Player -> Decisions]  BY <1>2 DEF TapeSound
<1>5. PeersSound(h, S, p, s)  BY DEF SpokeSound
<1>6. \A q \in Player : h.deadTick[q] \in Int
  BY HubFields DEF HubSound, BoundedHubs
<1>7. t \in Int /\ FirstTick \in Int /\ FirstTick <= t  BY <1>2, TicksAssumption DEF Ticks
<1>8. \A q \in s.peers : q \in h.connected \/ t < h.deadTick[q]
  BY DEF ToSpokeSound, PeerInPacket
<1>9. ASSUME NEW q \in Player
      PROVE  tp[t][q] # "dead" <=> q \in Listed /\ (q \in s.peers \/ t < s.deadTick[q])
  <2>1. tp[t][q] # "dead" <=> q \in h.connected \/ ~(h.deadTick[q] <= t)
    BY <1>3 DEF Decided
  <2>2. PeerKnown(h, p, s, q)  BY <1>5 DEF PeersSound
  <2>3. CASE q \in s.peers
    <3>1. q \in S /\ q \in Listed  BY <1>5, <2>3 DEF PeersSound, MembersSound
    <3> QED  BY <1>6, <1>7, <1>8, <2>1, <2>3, <3>1
  <2>4. CASE q \notin s.peers
    <3>1. q \notin h.connected /\ s.deadTick[q] = h.deadTick[q]
      BY <2>2, <2>4 DEF PeerKnown
    <3>2. q \notin Listed => h.deadTick[q] < FirstTick  BY DEF MembersSound
    <3>3. h.deadTick[q] \in Int  BY <1>6
    <3> QED  BY <1>7, <2>1, <2>4, <3>1, <3>2, <3>3
  <2> QED  BY <2>3, <2>4
<1>10. DOMAIN m.flags[t] = {q \in Player : tp[t][q] # "dead" /\ (q = p => m.reflected)}
  BY <1>1 DEF TickInPacket
<1>11. DOMAIN m.flags[t] = Expected(s, p, m, t)
  <2>1. \A q : q \in Expected(s, p, m, t) <=>
          q \in Listed /\ (q = p => m.reflected) /\ (q \in s.peers \/ t < s.deadTick[q])
    BY DEF Expected
  <2>2. \A q \in Listed : q \in Player  BY DEF Listed
  <2>3. \A q : q \in DOMAIN m.flags[t] <=> q \in Expected(s, p, m, t)
    BY <1>9, <1>10, <2>1, <2>2
  <2> QED  BY <2>3
<1>12. \A q \in DOMAIN m.flags[t] : m.flags[t][q] = tp[t][q]
  BY <1>1 DEF TickInPacket
<1>13. \A q \in DOMAIN m.flags[t] : m.flags[t][q] \in Decisions
  BY <1>4, <1>10, <1>12
<1>14. ASSUME NEW q \in Player  PROVE Given(s, p, m, q, t) = tp[t][q]
  <2>1. CASE q = p /\ ~m.reflected  BY <1>1, <2>1 DEF TickInPacket, Given
  <2>2. CASE ~(q = p /\ ~m.reflected)
    <3>1. q \in Expected(s, p, m, t) <=> tp[t][q] # "dead"
      BY <1>10, <1>11, <2>2
    <3> QED  BY <1>11, <1>12, <2>2, <3>1 DEF Given
  <2> QED  BY <2>1, <2>2
<1> QED  BY <1>2, <1>8, <1>11, <1>13, <1>14

\* The flags of a packet go to the game as they are on the tape.
LEMMA FlagsHeardSound ==
  ASSUME NEW h, HubSound(h), NEW tp, NEW S, MembersSound(h, S), TapeSound(h, tp),
         NEW p \in Player, NEW s, SpokeSound(h, tp, S, p, s),
         NEW m, ToSpokeSound(h, tp, p, s, m), \A q \in s.peers : q \notin DOMAIN m.deaths,
         s.online, m.ack <= s.out.w \/ m.reflected,
         NEW room \in Nat, NEW k, k = FlagsHeard(s, p, m, room)
  PROVE  SpokeSound(h, tp, S, p, k) /\ SpokeOnward(p, s, k)
<1>1. /\ s \in SpokeRecords /\ PeersSound(h, S, p, s) /\ SpokeInWindow(h, p, s)
      /\ SpokePlays(tp, p, s) /\ SpokeQueues(p, s)
  BY DEF SpokeSound
<1>2. s.unreceived \in Int  BY <1>1, SpokeFields
<1>3. CASE Skips(s, m) \/ room <= 0
  <2>1. k = s  BY <1>3 DEF FlagsHeard
  <2>2. SpokeOnward(p, s, s)  BY <1>2 DEF SpokeOnward
  <2> QED  BY <2>1, <2>2
<1>4. CASE ~(Skips(s, m) \/ room <= 0)
  <2> DEFINE new == NewOf(s, m, room)
             real == RealOf(s, m, room)
             n == Cardinality(new)
             c == Cardinality(real)
             a == Greatest(s.unreceived, RealTick)
  <2>1. \A t \in DOMAIN m.flags :
          /\ t \in Ticks /\ t < h.unsent
          /\ DOMAIN m.flags[t] = Expected(s, p, m, t)
          /\ \A q \in DOMAIN m.flags[t] : m.flags[t][q] \in Decisions
          /\ \A q \in Player : Given(s, p, m, q, t) = tp[t][q]
          /\ \A q \in s.peers : q \in h.connected \/ t < h.deadTick[q]
    BY PacketMatches
  <2>2. room > 0 /\ ~Skips(s, m)  BY <1>4
  <2>3. \A t, u \in DOMAIN m.flags : \A v \in t .. u : v \in DOMAIN m.flags
    BY DEF ToSpokeSound
  <2>4. DOMAIN m.flags \in SUBSET Ticks  BY <2>1
  <2>5. /\ n \in Nat /\ new = s.unreceived .. (s.unreceived + n - 1)
        /\ c \in Nat /\ real = a .. (s.unreceived + n - 1)
        /\ Greatest(s.unreceived + n, RealTick) = a + c
    BY ONLY <1>2, <2>2, <2>3, <2>4, room \in Nat, NewTicksAreNext
  <2>6. Readable(s, p, m)  BY <2>1, <2>2, <2>4 DEF Readable
  <2>7. Used(s, p, m, room, k)
    BY ONLY <1>1, <2>2, <2>5, <2>6, p \in Player, room \in Nat,
            k = FlagsHeard(s, p, m, room), FlagsHeardFields
  <2>8. /\ k \in SpokeRecords /\ SamePlace(s, k) /\ k.unreceived = s.unreceived + n
        /\ \A q \in Listed : k.next[q] = s.next[q] + c
        /\ \A q \in Listed, t \in Ticks :
             s.next[q] = a =>
               k.got[q][t] = IF t \in real THEN Given(s, p, m, q, t) ELSE s.got[q][t]
    BY <2>7 DEF Used
  <2>9. \A t \in new : t \in DOMAIN m.flags  BY DEF NewOf, NewTicks
  <2>10. \A t \in real : t \in DOMAIN m.flags /\ t \in Int
    BY <2>4, <2>9, TicksAssumption DEF RealOf, Ticks
  <2> HIDE DEF new, real, n, c
  <2>11. n = 0 \/ s.unreceived + n - 1 \in DOMAIN m.flags
    BY <1>2, <2>5, <2>9
  <2>12. /\ k.peers = s.peers /\ k.deadTick = s.deadTick /\ k.out = s.out
         /\ k.online = s.online /\ k.garbled = s.garbled
    BY <2>8 DEF SamePlace
  <2>13. WeAreAlone(k, p) <=> WeAreAlone(s, p)  BY <2>12 DEF WeAreAlone
  <2>14. /\ h.unsent \in Int /\ \A q \in Player : h.deadTick[q] \in Int /\ h.ack[q] \in Int
    BY HubFields DEF HubSound, BoundedHubs
  <2>15. FirstTick \in Int /\ RealTick \in Int /\ LastTick \in Int /\ FirstTick < RealTick
    BY TicksAssumption
  <2>16. PeersSound(h, S, p, k)
    <3>1. ASSUME NEW q \in Player  PROVE PeerKnown(h, p, k, q)
      <4>1. PeerKnown(h, p, s, q)  BY <1>1 DEF PeersSound
      <4>2. CASE n = 0  BY <1>2, <2>8, <2>12, <4>1, <4>2 DEF PeerKnown
      <4>3. CASE n # 0
        <5>1. q \in s.peers => q \in h.connected \/ s.unreceived + n - 1 < h.deadTick[q]
          BY <2>1, <2>11, <4>3
        <5>2. h.deadTick[q] \in Int  BY <2>14
        <5>3. q \in s.peers => q \in h.connected \/ s.unreceived + n <= h.deadTick[q]
          BY <1>2, <2>5, <5>1, <5>2
        <5> QED  BY <2>8, <2>12, <4>1, <5>3 DEF PeerKnown
      <4> QED  BY <4>2, <4>3
    <3> QED  BY <1>1, <2>12, <3>1 DEF PeersSound
  <2>17. SpokeInWindow(h, p, k)
    <3>1. k.unreceived <= h.unsent \/ (p \notin h.connected /\ WeAreAlone(k, p))
      <4>1. CASE n = 0  BY <1>1, <1>2, <2>8, <2>13, <4>1 DEF SpokeInWindow
      <4>2. CASE n # 0
        <5>1. s.unreceived + n - 1 < h.unsent  BY <2>1, <2>11, <4>2
        <5> QED  BY <1>2, <2>5, <2>8, <2>14, <5>1
      <4> QED  BY <4>1, <4>2
    <3>2. FirstTick <= k.unreceived
      <4>1. FirstTick <= s.unreceived  BY <1>1 DEF SpokeInWindow
      <4> QED  BY <1>2, <2>5, <2>8, <2>15, <4>1
    <3>3. k.unreceived <= LastTick + 1
      <4>1. CASE n = 0  BY <1>1, <1>2, <2>8, <4>1 DEF SpokeInWindow
      <4>2. CASE n # 0
        <5>1. s.unreceived + n - 1 \in Ticks  BY <2>1, <2>11, <4>2
        <5> QED  BY <1>2, <2>5, <2>8, <2>15, <5>1 DEF Ticks
      <4> QED  BY <4>1, <4>2
    <3>4. p \in h.connected => WeAreAlone(k, p) \/ h.ack[p] <= k.unreceived
      <4>1. p \in h.connected => WeAreAlone(s, p) \/ h.ack[p] <= s.unreceived
        BY <1>1 DEF SpokeInWindow
      <4> QED  BY <1>2, <2>5, <2>8, <2>13, <2>14, <4>1
    <3> QED  BY <1>1, <2>12, <3>1, <3>2, <3>3, <3>4 DEF SpokeInWindow
  <2>18. SpokePlays(tp, p, k)
    <3> SUFFICES ASSUME k.online, ~WeAreAlone(k, p), NEW q \in Listed
                 PROVE  /\ k.next[q] = Greatest(k.unreceived, RealTick)
                        /\ \A t \in RealTick .. (k.unreceived - 1) : k.got[q][t] = tp[t][q]
      BY DEF SpokePlays
    <3>1. /\ s.next[q] = a
          /\ \A t \in RealTick .. (s.unreceived - 1) : s.got[q][t] = tp[t][q]
      BY <1>1, <2>12, <2>13 DEF SpokePlays
    <3>2. k.next[q] = Greatest(k.unreceived, RealTick)
      BY <2>5, <2>8, <3>1
    <3>3. ASSUME NEW t \in RealTick .. (k.unreceived - 1)  PROVE k.got[q][t] = tp[t][q]
      <4>1. k.unreceived <= LastTick + 1 /\ k.unreceived \in Int
        BY <2>8, <2>17, SpokeFields DEF SpokeInWindow
      <4>2. t \in Ticks /\ t \in Int /\ q \in Player
        BY <2>15, <4>1 DEF Ticks, Listed
      <4>3. k.got[q][t] = IF t \in real THEN Given(s, p, m, q, t) ELSE s.got[q][t]
        BY <2>8, <3>1, <4>2
      <4>4. CASE t \in real
        <5>1. Given(s, p, m, q, t) = tp[t][q]  BY <2>1, <2>10, <4>2, <4>4
        <5> QED  BY <4>3, <4>4, <5>1
      <4>5. CASE t \notin real
        <5>1. t < s.unreceived + n /\ RealTick <= t  BY <2>8, <2>15, <4>1, <4>2
        <5>2. ~(a <= t)  BY <1>2, <2>5, <2>15, <4>2, <4>5, <5>1 DEF Greatest
        <5>3. t \in RealTick .. (s.unreceived - 1)
          BY <1>2, <2>15, <4>2, <5>1, <5>2 DEF Greatest
        <5> QED  BY <3>1, <4>3, <4>5, <5>3
      <4> QED  BY <4>4, <4>5
    <3> QED  BY <3>2, <3>3
  <2>19. SpokeOnward(p, s, k)
    <3>1. s.unreceived <= k.unreceived  BY <1>2, <2>5, <2>8
    <3> QED  BY <2>12, <2>13, <3>1 DEF SpokeOnward
  <2>20. SpokeQueues(p, k)
    <3>1. p \in Listed  BY <1>1 DEF PeersSound, MembersSound
    <3>2. m.ack \in Int /\ OwnFlagsHeld(p, m)  BY DEF ToSpokeSound
    <3> QED
      BY ONLY <1>1, <2>3, <2>6, <2>7, <3>1, <3>2, s.online, room \in Nat,
              m.ack <= s.out.w \/ m.reflected, FlagsHeardQueues
  <2> QED  BY <2>8, <2>16, <2>17, <2>18, <2>19, <2>20 DEF SpokeSound
<1> QED  BY <1>3, <1>4

\* What has been heard does not change what packets in flight rely on.
LEMMA SpokeOnwardTransitive ==
  ASSUME NEW p, NEW s, NEW k, NEW j, s.unreceived \in Int, k.unreceived \in Int,
         j.unreceived \in Int, SpokeOnward(p, s, k), SpokeOnward(p, k, j)
  PROVE  SpokeOnward(p, s, j)
BY DEF SpokeOnward

\* A packet in flight stays sound when its addressee goes on.
LEMMA ToSpokeOnward ==
  ASSUME NEW h, NEW tp, NEW p, NEW s, NEW k, SpokeOnward(p, s, k), NEW m,
         ToSpokeSound(h, tp, p, s, m)
  PROVE  ToSpokeSound(h, tp, p, k, m)
BY DEF ToSpokeSound, SpokeOnward

\* So does one that its sender has sent.
LEMMA ToHubOnward ==
  ASSUME NEW h, NEW p, NEW s, NEW k, s.unreceived \in Int, k.unreceived \in Int,
         SpokeOnward(p, s, k), NEW m, ToHubSound(h, p, s, m)
  PROVE  ToHubSound(h, p, k, m)
BY DEF ToHubSound, SpokeOnward

\* spoke_received_network_packet.
LEMMA PacketHeardSound ==
  ASSUME NEW h, HubSound(h), NEW tp, NEW S, MembersSound(h, S), TapeSound(h, tp),
         NEW p \in Player, NEW s, SpokeSound(h, tp, S, p, s),
         NEW m, ToSpokeSound(h, tp, p, s, m), NEW room \in Nat,
         NEW k, k = PacketHeard(s, p, m, room)
  PROVE  SpokeSound(h, tp, S, p, k) /\ SpokeOnward(p, s, k)
<1> DEFINE j == HubHeard(s, m)
<1>1. s \in SpokeRecords /\ s.unreceived \in Int  BY SpokeFields DEF SpokeSound
<1>2. CASE ~s.online
  <2>1. k = s  BY <1>2 DEF PacketHeard
  <2> QED  BY <1>1, <2>1 DEF SpokeOnward
<1>3. CASE s.online /\ m.ack > s.out.w /\ ~m.reflected
  <2> DEFINE new == [s EXCEPT !.heard = TRUE]
  <2>1. k = new  BY <1>3 DEF PacketHeard
  <2>2. /\ new \in SpokeRecords /\ SamePlace(s, new) /\ new.unreceived = s.unreceived
        /\ new.next = s.next /\ new.got = s.got
        /\ new.confirmed = s.confirmed /\ new.broken = s.broken
    BY <1>1 DEF SpokeRecords, SamePlace
  <2> HIDE DEF new
  <2>3. WeAreAlone(new, p) <=> WeAreAlone(s, p)  BY <2>2 DEF WeAreAlone, SamePlace
  <2>4. PeersSound(h, S, p, new)
    BY <2>2 DEF SpokeSound, PeersSound, PeerKnown, SamePlace
  <2>5. SpokeInWindow(h, p, new)
    BY <2>2, <2>3 DEF SpokeSound, SpokeInWindow, SamePlace
  <2>6. SpokePlays(tp, p, new)
    BY <2>2, <2>3 DEF SpokeSound, SpokePlays, SamePlace
  <2>7. SpokeOnward(p, s, new)
    BY <1>1, <2>2, <2>3 DEF SpokeOnward, SamePlace
  <2>8. SpokeQueues(p, new)
    BY <2>2, <2>3, SpokeQueuesKept DEF SpokeSound, SamePlace
  <2> QED  BY <2>1, <2>2, <2>4, <2>5, <2>6, <2>7, <2>8 DEF SpokeSound
<1>4. CASE s.online /\ ~(m.ack > s.out.w /\ ~m.reflected)
  <2> HIDE DEF j
  <2>1. j = HubHeard(s, m)  BY DEF j
  <2>2. /\ SpokeSound(h, tp, S, p, j) /\ SpokeOnward(p, s, j)
        /\ j.unreceived = s.unreceived /\ j.out.w = s.out.w /\ j.online = s.online
        /\ j.peers = s.peers \ DOMAIN m.deaths
    BY ONLY <2>1, HubSound(h), p \in Player, SpokeSound(h, tp, S, p, s),
            ToSpokeSound(h, tp, p, s, m), HubHeardSound
  <2>3. ToSpokeSound(h, tp, p, j, m)  BY <2>2, ToSpokeOnward
  <2>4. k = IF DOMAIN m.flags = {} THEN Alone(j, p) ELSE FlagsHeard(j, p, m, room)
    BY <1>4, <2>1 DEF PacketHeard
  <2>5. SpokeSound(h, tp, S, p, k) /\ SpokeOnward(p, j, k)
    <3>1. CASE DOMAIN m.flags # {}
      <4>1. j.online /\ (m.ack <= j.out.w \/ m.reflected)
        <5>1. m.ack \in Int /\ s.out.w \in Int  BY <1>1, SpokeFields DEF ToSpokeSound
        <5> QED  BY <1>4, <2>2, <5>1
      <4> QED  BY <2>2, <2>3, <2>4, <3>1, <4>1, FlagsHeardSound
    <3>2. CASE DOMAIN m.flags = {} /\ WeAreAlone(j, p)
      <4>1. k = NoFlags(j, p)  BY <2>4, <3>2 DEF Alone
      <4> QED  BY <2>2, <3>2, <4>1, NoFlagsSound
    <3>3. CASE DOMAIN m.flags = {} /\ ~WeAreAlone(j, p)
      <4>1. k = j  BY <2>4, <3>3 DEF Alone
      <4>2. SpokeOnward(p, j, j)  BY <1>1, <2>2 DEF SpokeOnward
      <4> QED  BY <2>2, <4>1, <4>2
    <3> QED  BY <3>1, <3>2, <3>3
  <2>6. j.unreceived \in Int /\ k.unreceived \in Int
    BY <2>2, <2>5, SpokeFields DEF SpokeSound
  <2> QED  BY <1>1, <2>2, <2>5, <2>6, SpokeOnwardTransitive
<1> QED  BY <1>2, <1>3, <1>4

----------------------------------------------------------------------------
(* A spoke's own steps.                                                     *)

\* spoke_tick always finds out how many flags there is room for.
Fits(s, n) ==
  /\ Size(s.out) + n <= OutgoingSize
  /\ s.out.w + n > RealTick => s.out.w + n - s.unconf.r <= OutgoingSize
  /\ s.out.w + n <= LastTick + 1

\* So the flags that are sampled never go beyond the last tick.
LEMMA SampledFits ==
  ASSUME NEW s \in SpokeRecords, s.out.w <= LastTick + 1
  PROVE  Sampled(s) \in Nat /\ s.out.w + Sampled(s) <= LastTick + 1
<1> DEFINE W == Wanted(s)
           Room(n) == (n = 0 \/ Fits(s, n)) /\ \A m \in (n + 1) .. W : ~Fits(s, m)
           S == {k \in Nat : k < W /\ Fits(s, W - k)}
<1>1. W \in Nat  BY SpokeFields DEF Wanted
<1>2. Sampled(s) = CHOOSE n \in 0 .. W : Room(n)
  BY DEF Sampled, Fits
<1> HIDE DEF W
<1>3. \E n \in 0 .. W : Room(n)
  <2>1. CASE S = {}
    <3>1. ASSUME NEW m \in (0 + 1) .. W  PROVE ~Fits(s, m)
      <4>1. W - m \in Nat /\ W - m < W /\ W - (W - m) = m  BY <1>1
      <4> QED  BY <2>1, <4>1
    <3>2. Room(0)  BY <3>1
    <3> QED  BY <1>1, <3>2
  <2>2. CASE S # {}
    <3>1. PICK k \in S : \A j \in S : k <= j
      <4>1. S \in SUBSET Nat  OBVIOUS
      <4> HIDE DEF S
      <4> QED  BY <2>2, <4>1, LeastNumber
    <3>2. W - k \in 0 .. W /\ Fits(s, W - k)  BY <1>1, <3>1
    <3>3. ASSUME NEW m \in ((W - k) + 1) .. W  PROVE ~Fits(s, m)
      <4>1. k \in Nat  BY <3>1
      <4>2. W - m \in Nat /\ W - m < k /\ W - (W - m) = m /\ (m > 0 => W - m < W)
        BY <1>1, <3>2, <4>1
      <4>3. W - m \notin S  BY <3>1, <4>1, <4>2
      <4>4. m > 0  BY <1>1, <3>2, <4>1
      <4> QED  BY <4>2, <4>3, <4>4
    <3>4. Room(W - k)  BY <3>2, <3>3
    <3> QED  BY <3>2, <3>4
  <2> QED  BY <2>1, <2>2
<1>4. Sampled(s) \in 0 .. W /\ Room(Sampled(s))
  <2> HIDE DEF Room
  <2> QED  BY <1>2, <1>3
<1>5. Sampled(s) = 0 \/ s.out.w + Sampled(s) <= LastTick + 1
  BY <1>4 DEF Fits
<1>6. s.out.w \in Int  BY SpokeFields
<1> QED  BY <1>1, <1>4, <1>5, <1>6

\* What a spoke does by itself leaves alone what it knows of the game; it may
\* only add flags, and go on by itself when it has lost the hub.
ByItself(s, k) ==
  /\ k \in SpokeRecords
  /\ k.peers = s.peers /\ k.deadTick = s.deadTick /\ k.garbled = s.garbled
  /\ k.unreceived = s.unreceived
  /\ k.out.r = s.out.r /\ s.out.w <= k.out.w /\ k.out.w <= LastTick + 1
  /\ k.online => s.online /\ k.next = s.next /\ k.got = s.got
  /\ k.broken = s.broken
  /\ k.online => /\ k.confirmed = s.confirmed
                 /\ s.unconf.r <= s.confirmed => k.unconf.r <= s.confirmed
                 /\ s.unconf.w = Greatest(s.out.w, RealTick)
                      => k.unconf.w = Greatest(k.out.w, RealTick)

\* Such a spoke is as sound as it was.
LEMMA ByItselfSound ==
  ASSUME NEW h, NEW tp, NEW S, NEW p, NEW s, NEW k,
         SpokeSound(h, tp, S, p, s), ByItself(s, k)
  PROVE  SpokeSound(h, tp, S, p, k) /\ SpokeOnward(p, s, k)
<1>1. /\ s \in SpokeRecords /\ PeersSound(h, S, p, s) /\ SpokeInWindow(h, p, s)
      /\ SpokePlays(tp, p, s) /\ SpokeQueues(p, s)
  BY DEF SpokeSound
<1>2. /\ k \in SpokeRecords
      /\ k.peers = s.peers /\ k.deadTick = s.deadTick /\ k.garbled = s.garbled
      /\ k.unreceived = s.unreceived
      /\ k.out.r = s.out.r /\ s.out.w <= k.out.w /\ k.out.w <= LastTick + 1
      /\ k.online => s.online /\ k.next = s.next /\ k.got = s.got
  BY DEF ByItself
<1>3. WeAreAlone(k, p) <=> WeAreAlone(s, p)  BY <1>2 DEF WeAreAlone
<1>4. PeersSound(h, S, p, k)  BY <1>1, <1>2 DEF PeersSound, PeerKnown
<1>5. /\ s.out.r \in Int /\ s.out.w \in Int /\ k.out.w \in Int /\ s.unreceived \in Int
  BY <1>1, <1>2, SpokeFields
<1>6. k.out.r <= k.out.w
  <2>1. s.out.r <= s.out.w  BY <1>1 DEF SpokeInWindow
  <2> QED  BY <1>2, <1>5, <2>1
<1>7. SpokeInWindow(h, p, k)
  BY <1>1, <1>2, <1>3, <1>6 DEF SpokeInWindow
<1>8. SpokePlays(tp, p, k)  BY <1>1, <1>2, <1>3 DEF SpokePlays
<1>9. SpokeOnward(p, s, k)  BY <1>2, <1>3, <1>5 DEF SpokeOnward
<1>10. SpokeQueues(p, k)
  <2>1. BrokenAlone(p, k)
    <3>1. k.broken = s.broken  BY DEF ByItself
    <3> QED  BY <1>1, <1>3, <3>1 DEF SpokeQueues, BrokenAlone
  <2>2. k.online /\ InStep(s) => InStep(k)  BY <1>2 DEF ByItself, InStep
  <2>3. GoneAhead(p, s) => GoneAhead(p, k)  BY <1>2, <1>3 DEF GoneAhead
  <2> QED  BY <1>1, <1>2, <2>1, <2>2, <2>3 DEF SpokeQueues
<1> QED  BY <1>2, <1>4, <1>7, <1>8, <1>9, <1>10 DEF SpokeSound

\* spoke_tick of a spoke that has not lost the hub.
LEMMA OnlineTickAlone ==
  ASSUME NEW s \in SpokeRecords, s.out.w <= LastTick + 1
  PROVE  /\ ByItself(s, OnlineTick(s))
         /\ ByItself(s, [OnlineTick(s) EXCEPT !.sinceSent = 0])
         /\ SpokePacket([OnlineTick(s) EXCEPT !.sinceSent = 0]) = SpokePacket(OnlineTick(s))
<1> DEFINE n == Sampled(s)
           silence == Least(s.silence + 1, MaxHubSilence)
           sinceSent == Least(s.sinceSent + 1, SpokeRecovery)
           out == Grow(s.out, n)
           unconf == Grow(s.unconf, Greatest(0, Least(n, s.out.w + n - RealTick)))
           outstanding == Owed(s, n)
           k == [s EXCEPT !.silence = silence, !.sinceSent = sinceSent, !.out = out,
                          !.unconf = unconf, !.outstanding = outstanding]
           j == [k EXCEPT !.sinceSent = 0]
<1>1. n \in Nat /\ s.out.w + n <= LastTick + 1  BY SampledFits
<1>2. OnlineTick(s) = k  BY DEF OnlineTick, SpokeRecords
<1> HIDE DEF n
<1>3. s.out.r \in Int /\ s.out.w \in Int /\ s.unconf.r \in Int /\ s.unconf.w \in Int
  BY SpokeFields
<1>4. silence \in Int /\ sinceSent \in Int
  BY SpokeAssumption DEF SpokeRecords, Least
<1>5. out \in Queue /\ out.r = s.out.r /\ out.w = s.out.w + n
  BY <1>1, <1>3 DEF Grow, Queue
<1>6. /\ unconf \in Queue /\ unconf.r = s.unconf.r
      /\ s.unconf.w = Greatest(s.out.w, RealTick) => unconf.w = Greatest(s.out.w + n, RealTick)
  <2> DEFINE more == Greatest(0, Least(n, s.out.w + n - RealTick))
  <2>1. more \in Int /\ Greatest(s.out.w, RealTick) + more = Greatest(s.out.w + n, RealTick)
    BY <1>1, <1>3, TicksAssumption DEF Greatest, Least
  <2> HIDE DEF more
  <2>2. unconf = [r |-> s.unconf.r, w |-> s.unconf.w + more]  BY DEF Grow, more
  <2> QED  BY <1>3, <2>1, <2>2 DEF Queue
<1>7. outstanding \in Int
  BY <1>1, SpokeFields DEF Owed, Wanted
<1> HIDE DEF silence, sinceSent, out, unconf, outstanding
<1>8. /\ k \in SpokeRecords /\ k.out = out
      /\ k.peers = s.peers /\ k.deadTick = s.deadTick /\ k.garbled = s.garbled
      /\ k.unreceived = s.unreceived /\ k.online = s.online /\ k.next = s.next /\ k.got = s.got
      /\ k.broken = s.broken /\ k.confirmed = s.confirmed /\ k.unconf = unconf
  <2>1. k \in SpokeRecords  BY <1>4, <1>5, <1>6, <1>7, ZenonT(60) DEF SpokeRecords
  <2>2. /\ k.out = out /\ k.peers = s.peers /\ k.deadTick = s.deadTick
        /\ k.garbled = s.garbled /\ k.unreceived = s.unreceived
        /\ k.online = s.online /\ k.next = s.next /\ k.got = s.got
        /\ k.broken = s.broken /\ k.confirmed = s.confirmed /\ k.unconf = unconf
    BY SMTT(30) DEF SpokeRecords
  <2> QED  BY <2>1, <2>2
<1> HIDE DEF k
<1>9. /\ j \in SpokeRecords /\ j.out = k.out
      /\ j.peers = k.peers /\ j.deadTick = k.deadTick /\ j.garbled = k.garbled
      /\ j.unreceived = k.unreceived /\ j.online = k.online /\ j.next = k.next /\ j.got = k.got
      /\ j.broken = k.broken /\ j.confirmed = k.confirmed /\ j.unconf = k.unconf
  BY <1>8, SMTT(30) DEF SpokeRecords
<1> HIDE DEF j
<1>10. s.out.w <= out.w /\ out.w <= LastTick + 1  BY <1>1, <1>3, <1>5
<1>11. ByItself(s, k)  BY <1>5, <1>6, <1>8, <1>10 DEF ByItself
<1>12. ByItself(s, j)  BY <1>5, <1>6, <1>8, <1>9, <1>10 DEF ByItself
<1>13. SpokePacket(j) = SpokePacket(k)  BY <1>9 DEF SpokePacket
<1> QED  BY <1>2, <1>11, <1>12, <1>13 DEF j

\* spoke_tick of a spoke that has.
LEMMA OfflineTickAlone ==
  ASSUME NEW s \in SpokeRecords, s.out.w <= LastTick + 1, ~s.online,
         NEW p \in Player, NEW room \in Nat
  PROVE  ByItself(s, OfflineTick(s, p, room))
<1> DEFINE fresh == Least(Wanted(s), Least(room, LastTick + 1 - s.next[p]))
           own == Greatest(s.unconf.w - s.confirmed, 0)
           upTo == [q \in Player |-> IF q = p THEN s.next[p] + fresh + own
                                     ELSE Greatest(s.next[q], s.next[p] + fresh)]
           g == GoneOn(s, p, upTo)
           new == [g EXCEPT !.outstanding = Owed(s, fresh), !.confirmed = @ + own]
<1>1. \A q \in Player : s.next[q] \in Int  BY SpokeFields
<1>2. fresh \in Int /\ own \in Int
  BY <1>1, SpokeFields, TicksAssumption DEF Least, Greatest, Wanted
<1>3. OfflineTick(s, p, room) = new  BY DEF OfflineTick
<1> HIDE DEF fresh, own
<1>4. upTo \in [Player -> Int]  BY <1>1, <1>2 DEF Greatest
<1>5. Owed(s, fresh) \in Int  BY <1>2, SpokeFields DEF Owed, Wanted
<1> HIDE DEF upTo
<1>6. /\ g \in SpokeRecords /\ SamePlace(s, g) /\ g.unreceived = s.unreceived
      /\ g.broken = s.broken
  BY <1>4, GoneOnType
<1> HIDE DEF g
<1>7. g.confirmed + own \in Int  BY <1>2, <1>6, SpokeFields
<1>8. /\ new \in SpokeRecords /\ SamePlace(g, new) /\ new.unreceived = g.unreceived
      /\ new.broken = g.broken
  BY <1>5, <1>6, <1>7 DEF SpokeRecords, SamePlace
<1> HIDE DEF new
<1>9. s.out.w <= s.out.w  BY SpokeFields
<1> QED  BY <1>3, <1>6, <1>8, <1>9 DEF ByItself, SamePlace

\* A spoke gives up on the hub; flags are confirmed.
LEMMA GivesUpAlone ==
  ASSUME NEW s \in SpokeRecords, s.out.w <= LastTick + 1
  PROVE  ByItself(s, [s EXCEPT !.online = FALSE])
<1> DEFINE k == [s EXCEPT !.online = FALSE]
<1>1. /\ k \in SpokeRecords /\ k.out = s.out /\ k.online = FALSE
      /\ k.peers = s.peers /\ k.deadTick = s.deadTick /\ k.garbled = s.garbled
      /\ k.unreceived = s.unreceived /\ k.broken = s.broken
  BY DEF SpokeRecords
<1>2. s.out.w <= s.out.w  BY SpokeFields
<1> QED  BY <1>1, <1>2 DEF ByItself

\* UpdateUnconfirmedActionFlags.
LEMMA ConfirmsAlone ==
  ASSUME NEW s \in SpokeRecords, s.out.w <= LastTick + 1
  PROVE  ByItself(s, [s EXCEPT !.unconf = Drop(@, NewlyConfirmed(s))])
<1> DEFINE unconf == Drop(s.unconf, NewlyConfirmed(s))
           k == [s EXCEPT !.unconf = unconf]
<1>1. /\ unconf \in Queue /\ unconf.w = s.unconf.w
      /\ s.unconf.r <= s.confirmed => unconf.r <= s.confirmed
  <2> DEFINE n == NewlyConfirmed(s)
  <2>1. s.unconf.r \in Int /\ s.unconf.w \in Int /\ s.confirmed \in Int  BY SpokeFields
  <2>2. n \in Int /\ (s.unconf.r <= s.confirmed => s.unconf.r + n <= s.confirmed)
    BY <2>1 DEF NewlyConfirmed, Greatest, Least
  <2> HIDE DEF n
  <2>3. unconf = [r |-> s.unconf.r + n, w |-> s.unconf.w]  BY DEF Drop, n
  <2> QED  BY <2>1, <2>2, <2>3 DEF Queue
<1>2. [s EXCEPT !.unconf = Drop(@, NewlyConfirmed(s))] = k  OBVIOUS
<1> HIDE DEF unconf
<1>3. /\ k \in SpokeRecords /\ k.out = s.out /\ k.online = s.online
      /\ k.peers = s.peers /\ k.deadTick = s.deadTick /\ k.garbled = s.garbled
      /\ k.unreceived = s.unreceived /\ k.next = s.next /\ k.got = s.got
      /\ k.unconf = unconf /\ k.confirmed = s.confirmed /\ k.broken = s.broken
  BY <1>1 DEF SpokeRecords
<1>4. s.out.w <= s.out.w  BY SpokeFields
<1> HIDE DEF k
<1> QED  BY <1>1, <1>2, <1>3, <1>4 DEF ByItself

\* The packet that a spoke sends.
LEMMA SpokePacketSound ==
  ASSUME NEW h, NEW tp, NEW S, NEW p, NEW s, SpokeSound(h, tp, S, p, s)
  PROVE  ToHubSound(h, p, s, SpokePacket(s))
<1> DEFINE m == SpokePacket(s)
<1>1. m.ack = s.unreceived /\ m.from = s.out.r /\ m.to = s.out.w  BY DEF SpokePacket
<1>2. s.unreceived \in Int /\ s.out.r \in Int /\ s.out.w \in Int
  BY SpokeFields DEF SpokeSound
<1>3. SpokeInWindow(h, p, s)  BY DEF SpokeSound
<1> HIDE DEF m
<1> QED  BY <1>1, <1>2, <1>3 DEF SpokeInWindow, ToHubSound, m

----------------------------------------------------------------------------
(* A step of the hub.                                                       *)

\* The tape after the hub has gone from h to k.
TapeAfter(h, k, tp) ==
  [t \in Ticks |->
     IF t \in h.unsent .. (k.unsent - 1)
     THEN [q \in Player |-> IF q \in k.connected \/ t < k.deadTick[q]
                            THEN IF t \in k.made[q] THEN "made" ELSE "sent"
                            ELSE "dead"]
     ELSE tp[t]]

\* The players of spokes sp have received what they acknowledge in a step.
AcksReceived(h, k, sp) ==
  \A q \in k.connected :
    k.ack[q] = h.ack[q] \/ WeAreAlone(sp[q], q) \/ k.ack[q] <= sp[q].unreceived

\* What the game relies on in a step of the hub.
HubStep(h, k) ==
  /\ HubSound(h) /\ HubSound(k) /\ Onward(h, k) /\ h.unsent <= k.unsent
  /\ k.connected = h.connected \/ k.unsent = k.incomplete

\* The types of a sound hub's fields.
LEMMA HubSoundFields ==
  ASSUME NEW h, HubSound(h)
  PROVE  /\ h \in HubRecords /\ h.connected \in SUBSET Player
         /\ h.unsent \in Int /\ h.incomplete \in Int
         /\ h.disp.r \in Int /\ h.disp.w \in Int
         /\ h.unsent <= h.incomplete /\ h.incomplete <= h.disp.w /\ h.disp.w <= LastTick + 1
         /\ \A q \in Player : /\ h.deadTick[q] \in Int /\ h.ack[q] \in Int
                              /\ h.flags[q].r \in Int /\ h.flags[q].w \in Int
BY HubFields DEF HubSound, BoundedHubs

\* The only player left has flags for just the complete ticks.
LEMMA OnlyPlayersFlags ==
  ASSUME NEW h, HubSound(h), NEW p \in Player, h.connected = {p}
  PROVE  h.flags[p].w = h.incomplete
<1>1. InOrder(h)  BY DEF HubSound, Books
<1>2. /\ h.incomplete \in Int /\ h.disp.w \in Int /\ h.flags[p].w \in Int
      /\ h.incomplete <= h.disp.w
  BY HubSoundFields
<1>3. h.incomplete <= h.flags[p].w /\ h.flags[p].w <= h.disp.w
  BY <1>1 DEF InOrder, FlagsInWindow, QueueInWindow
<1>4. CASE h.incomplete = h.disp.w  BY <1>2, <1>3, <1>4
<1>5. CASE h.incomplete # h.disp.w
  <2>1. h.incomplete \in h.incomplete .. (h.disp.w - 1)  BY <1>2, <1>5
  <2>2. {q \in h.connected : h.flags[q].w <= h.incomplete} # {}
    BY <1>1, <2>1 DEF InOrder, FlagsAwaited
  <2>3. h.flags[p].w <= h.incomplete  BY <2>2
  <2> QED  BY <1>2, <1>3, <2>3
<1> QED  BY <1>4, <1>5

\* Ticks only leave the hub's queues.
LEMMA WindowOnward ==
  ASSUME NEW h, NEW k, HubStep(h, k), k.connected # {}
  PROVE  h.disp.r <= k.disp.r
<1>1. PICK p \in k.connected : TRUE  OBVIOUS
<1>2. HubSound(h) /\ HubSound(k) /\ Onward(h, k)  BY DEF HubStep
<1>3. p \in Player  BY <1>1, <1>2, HubSoundFields
<1>4. p \in h.connected  BY <1>1, <1>2, <1>3 DEF Onward, PlayerKept
<1>5. h.flags[p].r <= k.flags[p].r
  BY <1>2, <1>3 DEF HubSound, Onward, FlagsKept
<1>6. ASSUME NEW j, HubSound(j), p \in j.connected  PROVE j.flags[p].r = j.disp.r
  <2>1. InOrder(j)  BY <1>6 DEF HubSound, Books
  <2>2. /\ j.flags[p].r = Least(j.flags[p].w, j.disp.r) /\ j.incomplete <= j.flags[p].w
        /\ j.disp.r <= j.unsent /\ j.unsent <= j.incomplete
    BY <1>3, <1>6, <2>1 DEF InOrder, FlagsInWindow, QueueInWindow, WindowsOrdered
  <2>3. /\ j.disp.r \in Int /\ j.unsent \in Int /\ j.incomplete \in Int
        /\ j.flags[p].w \in Int
    BY <1>3, <1>6, HubSoundFields
  <2> QED  BY <2>2, <2>3 DEF Least
<1> QED  BY <1>1, <1>2, <1>4, <1>5, <1>6

\* Who dies has flags for what was sent before.
LEMMA DeathAfterSent ==
  ASSUME NEW h, NEW k, HubStep(h, k), NEW q \in Player
  PROVE  /\ q \in k.connected => q \in h.connected /\ k.deadTick[q] = h.deadTick[q]
         /\ q \notin h.connected => q \notin k.connected /\ k.deadTick[q] = h.deadTick[q]
         /\ q \in h.connected => q \in k.connected \/ h.unsent <= k.deadTick[q]
<1>1. PlayerKept(h, k, q)  BY DEF HubStep, Onward
<1>2. h.unsent \in Int /\ h.incomplete \in Int /\ h.unsent <= h.incomplete
      /\ k.deadTick[q] \in Int
  BY HubSoundFields DEF HubStep
<1> QED  BY <1>1, <1>2 DEF PlayerKept

\* What was on the tape stays there.
LEMMA TapeKept ==
  ASSUME NEW h, NEW k, NEW tp, HubSound(h), NEW t \in Ticks, t < h.unsent
  PROVE  TapeAfter(h, k, tp)[t] = tp[t]
<1>1. t \in Int /\ h.unsent \in Int  BY HubSoundFields, TicksAssumption DEF Ticks
<1>2. t \notin h.unsent .. (k.unsent - 1)  BY <1>1
<1> QED  BY <1>2 DEF TapeAfter

\* The hub decides on the ticks it sends, once and for all.
LEMMA TapeStep ==
  ASSUME NEW h, NEW k, HubStep(h, k), NEW tp, TapeSound(h, tp)
  PROVE  TapeSound(k, TapeAfter(h, k, tp))
<1> DEFINE new == TapeAfter(h, k, tp)
<1>1. HubSound(h) /\ HubSound(k) /\ Onward(h, k) /\ h.unsent <= k.unsent  BY DEF HubStep
<1>2. /\ h.unsent \in Int /\ k.unsent \in Int /\ h.incomplete \in Int
      /\ h.disp.r \in Int /\ k.disp.r \in Int /\ h.unsent <= h.incomplete
      /\ h.connected \in SUBSET Player /\ k.connected \in SUBSET Player
  BY <1>1, HubSoundFields
<1>3. \A q \in Player : /\ h.deadTick[q] \in Int /\ k.deadTick[q] \in Int
                        /\ h.flags[q].w \in Int /\ k.flags[q].r \in Int /\ k.flags[q].w \in Int
  BY <1>1, HubSoundFields
<1>4. new \in [Ticks -> [Player -> Decisions]]
  <2>1. ASSUME NEW t \in Ticks
        PROVE  (IF t \in h.unsent .. (k.unsent - 1)
                THEN [q \in Player |-> IF q \in k.connected \/ t < k.deadTick[q]
                            THEN IF t \in k.made[q] THEN "made" ELSE "sent"
                            ELSE "dead"]
                ELSE tp[t]) \in [Player -> Decisions]
    BY DEF TapeSound, Decisions
  <2> QED  BY <2>1 DEF TapeAfter
<1>5. ASSUME NEW t \in Ticks, NEW q \in Player, t < k.unsent, h.unsent <= t
      PROVE  Decided(k, new, t, q)
  <2>1. t \in Int  BY TicksAssumption DEF Ticks
  <2>2. t \in h.unsent .. (k.unsent - 1)  BY <1>2, <1>5, <2>1
  <2>3. new[t][q] = IF q \in k.connected \/ t < k.deadTick[q]
                    THEN IF t \in k.made[q] THEN "made" ELSE "sent" ELSE "dead"
    BY <2>2 DEF TapeAfter
  <2>4. t < k.deadTick[q] <=> ~(k.deadTick[q] <= t)  BY <1>3, <2>1
  <2> HIDE DEF new
  <2> QED  BY <2>3, <2>4 DEF Decided
<1>6. ASSUME NEW t \in Ticks, NEW q \in Player, t < h.unsent
      PROVE  Decided(k, new, t, q)
  <2>1. t \in Int  BY TicksAssumption DEF Ticks
  <2>2. new[t] = tp[t]  BY <1>1, <1>6, TapeKept
  <2>3. Decided(h, tp, t, q)  BY <1>6 DEF TapeSound
  <2>4. /\ q \in k.connected => q \in h.connected /\ k.deadTick[q] = h.deadTick[q]
        /\ q \notin h.connected => q \notin k.connected /\ k.deadTick[q] = h.deadTick[q]
        /\ q \in h.connected => q \in k.connected \/ h.unsent <= k.deadTick[q]
    BY DeathAfterSent
  <2>5. h.deadTick[q] \in Int /\ k.deadTick[q] \in Int  BY <1>3
  <2> HIDE DEF new
  <2>6. new[t][q] = "dead" <=> q \notin k.connected /\ k.deadTick[q] <= t
    BY <1>2, <1>6, <2>1, <2>2, <2>3, <2>4, <2>5 DEF Decided
  <2>7. ASSUME k.connected # {}, k.disp.r <= t, new[t][q] # "dead"
        PROVE  new[t][q] = "made" <=> t \in k.made[q]
    <3>1. h.connected # {}
      <4>1. PICK c \in k.connected : TRUE  BY <2>7
      <4>2. c \in Player  BY <1>2, <4>1
      <4> QED  BY <4>1, <4>2, DeathAfterSent
    <3>2. h.disp.r <= t
      <4>1. h.disp.r <= k.disp.r  BY <2>7, WindowOnward
      <4> QED  BY <1>2, <2>1, <2>7, <4>1
    <3>3. new[t][q] = "made" <=> t \in h.made[q]
      BY <2>2, <2>3, <2>7, <3>1, <3>2 DEF Decided
    <3>4. FlagsKept(h, k, q)  BY <1>1 DEF HubSound, Onward
    <3>5. t < h.flags[q].w
      <4>1. h.deadTick[q] <= h.flags[q].w /\ (q \in h.connected => h.incomplete <= h.flags[q].w)
        BY <1>1, <3>1 DEF HubSound, Books, InOrder, FlagsInWindow, QueueInWindow
      <4>2. q \in h.connected \/ ~(h.deadTick[q] <= t)
        BY <2>2, <2>3, <2>7 DEF Decided
      <4>3. h.flags[q].w \in Int  BY <1>3
      <4> QED  BY <1>2, <1>6, <2>1, <2>5, <4>1, <4>2, <4>3
    <3>6. k.flags[q].r <= t
      <4>1. k.flags[q].r = Least(k.flags[q].w, k.disp.r)
        BY <1>1, <2>7 DEF HubSound, Books, InOrder, FlagsInWindow, QueueInWindow
      <4>2. k.flags[q].r \in Int /\ k.flags[q].w \in Int  BY <1>3
      <4> QED  BY <1>2, <2>1, <2>7, <4>1, <4>2 DEF Least
    <3> QED  BY <2>1, <3>3, <3>4, <3>5, <3>6 DEF FlagsKept
  <2> QED  BY <2>6, <2>7 DEF Decided
<1>7. \A t \in Ticks, q \in Player : t < k.unsent => Decided(k, new, t, q)
  <2> SUFFICES ASSUME NEW t \in Ticks, NEW q \in Player, t < k.unsent
               PROVE  Decided(k, new, t, q)
    OBVIOUS
  <2>1. t \in Int  BY TicksAssumption DEF Ticks
  <2>2. t < h.unsent \/ h.unsent <= t  BY <1>2, <2>1
  <2> HIDE DEF new
  <2> QED  BY <1>5, <1>6, <2>2
<1> HIDE DEF new
<1> QED  BY <1>4, <1>7 DEF TapeSound, new

\* Who takes part is as it was.
LEMMA MembersStep ==
  ASSUME NEW h, NEW k, HubStep(h, k), NEW S, MembersSound(h, S)
  PROVE  MembersSound(k, S)
<1>1. \A q \in Player :
        /\ q \in k.connected => q \in h.connected /\ k.deadTick[q] = h.deadTick[q]
        /\ q \notin h.connected => q \notin k.connected /\ k.deadTick[q] = h.deadTick[q]
  BY DeathAfterSent
<1> QED  BY <1>1 DEF MembersSound

\* The only player left has acknowledged, or dropped, no flags of ticks that
\* are not sent.
LEMMA OnlyPlayerSent ==
  ASSUME NEW h, NEW k, HubStep(h, k), NEW p \in Player, k.connected = {p}, NEW a \in Int,
         a <= k.flags[p].w, h.connected = {p} => a <= h.unsent
  PROVE  a <= k.unsent
<1>1. HubSound(h) /\ HubSound(k) /\ h.unsent <= k.unsent  BY DEF HubStep
<1>2. h.unsent \in Int /\ k.unsent \in Int  BY <1>1, HubSoundFields
<1>3. CASE h.connected = {p}  BY <1>1, <1>2, <1>3
<1>4. CASE h.connected # {p}
  <2>1. k.unsent = k.incomplete  BY <1>4 DEF HubStep
  <2> QED  BY <1>1, <2>1, OnlyPlayersFlags
<1> QED  BY <1>3, <1>4

\* A spoke is as sound as it was.
LEMMA SpokeStep ==
  ASSUME NEW h, NEW k, HubStep(h, k), NEW tp, NEW S, NEW p \in Player, NEW s,
         SpokeSound(h, tp, S, p, s),
         p \in k.connected => \/ k.ack[p] = h.ack[p] \/ WeAreAlone(s, p)
                              \/ k.ack[p] <= s.unreceived
  PROVE  SpokeSound(k, TapeAfter(h, k, tp), S, p, s)
<1>1. /\ s \in SpokeRecords /\ PeersSound(h, S, p, s) /\ SpokeInWindow(h, p, s)
      /\ SpokePlays(tp, p, s) /\ SpokeQueues(p, s)
  BY DEF SpokeSound
<1>2. HubSound(h) /\ HubSound(k) /\ Onward(h, k) /\ h.unsent <= k.unsent  BY DEF HubStep
<1>3. /\ h.unsent \in Int /\ k.unsent \in Int /\ h.flags[p].w \in Int /\ k.flags[p].w \in Int
      /\ h.ack[p] \in Int /\ k.ack[p] \in Int
  BY <1>2, HubSoundFields
<1>4. s.unreceived \in Int /\ s.out.r \in Int  BY <1>1, SpokeFields
<1>5. h.flags[p].w <= k.flags[p].w  BY <1>2 DEF HubSound, Onward, FlagsKept
<1>6. p \in k.connected => p \in h.connected  BY DeathAfterSent
<1>7. \A q \in Player : PeerKnown(k, p, s, q)
  <2> SUFFICES ASSUME NEW q \in Player  PROVE PeerKnown(k, p, s, q)  OBVIOUS
  <2>1. PeerKnown(h, p, s, q)  BY <1>1 DEF PeersSound
  <2>2. /\ q \in k.connected => q \in h.connected /\ k.deadTick[q] = h.deadTick[q]
        /\ q \notin h.connected => q \notin k.connected /\ k.deadTick[q] = h.deadTick[q]
        /\ q \in h.connected => q \in k.connected \/ h.unsent <= k.deadTick[q]
    BY DeathAfterSent
  <2>3. q \in s.peers /\ q # p => s.unreceived <= h.unsent
    BY <1>1 DEF SpokeInWindow, WeAreAlone
  <2>4. k.deadTick[q] \in Int  BY <1>2, HubSoundFields
  <2>5. q \in s.peers /\ q # p => q \in k.connected \/ s.unreceived <= k.deadTick[q]
    BY <1>3, <1>4, <2>1, <2>2, <2>3, <2>4 DEF PeerKnown
  <2> QED  BY <2>1, <2>2, <2>5 DEF PeerKnown
<1>8. PeersSound(k, S, p, s)  BY <1>1, <1>7 DEF PeersSound
<1>9. SpokeInWindow(k, p, s)
  <2>1. s.unreceived <= k.unsent \/ (p \notin k.connected /\ WeAreAlone(s, p))
    <3>1. s.unreceived <= h.unsent \/ (p \notin h.connected /\ WeAreAlone(s, p))
      BY <1>1 DEF SpokeInWindow
    <3> QED  BY <1>2, <1>3, <1>4, <1>6, <3>1
  <2>2. p \in k.connected => s.out.r <= k.flags[p].w
    <3>1. p \in h.connected => s.out.r <= h.flags[p].w  BY <1>1 DEF SpokeInWindow
    <3> QED  BY <1>3, <1>4, <1>5, <1>6, <3>1
  <2>3. k.connected = {p} => s.out.r <= k.unsent
    <3>1. h.connected = {p} => s.out.r <= h.unsent  BY <1>1 DEF SpokeInWindow
    <3> QED  BY <1>4, <2>2, <3>1, OnlyPlayerSent
  <2>4. p \in k.connected => WeAreAlone(s, p) \/ k.ack[p] <= s.unreceived
    <3>1. p \in h.connected => WeAreAlone(s, p) \/ h.ack[p] <= s.unreceived
      BY <1>1 DEF SpokeInWindow
    <3> QED  BY <1>6, <3>1
  <2> QED  BY <1>1, <2>1, <2>2, <2>3, <2>4 DEF SpokeInWindow
<1>10. SpokePlays(TapeAfter(h, k, tp), p, s)
  <2> DEFINE new == TapeAfter(h, k, tp)
  <2> SUFFICES ASSUME s.online, ~WeAreAlone(s, p)
               PROVE  \A t \in RealTick .. (s.unreceived - 1) : new[t] = tp[t]
    BY <1>1 DEF SpokePlays
  <2> SUFFICES ASSUME NEW t \in RealTick .. (s.unreceived - 1)  PROVE new[t] = tp[t]
    OBVIOUS
  <2>1. s.unreceived <= h.unsent /\ s.unreceived <= LastTick + 1
    BY <1>1 DEF SpokeInWindow
  <2>2. t \in Ticks /\ t < h.unsent
    BY <1>3, <1>4, <2>1, TicksAssumption DEF Ticks
  <2> QED  BY <1>2, <2>2, TapeKept
<1> QED  BY <1>1, <1>8, <1>9, <1>10 DEF SpokeSound

\* So is a packet in flight to it, whether it tells of later deaths or not,
LEMMA ToSpokeStep ==
  ASSUME NEW h, NEW k, HubStep(h, k), NEW tp, NEW p \in Player, NEW s, s.peers \subseteq Player,
         NEW m, ToSpokeSound(h, tp, p, s, m)
  PROVE  ToSpokeSound(k, TapeAfter(h, k, tp), p, s, m)
<1> DEFINE new == TapeAfter(h, k, tp)
<1>1. HubSound(h) /\ HubSound(k) /\ Onward(h, k) /\ h.unsent <= k.unsent  BY DEF HubStep
<1>2. /\ h.unsent \in Int /\ k.unsent \in Int /\ h.flags[p].w \in Int /\ k.flags[p].w \in Int
      /\ m.ack \in Int
  BY <1>1, HubSoundFields DEF ToSpokeSound
<1>3. \A q \in Player :
        /\ q \in k.connected => q \in h.connected /\ k.deadTick[q] = h.deadTick[q]
        /\ q \notin h.connected => q \notin k.connected /\ k.deadTick[q] = h.deadTick[q]
        /\ q \in h.connected => q \in k.connected \/ h.unsent <= k.deadTick[q]
  BY DeathAfterSent
<1>4. m.ack <= k.flags[p].w
  <2>1. h.flags[p].w <= k.flags[p].w  BY <1>1 DEF HubSound, Onward, FlagsKept
  <2>2. m.ack <= h.flags[p].w  BY DEF ToSpokeSound
  <2> QED  BY <1>2, <2>1, <2>2
<1>5. k.connected = {p} => m.ack <= k.unsent
  <2>1. h.connected = {p} => m.ack <= h.unsent  BY DEF ToSpokeSound
  <2> QED  BY <1>2, <1>4, <2>1, OnlyPlayerSent
<1>6. \A q \in DOMAIN m.deaths : DeathInPacket(k, p, m, q)
  BY <1>3 DEF ToSpokeSound, DeathInPacket
<1>7. \A t \in DOMAIN m.flags : t \in Ticks /\ t < h.unsent /\ t \in Int
  BY TicksAssumption DEF ToSpokeSound, TickInPacket, Ticks
<1>8. ASSUME NEW t \in DOMAIN m.flags  PROVE TickInPacket(k, new, p, m, t)
  <2>1. new[t] = tp[t]  BY <1>1, <1>7, TapeKept
  <2>2. t < k.unsent  BY <1>1, <1>2, <1>7
  <2>3. TickInPacket(h, tp, p, m, t)  BY DEF ToSpokeSound
  <2> HIDE DEF new
  <2> QED  BY <2>1, <2>2, <2>3 DEF TickInPacket
<1>9. ASSUME NEW q \in s.peers  PROVE PeerInPacket(k, m, q)
  <2>1. PeerInPacket(h, m, q)  BY DEF ToSpokeSound
  <2>2. q \in Player  OBVIOUS
  <2>3. k.deadTick[q] \in Int  BY <1>1, <2>2, HubSoundFields
  <2>4. h.unsent <= k.deadTick[q] => \A t \in DOMAIN m.flags : t < k.deadTick[q]
    BY <1>2, <1>7, <2>3
  <2> QED  BY <1>3, <2>1, <2>2, <2>4 DEF PeerInPacket
<1> HIDE DEF new
<1>10. ToSpokeSound(k, new, p, s, m)
  BY <1>4, <1>5, <1>6, <1>8, <1>9 DEF ToSpokeSound
<1> QED  BY <1>10 DEF new

\* and one from it.
LEMMA ToHubStep ==
  ASSUME NEW h, NEW k, HubStep(h, k), NEW p \in Player, NEW s, NEW m, ToHubSound(h, p, s, m)
  PROVE  ToHubSound(k, p, s, m)
<1>1. HubSound(h) /\ HubSound(k) /\ Onward(h, k) /\ h.unsent <= k.unsent  BY DEF HubStep
<1>2. /\ h.unsent \in Int /\ k.unsent \in Int /\ h.flags[p].w \in Int /\ k.flags[p].w \in Int
  BY <1>1, HubSoundFields
<1>3. h.flags[p].w <= k.flags[p].w  BY <1>1 DEF HubSound, Onward, FlagsKept
<1>4. p \in k.connected => p \in h.connected  BY DeathAfterSent
<1>5. m.ack \in Int /\ m.from \in Int  BY DEF ToHubSound
<1>6. p \in h.connected => m.ack <= h.unsent /\ m.from <= h.flags[p].w  BY DEF ToHubSound
<1>7. p \in k.connected => m.ack <= k.unsent /\ m.from <= k.flags[p].w
  BY <1>1, <1>2, <1>3, <1>4, <1>5, <1>6
<1> QED  BY <1>7 DEF ToHubSound

----------------------------------------------------------------------------
(* A packet that the hub sends.                                             *)

\* The ticks of a packet are successive ones that the player has not
\* acknowledged.
LEMMA TicksForSpan ==
  ASSUME NEW h \in HubRecords, NEW p \in Player, NEW recovery
  PROVE  \E a \in Int, b \in Int :
           /\ TicksFor(h, p, recovery) = a .. (b - 1)
           /\ h.ack[p] <= a /\ b <= h.incomplete
<1> DEFINE saving == BandwidthReduction /\ h.disp.r >= RealTick
           a == IF saving /\ ~recovery
                THEN Greatest(h.incomplete - IncrementalTicks, h.ack[p]) ELSE h.ack[p]
           b == IF saving /\ recovery
                THEN Least(h.ack[p] + RecoveryTicks, h.incomplete) ELSE h.incomplete
<1>1. h.ack[p] \in Int /\ h.incomplete \in Int /\ IncrementalTicks \in Int /\ RecoveryTicks \in Int
  BY HubFields, QueueAssumption
<1> HIDE DEF saving
<1>2. a \in Int /\ h.ack[p] <= a  BY <1>1 DEF Greatest
<1>3. b \in Int /\ b <= h.incomplete  BY <1>1 DEF Least
<1>4. TicksFor(h, p, recovery) = a .. (b - 1)  BY DEF TicksFor, saving
<1> QED  BY <1>2, <1>3, <1>4

\* send_packets puts into a packet what the tape says, and tells of the deaths that
\* its addressee has to know.
LEMMA FreshPacket ==
  ASSUME NEW h, HubSound(h), NEW tp, NEW S, MembersSound(h, S), TapeSound(h, tp),
         NEW p \in Player, p \in h.connected, h.unsent = h.incomplete,
         NEW s, SpokeSound(h, tp, S, p, s), NEW recovery, NEW m, m = Packet(h, p, recovery)
  PROVE  ToSpokeSound(h, tp, p, s, m)
<1> DEFINE ticks == TicksFor(h, p, recovery)
           reflected == Reflects(h, p, ticks)
           Sources(t) == {q \in Player : /\ q = p => reflected
                                         /\ q \in h.connected \/ t < h.deadTick[q]}
           deaths == [q \in Deaths(h, p) |-> h.deadTick[q]]
           flags == [t \in {u \in ticks : Sources(u) # {}} |->
                       [q \in Sources(t) |-> IF t \in h.made[q] THEN "made" ELSE "sent"]]
<1>1. /\ h \in HubRecords /\ h.connected \in SUBSET Player
      /\ h.unsent \in Int /\ h.incomplete \in Int /\ h.disp.r \in Int /\ h.disp.w \in Int
      /\ h.incomplete <= h.disp.w /\ h.disp.w <= LastTick + 1
      /\ h.ack[p] \in Int /\ h.flags[p].w \in Int
  BY HubSoundFields
<1>2. \A q \in Player : h.deadTick[q] \in Int  BY HubSoundFields
<1>3. InOrder(h)  BY DEF HubSound, Books
<1>4. h.disp.r <= h.ack[p] /\ FirstTick <= h.disp.r
  BY <1>3 DEF InOrder, AcksInWindow, AckInWindow, WindowsOrdered
<1>5. m = [ack |-> h.flags[p].w, adjust |-> h.adjusting[p], deaths |-> deaths,
           reflected |-> reflected, flags |-> flags]
  BY DEF Packet
<1>6. /\ m.ack = h.flags[p].w /\ m.adjust = h.adjusting[p] /\ m.reflected = reflected
      /\ m.deaths = deaths /\ m.flags = flags
  <2> HIDE DEF deaths, flags, reflected
  <2> QED  BY <1>5
<1>7. FirstTick \in Int /\ LastTick \in Int  BY TicksAssumption
<1>8. PICK a \in Int, b \in Int : ticks = a .. (b - 1) /\ h.ack[p] <= a /\ b <= h.incomplete
  BY <1>1, TicksForSpan
<1>9. reflected \in BOOLEAN  BY DEF Reflects
<1>10. reflected <=> \E t \in ticks : p \in h.reflected[t]  BY DEF Reflects
<1>11. DOMAIN deaths = {d \in Player : h.ack[p] <= h.deadTick[d]}
       /\ \A q \in DOMAIN deaths : deaths[q] = h.deadTick[q]
  BY DEF Deaths
<1> HIDE DEF ticks, reflected, deaths
<1>12. \A t : Sources(t) = {q \in Player : /\ q = p => reflected
                                           /\ q \in h.connected \/ t < h.deadTick[q]}
  OBVIOUS
<1> HIDE DEF Sources
<1>13. DOMAIN flags = {u \in ticks : Sources(u) # {}}
       /\ \A t \in DOMAIN flags :
            /\ DOMAIN flags[t] = Sources(t)
            /\ \A q \in Sources(t) : flags[t][q] = IF t \in h.made[q] THEN "made" ELSE "sent"
  OBVIOUS
<1> HIDE DEF flags
<1>14. \A q \in Player : q \in h.connected => h.deadTick[q] < FirstTick
  BY DEF MembersSound
<1>15. \A q \in DOMAIN m.deaths : DeathInPacket(h, p, m, q)
  <2> SUFFICES ASSUME NEW q \in DOMAIN deaths  PROVE DeathInPacket(h, p, m, q)
    BY <1>6
  <2>1. q \in Player /\ h.ack[p] <= h.deadTick[q] /\ m.deaths[q] = h.deadTick[q]
    BY <1>6, <1>11
  <2>2. h.deadTick[q] \in Int  BY <1>2, <2>1
  <2>3. q \notin h.connected  BY <1>1, <1>4, <1>7, <1>14, <2>1, <2>2
  <2> QED  BY <2>1, <2>3 DEF DeathInPacket
<1>23. \A t \in ticks : t \in Int /\ t \in Ticks /\ t < h.unsent /\ h.disp.r <= t
  <2> SUFFICES ASSUME NEW t \in ticks
               PROVE  t \in Int /\ t \in Ticks /\ t < h.unsent /\ h.disp.r <= t
    OBVIOUS
  <2>1. t \in Int /\ t < h.unsent /\ h.disp.r <= t  BY <1>1, <1>4, <1>7, <1>8
  <2> QED  BY <1>1, <1>4, <1>7, <2>1 DEF Ticks
<1>16. \A t \in DOMAIN m.flags :
         t \in Int /\ t \in Ticks /\ t < h.unsent /\ h.disp.r <= t /\ t \in ticks
  BY <1>6, <1>13, <1>23
<1>17. \A t \in DOMAIN m.flags : TickInPacket(h, tp, p, m, t)
  <2> SUFFICES ASSUME NEW t \in DOMAIN flags  PROVE TickInPacket(h, tp, p, m, t)
    BY <1>6
  <2>1. t \in Int /\ t \in Ticks /\ t < h.unsent /\ h.disp.r <= t /\ t \in ticks
    BY <1>6, <1>16
  <2>2. \A q \in Player : Decided(h, tp, t, q)  BY <2>1 DEF TapeSound
  <2>3. \A q \in Player : tp[t][q] # "dead" <=> q \in h.connected \/ t < h.deadTick[q]
    <3> SUFFICES ASSUME NEW q \in Player
                 PROVE  tp[t][q] # "dead" <=> q \in h.connected \/ t < h.deadTick[q]
      OBVIOUS
    <3>1. Decided(h, tp, t, q) /\ h.deadTick[q] \in Int  BY <1>2, <2>2
    <3> QED  BY <2>1, <3>1 DEF Decided
  <2>4. \A q \in Player : tp[t][q] # "dead" => (tp[t][q] = "made" <=> t \in h.made[q])
    BY <2>1, <2>2 DEF Decided
  <2>5. \A q \in Player : tp[t][q] \in Decisions  BY <2>1 DEF TapeSound
  <2>6. DOMAIN flags[t] = {q \in Player : tp[t][q] # "dead" /\ (q = p => reflected)}
    <3>1. \A q : q \in Sources(t) <=>
                   q \in Player /\ tp[t][q] # "dead" /\ (q = p => reflected)
      BY <1>12, <2>3
    <3> QED  BY <1>13, <3>1
  <2>7. \A q \in DOMAIN flags[t] : flags[t][q] = tp[t][q]
    <3> SUFFICES ASSUME NEW q \in DOMAIN flags[t]  PROVE flags[t][q] = tp[t][q]
      OBVIOUS
    <3>1. q \in Player /\ tp[t][q] # "dead"  BY <2>6
    <3>2. flags[t][q] = IF t \in h.made[q] THEN "made" ELSE "sent"  BY <1>13
    <3>3. tp[t][q] \in Decisions /\ (tp[t][q] = "made" <=> t \in h.made[q])
      BY <2>4, <2>5, <3>1
    <3> QED  BY <3>1, <3>2, <3>3 DEF Decisions
  <2>8. ~reflected => tp[t][p] = "sent"
    <3> SUFFICES ASSUME ~reflected  PROVE tp[t][p] = "sent"  OBVIOUS
    <3>1. p \notin h.reflected[t]  BY <1>10, <2>1
    <3>2. t \notin h.made[p]  BY <1>3, <2>1, <3>1 DEF InOrder, MadeUpTold
    <3>3. tp[t][p] # "dead" /\ tp[t][p] # "made"  BY <2>3, <2>4, <3>2
    <3> QED  BY <2>5, <3>3 DEF Decisions
  <2> QED  BY <1>6, <2>1, <2>6, <2>7, <2>8 DEF TickInPacket
<1>18. \A t, u \in DOMAIN m.flags : \A v \in t .. u : v \in DOMAIN m.flags
  <2> SUFFICES ASSUME NEW t \in DOMAIN flags, NEW u \in DOMAIN flags, NEW v \in t .. u
               PROVE  v \in DOMAIN flags
    BY <1>6
  <2>1. t \in ticks /\ u \in ticks /\ t \in Int /\ u \in Int  BY <1>6, <1>16
  <2>2. v \in Int /\ v <= u  BY <2>1
  <2>3. v \in ticks  BY <1>8, <2>1
  <2>4. PICK q \in Player : /\ q = p => reflected
                            /\ q \in h.connected \/ u < h.deadTick[q]
    BY <1>12, <1>13
  <2>5. h.deadTick[q] \in Int  BY <1>2, <2>4
  <2>6. q \in h.connected \/ v < h.deadTick[q]  BY <2>1, <2>2, <2>4, <2>5
  <2>7. q \in Sources(v)  BY <1>12, <2>4, <2>6
  <2> QED  BY <1>13, <2>3, <2>7
<1>19. \A q \in s.peers : PeerInPacket(h, m, q)
  <2> SUFFICES ASSUME NEW q \in s.peers, q \notin h.connected
               PROVE  q \in DOMAIN deaths
    BY <1>6 DEF PeerInPacket
  <2>1. s \in SpokeRecords /\ PeersSound(h, S, p, s) /\ SpokeInWindow(h, p, s)
    BY DEF SpokeSound
  <2>2. q \in Player /\ q # p  BY <2>1, SpokeFields
  <2>3. s.unreceived <= h.deadTick[q]  BY <2>1, <2>2 DEF PeersSound, PeerKnown
  <2>4. h.ack[p] <= s.unreceived
    BY <2>1, <2>2 DEF SpokeInWindow, WeAreAlone
  <2>5. s.unreceived \in Int /\ h.deadTick[q] \in Int  BY <1>2, <2>1, <2>2, SpokeFields
  <2>6. h.ack[p] <= h.deadTick[q]  BY <1>1, <2>3, <2>4, <2>5
  <2> QED  BY <1>11, <2>2, <2>6
<1>20. m.ack \in Int /\ m.adjust \in Int /\ m.reflected \in BOOLEAN
  BY <1>1, <1>6, <1>9 DEF HubRecords
<1>21. m.ack <= h.flags[p].w  BY <1>1, <1>6
<1>22. h.connected = {p} => m.ack <= h.unsent
  <2> SUFFICES ASSUME h.connected = {p}  PROVE m.ack <= h.unsent  OBVIOUS
  <2>1. h.flags[p].w = h.incomplete  BY OnlyPlayersFlags
  <2> QED  BY <1>1, <1>6, <2>1
<1>24. OwnFlagsHeld(p, m)
  <2>1. h.incomplete <= h.flags[p].w
    BY <1>3 DEF InOrder, FlagsInWindow, QueueInWindow
  <2>2. ASSUME NEW t \in DOMAIN m.flags  PROVE t < m.ack /\ DOMAIN m.flags[t] # {}
    <3>1. t \in Int /\ t < h.unsent  BY <1>16
    <3>2. Sources(t) # {} /\ DOMAIN m.flags[t] = Sources(t)  BY <1>6, <1>13
    <3> QED  BY <1>1, <1>6, <2>1, <3>1, <3>2
  <2>3. p = LocalPlayer => ~reflected
    <3>1. \A t \in ticks : p = LocalPlayer => p \notin h.reflected[t]
      BY <1>3, <1>23 DEF InOrder, MadeUpTold
    <3> QED  BY <1>10, <3>1
  <2> QED  BY <1>6, <2>2, <2>3 DEF OwnFlagsHeld
<1> QED  BY <1>15, <1>17, <1>18, <1>19, <1>20, <1>21, <1>22, <1>24 DEF ToSpokeSound

----------------------------------------------------------------------------
(* Channels.                                                                *)

\* A channel holds nothing but what was sent into it.
LEMMA ChannelAfter ==
  ASSUME NEW c, ChannelSound(c), NEW m
  PROVE  /\ ChannelSound(After(c, m))
         /\ \A x \in Arriving(After(c, m)) : x = m \/ x \in Arriving(c)
<1> DEFINE T == Arriving(c) \cup {m}
<1>1. c \in Seq(T)  BY DEF ChannelSound
<1>2. m \in T  OBVIOUS
<1>3. ASSUME NEW U, NEW d \in Seq(U)  PROVE ChannelSound(d)
  <2>1. \A i \in 1 .. Len(d) : d[i] \in Arriving(d)  BY <1>3 DEF Arriving
  <2> QED  BY <1>3, <2>1, SeqDef DEF ChannelSound
<1>4. ASSUME NEW U, NEW d \in Seq(U)  PROVE Arriving(d) \subseteq U
  BY <1>4 DEF Arriving
<1> HIDE DEF T
<1>5. After(c, m) \in Seq(T)
  <2>1. CASE \E i \in DOMAIN c : c[i] = m  BY <1>1, <2>1 DEF After
  <2>2. CASE ~(\E i \in DOMAIN c : c[i] = m) /\ Len(c) < InFlight
    <3>1. After(c, m) = Append(c, m)  BY <2>2 DEF After
    <3> QED  BY <1>1, <1>2, <3>1
  <2>3. CASE ~(\E i \in DOMAIN c : c[i] = m) /\ ~(Len(c) < InFlight)
    <3>1. After(c, m) = Append(Tail(c), m)  BY <2>3 DEF After
    <3>2. Len(c) \in Nat /\ InFlight \in Nat \ {0}  BY <1>1, GameAssumption
    <3>3. c # <<>>  BY <2>3, <3>2
    <3>4. Tail(c) \in Seq(T)  BY <1>1, <3>3
    <3> QED  BY <1>2, <3>1, <3>4
  <2> QED  BY <2>1, <2>2, <2>3
<1>6. ChannelSound(After(c, m))  BY <1>3, <1>5
<1>7. Arriving(After(c, m)) \subseteq T  BY <1>4, <1>5
<1> QED  BY <1>6, <1>7 DEF T

\* Nothing is on its way in a new channel.
LEMMA EmptyChannel ==
  ChannelSound(<<>>) /\ Arriving(<<>>) = {}
BY DEF ChannelSound, Arriving

----------------------------------------------------------------------------
(* The invariant is inductive.                                              *)

\* What is on the tape stays there, and every spoke goes on.
SpokesOnward(sp, sq) ==
  DOMAIN sq = DOMAIN sp /\ \A p \in DOMAIN sp : SpokeOnward(p, sp[p], sq[p])
TapeOnward(h, tp, k, tq) ==
  h.unsent <= k.unsent /\ \A t \in Ticks : t < h.unsent => tq[t] = tp[t]

\* What a game's players are.
LEMMA GameMembers ==
  ASSUME NEW h, NEW tp, NEW sp, NEW th, NEW ts, GameSound(h, tp, sp, th, ts)
  PROVE  /\ HubSound(h) /\ MembersSound(h, DOMAIN sp) /\ TapeSound(h, tp)
         /\ \A p \in DOMAIN sp : /\ p \in Player /\ SpokeSound(h, tp, DOMAIN sp, p, sp[p])
                                 /\ sp[p] \in SpokeRecords /\ sp[p].unreceived \in Int
                                 /\ sp[p].out.w <= LastTick + 1 /\ sp[p].peers \subseteq Player
         /\ h.connected \subseteq DOMAIN sp
<1>1. /\ HubSound(h) /\ MembersSound(h, DOMAIN sp) /\ TapeSound(h, tp)
      /\ \A p \in DOMAIN sp : SpokeSound(h, tp, DOMAIN sp, p, sp[p])
  BY DEF GameSound
<1>2. ASSUME NEW p \in DOMAIN sp
      PROVE  /\ p \in Player /\ SpokeSound(h, tp, DOMAIN sp, p, sp[p])
             /\ sp[p] \in SpokeRecords /\ sp[p].unreceived \in Int
             /\ sp[p].out.w <= LastTick + 1 /\ sp[p].peers \subseteq Player
  <2>1. SpokeSound(h, tp, DOMAIN sp, p, sp[p])  BY <1>1
  <2>2. p \in Player  BY <1>1 DEF MembersSound, Listed
  <2>3. sp[p] \in SpokeRecords /\ SpokeInWindow(h, p, sp[p])  BY <2>1 DEF SpokeSound
  <2>4. sp[p].unreceived \in Int /\ sp[p].peers \in SUBSET Player  BY <2>3, SpokeFields
  <2>5. sp[p].out.w <= LastTick + 1  BY <2>3 DEF SpokeInWindow
  <2> QED  BY <2>1, <2>2, <2>3, <2>4, <2>5
<1>3. h.connected \subseteq DOMAIN sp
  <2>1. h.connected \in SUBSET Player  BY <1>1, HubSoundFields
  <2> QED  BY <1>1, <2>1 DEF MembersSound
<1> QED  BY <1>1, <1>2, <1>3

\* A step of the hub.
LEMMA GameHubStep ==
  ASSUME NEW h, NEW tp, NEW sp, NEW th, NEW ts, GameSound(h, tp, sp, th, ts),
         NEW k, HubStep(h, k), AcksReceived(h, k, sp)
  PROVE  GameSound(k, TapeAfter(h, k, tp), sp, th, ts)
<1> DEFINE new == TapeAfter(h, k, tp)
<1>1. /\ HubSound(h) /\ MembersSound(h, DOMAIN sp) /\ TapeSound(h, tp)
      /\ \A p \in DOMAIN sp : p \in Player /\ SpokeSound(h, tp, DOMAIN sp, p, sp[p])
                              /\ sp[p].peers \subseteq Player
  BY GameMembers
<1>2. HubSound(k)  BY DEF HubStep
<1>3. MembersSound(k, DOMAIN sp)  BY <1>1, MembersStep
<1>4. TapeSound(k, new)  BY <1>1, TapeStep
<1>5. ASSUME NEW p \in DOMAIN sp  PROVE SpokeSound(k, new, DOMAIN sp, p, sp[p])
  <2>1. p \in k.connected => \/ k.ack[p] = h.ack[p] \/ WeAreAlone(sp[p], p)
                             \/ k.ack[p] <= sp[p].unreceived
    BY DEF AcksReceived
  <2> QED  BY <1>1, <2>1, SpokeStep
<1>6. ASSUME NEW p \in DOMAIN sp \ {LocalPlayer}, NEW m \in Arriving(ts[p])
      PROVE  ToSpokeSound(k, new, p, sp[p], m)
  <2>1. ToSpokeSound(h, tp, p, sp[p], m)  BY DEF GameSound
  <2> QED  BY <1>1, <2>1, ToSpokeStep
<1>7. ASSUME NEW p \in DOMAIN sp \ {LocalPlayer}, NEW m \in Arriving(th[p])
      PROVE  IsIdent(m) \/ ToHubSound(k, p, sp[p], m)
  <2>1. IsIdent(m) \/ ToHubSound(h, p, sp[p], m)  BY DEF GameSound
  <2> QED  BY <1>1, <2>1, ToHubStep
<1> HIDE DEF new
<1>8. /\ DOMAIN th = DOMAIN sp \ {LocalPlayer} /\ DOMAIN ts = DOMAIN sp \ {LocalPlayer}
      /\ \A p \in DOMAIN sp \ {LocalPlayer} : ChannelSound(th[p]) /\ ChannelSound(ts[p])
  BY DEF GameSound
<1>9. GameSound(k, new, sp, th, ts)
  BY <1>2, <1>3, <1>4, <1>5, <1>6, <1>7, <1>8 DEF GameSound
<1> QED  BY <1>9 DEF new

\* No step, and two.
LEMMA NoSpokeOnward ==
  ASSUME NEW h, NEW tp, NEW sp, NEW th, NEW ts, GameSound(h, tp, sp, th, ts)
  PROVE  SpokesOnward(sp, sp)
<1>1. \A p \in DOMAIN sp : sp[p].unreceived \in Int  BY GameMembers
<1> QED  BY <1>1 DEF SpokesOnward, SpokeOnward

LEMMA SpokesOnwardTransitive ==
  ASSUME NEW h, NEW tp, NEW sp, NEW th, NEW ts, GameSound(h, tp, sp, th, ts),
         NEW k, NEW tq, NEW sq, NEW ti, NEW tj, GameSound(k, tq, sq, ti, tj),
         NEW j, NEW tr, NEW sr, NEW tk, NEW tl, GameSound(j, tr, sr, tk, tl),
         SpokesOnward(sp, sq), SpokesOnward(sq, sr)
  PROVE  SpokesOnward(sp, sr)
<1>1. /\ \A p \in DOMAIN sp : sp[p].unreceived \in Int
      /\ \A p \in DOMAIN sq : sq[p].unreceived \in Int
      /\ \A p \in DOMAIN sr : sr[p].unreceived \in Int
  BY GameMembers
<1>2. DOMAIN sq = DOMAIN sp /\ DOMAIN sr = DOMAIN sp  BY DEF SpokesOnward
<1>3. ASSUME NEW p \in DOMAIN sp  PROVE SpokeOnward(p, sp[p], sr[p])
  <2>1. SpokeOnward(p, sp[p], sq[p]) /\ SpokeOnward(p, sq[p], sr[p])
    BY <1>2 DEF SpokesOnward
  <2> QED  BY <1>1, <1>2, <2>1, SpokeOnwardTransitive
<1> QED  BY <1>2, <1>3 DEF SpokesOnward

\* A step of a spoke.
LEMMA GameSpokeStep ==
  ASSUME NEW h, NEW tp, NEW sp, NEW th, NEW ts, GameSound(h, tp, sp, th, ts),
         NEW p \in DOMAIN sp, NEW k, SpokeSound(h, tp, DOMAIN sp, p, k),
         SpokeOnward(p, sp[p], k)
  PROVE  /\ GameSound(h, tp, [sp EXCEPT ![p] = k], th, ts)
         /\ SpokesOnward(sp, [sp EXCEPT ![p] = k])
<1> DEFINE new == [sp EXCEPT ![p] = k]
<1>1. /\ DOMAIN new = DOMAIN sp
      /\ \A q \in DOMAIN sp : new[q] = IF q = p THEN k ELSE sp[q]
  OBVIOUS
<1> HIDE DEF new
<1>2. /\ HubSound(h) /\ MembersSound(h, DOMAIN sp) /\ TapeSound(h, tp)
      /\ \A q \in DOMAIN sp : /\ q \in Player /\ SpokeSound(h, tp, DOMAIN sp, q, sp[q])
                              /\ sp[q].unreceived \in Int
  BY GameMembers
<1>3. k.unreceived \in Int  BY SpokeFields DEF SpokeSound
<1>4. \A q \in DOMAIN sp : SpokeSound(h, tp, DOMAIN sp, q, new[q])  BY <1>1, <1>2
<1>5. ASSUME NEW q \in DOMAIN sp \ {LocalPlayer}, NEW m \in Arriving(ts[q])
      PROVE  ToSpokeSound(h, tp, q, new[q], m)
  <2>1. ToSpokeSound(h, tp, q, sp[q], m)  BY DEF GameSound
  <2> QED  BY <1>1, <2>1, ToSpokeOnward
<1>6. ASSUME NEW q \in DOMAIN sp \ {LocalPlayer}, NEW m \in Arriving(th[q])
      PROVE  IsIdent(m) \/ ToHubSound(h, q, new[q], m)
  <2>1. IsIdent(m) \/ ToHubSound(h, q, sp[q], m)  BY DEF GameSound
  <2>2. CASE q = p
    <3>1. new[q] = k  BY <1>1, <2>2
    <3> QED  BY <1>2, <1>3, <2>1, <2>2, <3>1, ToHubOnward
  <2>3. CASE q # p  BY <1>1, <2>1, <2>3
  <2> QED  BY <2>2, <2>3
<1>7. /\ DOMAIN th = DOMAIN sp \ {LocalPlayer} /\ DOMAIN ts = DOMAIN sp \ {LocalPlayer}
      /\ \A q \in DOMAIN sp \ {LocalPlayer} : ChannelSound(th[q]) /\ ChannelSound(ts[q])
  BY DEF GameSound
<1>8. GameSound(h, tp, new, th, ts)
  BY <1>1, <1>2, <1>4, <1>5, <1>6, <1>7 DEF GameSound
<1>9. SpokesOnward(sp, new)
  <2>1. SpokesOnward(sp, sp)  BY NoSpokeOnward
  <2> QED  BY <1>1, <2>1 DEF SpokesOnward
<1> QED  BY <1>8, <1>9 DEF new

\* A spoke that does something by itself.
LEMMA GameByItself ==
  ASSUME NEW h, NEW tp, NEW sp, NEW th, NEW ts, GameSound(h, tp, sp, th, ts),
         NEW p \in DOMAIN sp, NEW k, ByItself(sp[p], k)
  PROVE  /\ GameSound(h, tp, [sp EXCEPT ![p] = k], th, ts)
         /\ SpokesOnward(sp, [sp EXCEPT ![p] = k])
<1>1. SpokeSound(h, tp, DOMAIN sp, p, sp[p])  BY GameMembers
<1>2. SpokeSound(h, tp, DOMAIN sp, p, k) /\ SpokeOnward(p, sp[p], k)
  BY <1>1, ByItselfSound
<1> QED  BY <1>2, GameSpokeStep

\* A spoke that hears a packet.
LEMMA GamePacketHeard ==
  ASSUME NEW h, NEW tp, NEW sp, NEW th, NEW ts, GameSound(h, tp, sp, th, ts),
         NEW p \in DOMAIN sp, NEW m, ToSpokeSound(h, tp, p, sp[p], m), NEW room \in Nat
  PROVE  /\ GameSound(h, tp, [sp EXCEPT ![p] = PacketHeard(sp[p], p, m, room)], th, ts)
         /\ SpokesOnward(sp, [sp EXCEPT ![p] = PacketHeard(sp[p], p, m, room)])
<1> DEFINE k == PacketHeard(sp[p], p, m, room)
<1>1. /\ HubSound(h) /\ MembersSound(h, DOMAIN sp) /\ TapeSound(h, tp)
      /\ p \in Player /\ SpokeSound(h, tp, DOMAIN sp, p, sp[p])
  BY GameMembers
<1> HIDE DEF k
<1>2. k = PacketHeard(sp[p], p, m, room)  BY DEF k
<1>3. SpokeSound(h, tp, DOMAIN sp, p, k) /\ SpokeOnward(p, sp[p], k)
  BY <1>1, <1>2, PacketHeardSound
<1>4. GameSound(h, tp, [sp EXCEPT ![p] = k], th, ts) /\ SpokesOnward(sp, [sp EXCEPT ![p] = k])
  BY <1>3, GameSpokeStep
<1> QED  BY <1>4 DEF k

\* A packet that a spoke sends.
LEMMA GameSpokeSends ==
  ASSUME NEW h, NEW tp, NEW sp, NEW th, NEW ts, GameSound(h, tp, sp, th, ts),
         NEW p \in DOMAIN sp \ {LocalPlayer}, NEW m, IsIdent(m) \/ ToHubSound(h, p, sp[p], m)
  PROVE  GameSound(h, tp, sp, [th EXCEPT ![p] = After(@, m)], ts)
<1> DEFINE c == After(th[p], m)
           new == [th EXCEPT ![p] = c]
<1>1. /\ DOMAIN th = DOMAIN sp \ {LocalPlayer} /\ DOMAIN ts = DOMAIN sp \ {LocalPlayer}
      /\ \A q \in DOMAIN sp \ {LocalPlayer} : ChannelSound(th[q]) /\ ChannelSound(ts[q])
  BY DEF GameSound
<1>2. ChannelSound(c) /\ \A x \in Arriving(c) : x = m \/ x \in Arriving(th[p])
  BY <1>1, ChannelAfter
<1> HIDE DEF c
<1>3. /\ DOMAIN new = DOMAIN th
      /\ \A q \in DOMAIN th : new[q] = IF q = p THEN c ELSE th[q]
  OBVIOUS
<1> HIDE DEF new
<1>4. ASSUME NEW q \in DOMAIN sp \ {LocalPlayer}
      PROVE  /\ ChannelSound(new[q])
             /\ \A x \in Arriving(new[q]) : IsIdent(x) \/ ToHubSound(h, q, sp[q], x)
  <2>1. \A x \in Arriving(th[q]) : IsIdent(x) \/ ToHubSound(h, q, sp[q], x)
    BY DEF GameSound
  <2>2. CASE q = p  BY <1>1, <1>2, <1>3, <2>1, <2>2
  <2>3. CASE q # p  BY <1>1, <1>3, <2>1, <2>3
  <2> QED  BY <2>2, <2>3
<1>5. GameSound(h, tp, sp, new, ts)
  BY <1>1, <1>3, <1>4 DEF GameSound
<1> QED  BY <1>5 DEF new, c

\* Packets that the hub sends to the remote players among P, recovery updates
\* to those in R.
ChannelsAfter(h, sp, ts, P, R) ==
  [p \in DOMAIN sp \ {LocalPlayer} |->
     IF p \in P THEN After(ts[p], Packet(h, p, p \in R)) ELSE ts[p]]
\* The packets are sound in flight.
LEMMA GameHubSends ==
  ASSUME NEW h, NEW tp, NEW sp, NEW th, NEW ts, GameSound(h, tp, sp, th, ts),
         NEW P, P \subseteq h.connected, h.unsent = h.incomplete, NEW R
  PROVE  GameSound(h, tp, sp, th, ChannelsAfter(h, sp, ts, P, R))
<1> DEFINE c(p) == After(ts[p], Packet(h, p, p \in R))
           new == [p \in DOMAIN sp \ {LocalPlayer} |-> IF p \in P THEN c(p) ELSE ts[p]]
<1>1. /\ HubSound(h) /\ MembersSound(h, DOMAIN sp) /\ TapeSound(h, tp)
      /\ \A p \in DOMAIN sp : p \in Player /\ SpokeSound(h, tp, DOMAIN sp, p, sp[p])
  BY GameMembers
<1>2. /\ DOMAIN th = DOMAIN sp \ {LocalPlayer} /\ DOMAIN ts = DOMAIN sp \ {LocalPlayer}
      /\ \A q \in DOMAIN sp \ {LocalPlayer} : ChannelSound(th[q]) /\ ChannelSound(ts[q])
  BY DEF GameSound
<1>3. ASSUME NEW p \in DOMAIN sp \ {LocalPlayer}
      PROVE  /\ ChannelSound(new[p])
             /\ \A m \in Arriving(new[p]) : ToSpokeSound(h, tp, p, sp[p], m)
  <2>1. \A m \in Arriving(ts[p]) : ToSpokeSound(h, tp, p, sp[p], m)
    BY DEF GameSound
  <2>2. CASE p \in P
    <3>1. ToSpokeSound(h, tp, p, sp[p], Packet(h, p, p \in R))
      BY <1>1, <2>2, FreshPacket
    <3>2. ChannelSound(c(p)) /\ \A x \in Arriving(c(p)) :
                                  x = Packet(h, p, p \in R) \/ x \in Arriving(ts[p])
      BY <1>2, ChannelAfter
    <3>3. new[p] = c(p)  BY <2>2
    <3> HIDE DEF new, c
    <3> QED  BY <2>1, <3>1, <3>2, <3>3
  <2>3. CASE p \notin P
    <3>1. new[p] = ts[p]  BY <2>3
    <3> HIDE DEF new
    <3> QED  BY <1>2, <2>1, <3>1
  <2> QED  BY <2>2, <2>3
<1>4. DOMAIN new = DOMAIN sp \ {LocalPlayer}  OBVIOUS
<1> HIDE DEF new
<1>5. GameSound(h, tp, sp, th, new)
  BY <1>1, <1>2, <1>3, <1>4 DEF GameSound
<1> QED  BY <1>5 DEF ChannelsAfter, new, c

\* A hub that does nothing.
LEMMA HubStutters ==
  ASSUME NEW h, HubSound(h), NEW sp
  PROVE  HubStep(h, h) /\ AcksReceived(h, h, sp)
<1>1. h \in HubRecords /\ h.unsent \in Int  BY HubSoundFields
<1>2. Onward(h, h)  BY <1>1, OnwardReflexive
<1> QED  BY <1>1, <1>2 DEF HubStep, AcksReceived

\* The end of a handler of the hub.
LEMMA EndOfHandlerSound ==
  ASSUME NEW sp, DOMAIN sp = DOMAIN spoke, GameSound(hub, tape, sp, toHub, toSpoke),
         NEW k, HubStep(hub, k), AcksReceived(hub, k, sp),
         NEW sends \in BOOLEAN, sends => k.unsent = k.incomplete, EndOfHandler(k, sp, sends)
  PROVE  /\ GameSound(hub', tape', spoke', toHub, toSpoke')
         /\ TapeOnward(hub, tape, hub', tape') /\ SpokesOnward(sp, spoke')
<1>1. hub' = k /\ tape' = TapeAfter(hub, k, tape)
  BY DEF EndOfHandler, TapeAfter
<1>2. GameSound(k, tape', sp, toHub, toSpoke)  BY <1>1, GameHubStep
<1>3. TapeOnward(hub, tape, hub', tape')
  <2>1. HubSound(hub) /\ hub.unsent <= k.unsent  BY DEF HubStep
  <2> QED  BY <1>1, <2>1, TapeKept DEF TapeOnward
<1>4. SpokesOnward(sp, sp)  BY NoSpokeOnward
<1>5. CASE ~sends
  <2>1. spoke' = sp /\ toSpoke' = toSpoke  BY <1>5 DEF EndOfHandler
  <2> QED  BY <1>1, <1>2, <1>3, <1>4, <2>1
<1>6. CASE sends
  <2>1. PICK R \in SUBSET (k.connected \cap k.known), room \in Rooms :
          /\ toSpoke' = ChannelsAfter(k, sp, toSpoke, k.connected \cap k.known, R)
          /\ spoke' = IF LocalPlayer \in k.connected
                      THEN [sp EXCEPT ![LocalPlayer] =
                              PacketHeard(@, LocalPlayer, Packet(k, LocalPlayer, LocalPlayer \in R), room)]
                      ELSE sp
    BY <1>6 DEF EndOfHandler, Broadcast, Remote, ChannelsAfter
  <2>2. room \in Nat  BY GameAssumption
  <2>3. k.unsent = k.incomplete  BY <1>6
  <2>4. k.connected \cap k.known \subseteq k.connected  OBVIOUS
  <2>5. GameSound(k, tape', sp, toHub, toSpoke')
    BY <1>2, <2>1, <2>3, <2>4, GameHubSends
  <2>6. CASE LocalPlayer \in k.connected
    <3> DEFINE m == Packet(k, LocalPlayer, LocalPlayer \in R)
    <3>1. /\ HubSound(k) /\ MembersSound(k, DOMAIN sp) /\ TapeSound(k, tape')
          /\ k.connected \subseteq DOMAIN sp
      BY <2>5, GameMembers
    <3>2. LocalPlayer \in DOMAIN sp  BY <2>6, <3>1
    <3>3. LocalPlayer \in Player /\ SpokeSound(k, tape', DOMAIN sp, LocalPlayer, sp[LocalPlayer])
      BY <2>5, <3>2, GameMembers
    <3> HIDE DEF m
    <3>4. m = Packet(k, LocalPlayer, LocalPlayer \in R)  BY DEF m
    <3>5. ToSpokeSound(k, tape', LocalPlayer, sp[LocalPlayer], m)
      BY <2>3, <2>6, <3>1, <3>3, <3>4, FreshPacket
    <3>6. spoke' = [sp EXCEPT ![LocalPlayer] = PacketHeard(sp[LocalPlayer], LocalPlayer, m, room)]
      BY <2>1, <2>6, <3>4
    <3>7. GameSound(k, tape', spoke', toHub, toSpoke') /\ SpokesOnward(sp, spoke')
      BY <2>2, <2>5, <3>2, <3>5, <3>6, GamePacketHeard
    <3> QED  BY <1>1, <1>3, <3>7
  <2>7. CASE LocalPlayer \notin k.connected
    <3>1. spoke' = sp  BY <2>1, <2>7
    <3> QED  BY <1>1, <1>3, <1>4, <2>5, <3>1
  <2> QED  BY <2>6, <2>7
<1> QED  BY <1>5, <1>6

\* hub_received_network_packet.
LEMMA HubReceivesSound ==
  ASSUME NEW sp, DOMAIN sp = DOMAIN spoke, GameSound(hub, tape, sp, toHub, toSpoke),
         NEW p \in DOMAIN sp, NEW m, ToHubSound(hub, p, sp[p], m), HubReceives(p, m, sp)
  PROVE  /\ GameSound(hub', tape', spoke', toHub, toSpoke')
         /\ TapeOnward(hub, tape, hub', tape') /\ SpokesOnward(sp, spoke')
<1>1. HubSound(hub) /\ p \in Player  BY GameMembers
<1>2. CASE ~(hub.active /\ (p = LocalPlayer \/ p \in hub.indexed) /\ p \in hub.connected)
  <2>1. EndOfHandler(hub, sp, FALSE)  BY <1>2 DEF HubReceives
  <2>2. HubStep(hub, hub) /\ AcksReceived(hub, hub, sp)  BY <1>1, HubStutters
  <2> QED  BY <2>1, <2>2, EndOfHandlerSound
<1>3. CASE hub.active /\ (p = LocalPlayer \/ p \in hub.indexed) /\ p \in hub.connected
  <2>1. PICK asked \in Adjustments :
          LET k == GameData(hub, p, m.ack, m.from, m.to, asked)
          IN EndOfHandler(k, sp, k.unsent > hub.unsent)
    BY <1>3 DEF HubReceives
  <2> DEFINE k == GameData(hub, p, m.ack, m.from, m.to, asked)
  <2>2. asked \in Int  BY GameAssumption
  <2>3. /\ m.ack \in Int /\ m.from \in Int /\ m.to \in Int /\ m.from <= m.to
        /\ m.to <= LastTick + 1 /\ m.ack <= hub.unsent /\ m.from <= hub.flags[p].w
        /\ WeAreAlone(sp[p], p) \/ m.ack <= sp[p].unreceived
    BY <1>3 DEF ToHubSound
  <2>4. EndOfHandler(k, sp, k.unsent > hub.unsent)  BY <2>1
  <2> HIDE DEF k
  <2>5. k = GameData(hub, p, m.ack, m.from, m.to, asked)  BY DEF k
  <2>6. /\ HubSound(k) /\ Onward(hub, k) /\ k.connected = hub.connected
        /\ hub.unsent <= k.unsent
        /\ k.unsent = hub.unsent \/ k.unsent = k.incomplete
        /\ AcksKeptBut(hub, k, p, m.ack)
    BY ONLY <1>1, <1>3, <2>2, <2>3, <2>5, GameDataSound
  <2>7. HubStep(hub, k)  BY <1>1, <2>6 DEF HubStep
  <2>8. AcksReceived(hub, k, sp)  BY <2>3, <2>6 DEF AcksReceived, AcksKeptBut
  <2>9. hub.unsent \in Int /\ k.unsent \in Int  BY <1>1, <2>6, HubSoundFields
  <2> DEFINE sends == k.unsent > hub.unsent
  <2>10. sends \in BOOLEAN /\ (sends => k.unsent = k.incomplete)  BY <2>6, <2>9
  <2>11. EndOfHandler(k, sp, sends)  BY <2>4
  <2> HIDE DEF sends
  <2> QED  BY <2>7, <2>8, <2>10, <2>11, EndOfHandlerSound
<1> QED  BY <1>2, <1>3

\* A step of the game decides on no tick twice and takes no spoke back.
GameOnward == TapeOnward(hub, tape, hub', tape') /\ SpokesOnward(spoke, spoke')

\* A step without the hub decides on nothing.
LEMMA NoTapeOnward ==
  ASSUME NEW h, NEW tp, NEW sp, NEW th, NEW ts, GameSound(h, tp, sp, th, ts)
  PROVE  TapeOnward(h, tp, h, tp)
<1>1. h.unsent \in Int  BY GameMembers, HubSoundFields
<1> QED  BY <1>1 DEF TapeOnward

\* hub_tick.
LEMMA HubTickStep ==
  ASSUME GameInv, HubTick
  PROVE  GameInv' /\ GameOnward
<1> DEFINE k == Finished(Checked[NumPlayers].hub, Checked[NumPlayers].send)
           sends == k.sinceSent = 0
<1>1. GameSound(hub, tape, spoke, toHub, toSpoke) /\ HubSound(hub)
  BY GameMembers DEF GameInv
<1>2. EndOfHandler(k, spoke, sends) /\ toHub' = toHub  BY DEF HubTick
<1>3. /\ HubSound(k) /\ Onward(hub, k) /\ hub.unsent <= k.unsent /\ AcksKept(hub, k)
      /\ k.connected = hub.connected \/ k.unsent = k.incomplete
      /\ k.sinceSent = 0 => k.unsent = k.incomplete
  BY <1>1, HubTickSound
<1> HIDE DEF k
<1>4. HubStep(hub, k)  BY <1>1, <1>3 DEF HubStep
<1>5. AcksReceived(hub, k, spoke)  BY <1>3 DEF AcksReceived, AcksKept
<1>6. sends \in BOOLEAN /\ (sends => k.unsent = k.incomplete)  BY <1>3
<1> HIDE DEF sends
<1>7. GameSound(hub', tape', spoke', toHub, toSpoke') /\ GameOnward
  BY <1>1, <1>2, <1>4, <1>5, <1>6, EndOfHandlerSound DEF GameOnward
<1> QED  BY <1>2, <1>7 DEF GameInv

\* A packet arrives at the hub.
LEMMA DeliverToHubStep ==
  ASSUME GameInv, NEW p \in Remote, DeliverToHub(p)
  PROVE  GameInv' /\ GameOnward
<1>1. GameSound(hub, tape, spoke, toHub, toSpoke)  BY DEF GameInv
<1>2. HubSound(hub) /\ p \in DOMAIN spoke \ {LocalPlayer} /\ p \in Player
  BY <1>1, GameMembers DEF Remote
<1>3. PICK m \in Arriving(toHub[p]) :
        /\ IF IsIdent(m)
           THEN hub.active /\ EndOfHandler(Identified(hub, p), spoke, FALSE)
           ELSE HubReceives(p, m, spoke)
        /\ toHub' = toHub
  BY DEF DeliverToHub
<1>4. CASE IsIdent(m)
  <2> DEFINE k == Identified(hub, p)
  <2>1. EndOfHandler(k, spoke, FALSE)  BY <1>3, <1>4
  <2> HIDE DEF k
  <2>2. k = Identified(hub, p)  BY DEF k
  <2>3. /\ HubSound(k) /\ Onward(hub, k) /\ k.unsent = hub.unsent
        /\ k.connected = hub.connected /\ AcksKept(hub, k)
    BY <1>2, <2>2, IdentifiedSound
  <2>4. hub.unsent \in Int  BY <1>2, HubSoundFields
  <2>5. HubStep(hub, k)  BY <1>2, <2>3, <2>4 DEF HubStep
  <2>6. AcksReceived(hub, k, spoke)  BY <2>3 DEF AcksReceived, AcksKept
  <2>7. GameSound(hub', tape', spoke', toHub, toSpoke') /\ GameOnward
    BY <1>1, <2>1, <2>5, <2>6, EndOfHandlerSound DEF GameOnward
  <2> QED  BY <1>3, <2>7 DEF GameInv
<1>5. CASE ~IsIdent(m)
  <2>1. ToHubSound(hub, p, spoke[p], m)  BY <1>1, <1>2, <1>5 DEF GameSound
  <2>2. GameSound(hub', tape', spoke', toHub, toSpoke') /\ GameOnward
    BY <1>1, <1>2, <1>3, <1>5, <2>1, HubReceivesSound DEF GameOnward
  <2> QED  BY <1>3, <2>2 DEF GameInv
<1> QED  BY <1>4, <1>5

\* A packet arrives at a spoke.
LEMMA DeliverToSpokeStep ==
  ASSUME GameInv, NEW p \in Remote, DeliverToSpoke(p)
  PROVE  GameInv' /\ GameOnward
<1>1. GameSound(hub, tape, spoke, toHub, toSpoke)  BY DEF GameInv
<1>2. p \in DOMAIN spoke \ {LocalPlayer}  BY DEF Remote
<1>3. PICK m \in Arriving(toSpoke[p]), room \in Rooms :
        /\ spoke' = [spoke EXCEPT ![p] = PacketHeard(spoke[p], p, m, room)]
        /\ hub' = hub /\ toHub' = toHub /\ toSpoke' = toSpoke /\ tape' = tape
  BY DEF DeliverToSpoke, SpokeReceives
<1>4. ToSpokeSound(hub, tape, p, spoke[p], m)  BY <1>1, <1>2 DEF GameSound
<1>5. room \in Nat  BY GameAssumption
<1>6. GameSound(hub, tape, spoke', toHub, toSpoke) /\ SpokesOnward(spoke, spoke')
  BY <1>1, <1>2, <1>3, <1>4, <1>5, GamePacketHeard
<1>7. TapeOnward(hub, tape, hub', tape')  BY <1>1, <1>3, NoTapeOnward
<1> QED  BY <1>3, <1>6, <1>7 DEF GameInv, GameOnward

\* spoke_tick.
LEMMA SpokeTickStep ==
  ASSUME GameInv, NEW p \in DOMAIN spoke, SpokeTick(p)
  PROVE  GameInv' /\ GameOnward
<1> DEFINE s == spoke[p]
           k == [OnlineTick(s) EXCEPT !.sinceSent = 0]
           packet == SpokePacket(OnlineTick(s))
           Sends == [spoke EXCEPT ![p] = k]
<1>1. GameSound(hub, tape, spoke, toHub, toSpoke)  BY DEF GameInv
<1>2. p \in Player /\ s \in SpokeRecords /\ s.out.w <= LastTick + 1
  BY <1>1, GameMembers
<1>3. hub' = hub /\ tape' = tape => TapeOnward(hub, tape, hub', tape')
  BY <1>1, NoTapeOnward
<1>4. CASE ~s.online
  <2>1. PICK room \in Rooms :
          /\ spoke' = [spoke EXCEPT ![p] = OfflineTick(s, p, room)]
          /\ hub' = hub /\ toHub' = toHub /\ toSpoke' = toSpoke /\ tape' = tape
    BY <1>4 DEF SpokeTick
  <2>2. ByItself(s, OfflineTick(s, p, room))
    BY <1>2, <1>4, GameAssumption, OfflineTickAlone
  <2>3. GameSound(hub, tape, spoke', toHub, toSpoke) /\ SpokesOnward(spoke, spoke')
    BY <1>1, <2>1, <2>2, GameByItself
  <2> QED  BY <1>3, <2>1, <2>3 DEF GameInv, GameOnward
<1>5. CASE s.online /\ HubLost(s)
  <2>1. /\ spoke' = [spoke EXCEPT ![p] = [s EXCEPT !.online = FALSE]]
        /\ hub' = hub /\ toHub' = toHub /\ toSpoke' = toSpoke /\ tape' = tape
    BY <1>5 DEF SpokeTick
  <2>2. ByItself(s, [s EXCEPT !.online = FALSE])  BY <1>2, GivesUpAlone
  <2>3. GameSound(hub, tape, spoke', toHub, toSpoke) /\ SpokesOnward(spoke, spoke')
    BY <1>1, <2>1, <2>2, GameByItself
  <2> QED  BY <1>3, <2>1, <2>3 DEF GameInv, GameOnward
<1>6. CASE s.online /\ ~HubLost(s)
  <2>1. ByItself(s, OnlineTick(s)) /\ ByItself(s, k) /\ SpokePacket(k) = packet
    BY <1>2, OnlineTickAlone
  <2>2. /\ GameSound(hub, tape, [spoke EXCEPT ![p] = OnlineTick(s)], toHub, toSpoke)
        /\ SpokesOnward(spoke, [spoke EXCEPT ![p] = OnlineTick(s)])
        /\ GameSound(hub, tape, [spoke EXCEPT ![p] = k], toHub, toSpoke)
        /\ SpokesOnward(spoke, [spoke EXCEPT ![p] = k])
    BY <1>1, <2>1, GameByItself
  <2>3. DOMAIN Sends = DOMAIN spoke /\ Sends[p] = k  OBVIOUS
  <2>4. GameSound(hub, tape, Sends, toHub, toSpoke) /\ SpokesOnward(spoke, Sends)  BY <2>2
  <2> HIDE DEF k, packet
  <2> HIDE DEF Sends
  <2>5. ToHubSound(hub, p, Sends[p], packet)
    <3>1. SpokeSound(hub, tape, DOMAIN Sends, p, Sends[p])
      BY <2>3, <2>4, GameMembers
    <3> QED  BY <2>1, <2>3, <3>1, SpokePacketSound
  <2>6. CASE SendDue(s) /\ p = LocalPlayer
    <3>1. HubReceives(p, packet, Sends) /\ toHub' = toHub
      BY <1>6, <2>6 DEF SpokeTick, k, packet, Sends
    <3>2. /\ GameSound(hub', tape', spoke', toHub, toSpoke')
          /\ TapeOnward(hub, tape, hub', tape') /\ SpokesOnward(Sends, spoke')
      BY <2>3, <2>4, <2>5, <3>1, HubReceivesSound
    <3>3. SpokesOnward(spoke, spoke')
      BY <1>1, <2>4, <3>2, SpokesOnwardTransitive
    <3> QED  BY <3>1, <3>2, <3>3 DEF GameInv, GameOnward
  <2>7. CASE SendDue(s) /\ p # LocalPlayer
    <3>1. /\ toHub' = [toHub EXCEPT ![p] = After(@, packet)] /\ spoke' = Sends
          /\ hub' = hub /\ toSpoke' = toSpoke /\ tape' = tape
      BY <1>6, <2>7 DEF SpokeTick, k, packet, Sends
    <3>2. p \in DOMAIN Sends \ {LocalPlayer}  BY <2>3, <2>7
    <3>3. GameSound(hub, tape, Sends, toHub', toSpoke)
      BY <2>4, <2>5, <3>1, <3>2, GameSpokeSends
    <3> QED  BY <1>3, <2>4, <3>1, <3>3 DEF GameInv, GameOnward
  <2>8. CASE ~SendDue(s)
    <3> DEFINE Ticked == [spoke EXCEPT ![p] = OnlineTick(s)]
    <3>1. /\ spoke' = Ticked /\ hub' = hub /\ toSpoke' = toSpoke /\ tape' = tape
          /\ IF ~s.heard /\ p # LocalPlayer
             THEN toHub' = [toHub EXCEPT ![p] = After(@, Ident(p))] ELSE toHub' = toHub
      BY <1>6, <2>8 DEF SpokeTick
    <3>2. /\ GameSound(hub, tape, Ticked, toHub, toSpoke) /\ SpokesOnward(spoke, Ticked)
          /\ DOMAIN Ticked = DOMAIN spoke
      BY <2>2
    <3> HIDE DEF Ticked
    <3>3. IsIdent(Ident(p))  BY DEF Ident, IsIdent
    <3>4. CASE ~s.heard /\ p # LocalPlayer
      <4>1. p \in DOMAIN Ticked \ {LocalPlayer}  BY <3>2, <3>4
      <4>2. GameSound(hub, tape, Ticked, [toHub EXCEPT ![p] = After(@, Ident(p))], toSpoke)
        BY <3>2, <3>3, <4>1, GameSpokeSends
      <4> QED  BY <1>3, <3>1, <3>2, <3>4, <4>2 DEF GameInv, GameOnward
    <3>5. CASE ~(~s.heard /\ p # LocalPlayer)
      BY <1>3, <3>1, <3>2, <3>5 DEF GameInv, GameOnward
    <3> QED  BY <3>4, <3>5
  <2> QED  BY <2>6, <2>7, <2>8
<1> QED  BY <1>4, <1>5, <1>6

\* UpdateUnconfirmedActionFlags.
LEMMA UpdateUnconfirmedStep ==
  ASSUME GameInv, NEW p \in DOMAIN spoke, UpdateUnconfirmed(p)
  PROVE  GameInv' /\ GameOnward
<1> DEFINE s == spoke[p]
           k == [s EXCEPT !.unconf = Drop(@, NewlyConfirmed(s))]
<1>1. GameSound(hub, tape, spoke, toHub, toSpoke)  BY DEF GameInv
<1>2. s \in SpokeRecords /\ s.out.w <= LastTick + 1  BY <1>1, GameMembers
<1>3. /\ spoke' = [spoke EXCEPT ![p] = k]
      /\ hub' = hub /\ toHub' = toHub /\ toSpoke' = toSpoke /\ tape' = tape
  BY DEF UpdateUnconfirmed
<1>4. ByItself(s, k)  BY <1>2, ConfirmsAlone
<1> HIDE DEF k
<1>5. GameSound(hub, tape, spoke', toHub, toSpoke) /\ SpokesOnward(spoke, spoke')
  BY <1>1, <1>3, <1>4, GameByItself
<1>6. TapeOnward(hub, tape, hub', tape')  BY <1>1, <1>3, NoTapeOnward
<1> QED  BY <1>3, <1>5, <1>6 DEF GameInv, GameOnward

\* Every step of the game.
LEMMA GameInvNext ==
  ASSUME GameInv, [GameNext]_gvars
  PROVE  GameInv' /\ GameOnward
<1>1. CASE HubTick  BY <1>1, HubTickStep
<1>2. CASE \E p \in DOMAIN spoke : SpokeTick(p) \/ UpdateUnconfirmed(p)
  BY <1>2, SpokeTickStep, UpdateUnconfirmedStep
<1>3. CASE \E p \in Remote : DeliverToHub(p) \/ DeliverToSpoke(p)
  BY <1>3, DeliverToHubStep, DeliverToSpokeStep
<1>4. CASE UNCHANGED gvars
  <2>1. hub' = hub /\ spoke' = spoke /\ toHub' = toHub /\ toSpoke' = toSpoke /\ tape' = tape
    BY <1>4 DEF gvars
  <2>2. GameSound(hub, tape, spoke, toHub, toSpoke)  BY DEF GameInv
  <2>3. TapeOnward(hub, tape, hub, tape) /\ SpokesOnward(spoke, spoke)
    BY <2>2, NoTapeOnward, NoSpokeOnward
  <2> QED  BY <2>1, <2>2, <2>3 DEF GameInv, GameOnward
<1> QED  BY <1>1, <1>2, <1>3, <1>4 DEF GameNext

\* spoke_initialize.
LEMMA InitialSpokeType ==
  ASSUME NEW connected \in SUBSET Player
  PROVE  InitialSpoke(connected) \in SpokeRecords
<1> DEFINE deadTick == [p \in Player |-> FirstTick - 1]
           next == [p \in Player |-> RealTick]
           got == [p \in Player |-> [t \in Ticks |-> "none"]]
<1>1. FirstTick \in Int /\ RealTick \in Int  BY TicksAssumption
<1>2. EmptyAt(FirstTick) \in Queue /\ EmptyAt(RealTick) \in Queue
  BY <1>1 DEF EmptyAt, Queue
<1>3. /\ deadTick \in [Player -> Int] /\ next \in [Player -> Int]
      /\ got \in [Player -> [Ticks -> Decisions \cup {"none"}]]
  BY <1>1
<1> HIDE DEF deadTick, next, got
<1>4. InitialSpoke(connected) = [
        online |-> TRUE, heard |-> FALSE, out |-> EmptyAt(FirstTick),
        unconf |-> EmptyAt(RealTick), confirmed |-> RealTick, unreceived |-> FirstTick,
        peers |-> connected, deadTick |-> deadTick, next |-> next, got |-> got,
        requested |-> 0, outstanding |-> 0, silence |-> 0, sinceSent |-> 0,
        garbled |-> FALSE, broken |-> {} ]
  BY DEF InitialSpoke, deadTick, next, got
<1> QED  BY <1>1, <1>2, <1>3, <1>4 DEF SpokeRecords

\* A new spoke and a new hub know the same.
LEMMA InitialSpokeSound ==
  ASSUME NEW connected \in SUBSET Listed, connected # {}, NEW p \in connected, NEW tp
  PROVE  SpokeSound(Initial(connected), tp, connected, p, InitialSpoke(connected))
<1> DEFINE h == Initial(connected)
           s == InitialSpoke(connected)
<1>1. /\ h.connected = connected /\ h.unsent = FirstTick
      /\ \A q \in Player : /\ h.deadTick[q] = FirstTick - 1 /\ h.ack[q] = FirstTick
                           /\ h.flags[q].w = FirstTick
  BY DEF Initial, EmptyAt
<1>2. /\ s.peers = connected /\ s.garbled = FALSE /\ s.unreceived = FirstTick
      /\ s.out.r = FirstTick /\ s.out.w = FirstTick
      /\ s.broken = {} /\ s.confirmed = RealTick
      /\ s.unconf.r = RealTick /\ s.unconf.w = RealTick
      /\ \A q \in Player : s.deadTick[q] = FirstTick - 1 /\ s.next[q] = RealTick
  BY DEF InitialSpoke, EmptyAt
<1>3. s \in SpokeRecords  BY InitialSpokeType DEF Listed
<1>4. FirstTick \in Int /\ RealTick \in Int /\ LastTick \in Int
      /\ FirstTick < RealTick /\ RealTick <= LastTick
  BY TicksAssumption
<1>5. p \in Player /\ connected \subseteq Player  BY DEF Listed
<1> HIDE DEF h, s
<1>6. PeersSound(h, connected, p, s)
  BY <1>1, <1>2, <1>5 DEF PeersSound, PeerKnown
<1>7. SpokeInWindow(h, p, s)
  BY <1>1, <1>2, <1>4, <1>5 DEF SpokeInWindow
<1>8. SpokePlays(tp, p, s)
  <2>1. \A q \in Listed : s.next[q] = Greatest(s.unreceived, RealTick)
    BY <1>2, <1>4 DEF Listed, Greatest
  <2>2. RealTick .. (s.unreceived - 1) = {}  BY <1>2, <1>4
  <2> QED  BY <2>1, <2>2 DEF SpokePlays
<1>9. SpokeQueues(p, s)
  BY <1>2, <1>4 DEF SpokeQueues, BrokenAlone, InStep, Greatest, Listed
<1> QED  BY <1>3, <1>6, <1>7, <1>8, <1>9 DEF SpokeSound, h, s

\* A game that starts is sound.
LEMMA GameInvInit ==
  ASSUME GameInit
  PROVE  GameInv
<1>1. PICK connected \in SUBSET (Player \ Zombies) :
        /\ connected # {}
        /\ hub = Initial(connected)
        /\ spoke = [p \in connected |-> InitialSpoke(connected)]
        /\ toHub = [p \in connected \ {LocalPlayer} |-> <<>>]
        /\ toSpoke = [p \in connected \ {LocalPlayer} |-> <<>>]
  BY DEF GameInit
<1>2. tape = [t \in Ticks |-> [q \in Player |-> "dead"]]  BY DEF GameInit
<1>3. connected \in SUBSET Listed /\ connected \in SUBSET Player  BY DEF Listed
<1>4. /\ hub.connected = connected /\ hub.unsent = FirstTick
      /\ \A q \in Player : hub.deadTick[q] = FirstTick - 1
  BY <1>1 DEF Initial
<1>5. FirstTick \in Int  BY TicksAssumption
<1>6. HubSound(hub)  BY <1>1, <1>3, InitialSound
<1>7. DOMAIN spoke = connected /\ \A p \in connected : spoke[p] = InitialSpoke(connected)
  BY <1>1
<1>8. MembersSound(hub, connected)
  <2>1. FirstTick - 1 < FirstTick  BY <1>5
  <2> QED  BY <1>3, <1>4, <2>1 DEF MembersSound
<1>9. TapeSound(hub, tape)
  <2>1. \A t \in Ticks : ~(t < hub.unsent)  BY <1>4, <1>5, TicksAssumption DEF Ticks
  <2>2. tape \in [Ticks -> [Player -> Decisions]]  BY <1>2 DEF Decisions
  <2> QED  BY <2>1, <2>2 DEF TapeSound
<1>10. \A p \in connected : SpokeSound(hub, tape, connected, p, spoke[p])
  BY <1>1, <1>3, <1>7, InitialSpokeSound
<1>11. /\ DOMAIN toHub = connected \ {LocalPlayer}
       /\ DOMAIN toSpoke = connected \ {LocalPlayer}
       /\ \A p \in connected \ {LocalPlayer} : toHub[p] = <<>> /\ toSpoke[p] = <<>>
  BY <1>1
<1>12. \A p \in connected \ {LocalPlayer} :
         /\ ChannelSound(toHub[p]) /\ ChannelSound(toSpoke[p])
         /\ Arriving(toHub[p]) = {} /\ Arriving(toSpoke[p]) = {}
  BY <1>11, EmptyChannel
<1> QED
  BY <1>6, <1>7, <1>8, <1>9, <1>10, <1>11, <1>12 DEF GameInv, GameSound

\* Whatever the network does to the packets, hub, spokes and packets in
\* flight fit together.
THEOREM GameStaysSound == GameSpec => []GameInv
<1>1. GameInit => GameInv  BY GameInvInit
<1>2. GameInv /\ [GameNext]_gvars => GameInv'  BY GameInvNext
<1> QED  BY <1>1, <1>2, PTL DEF GameSpec

\* Hub and spokes never disagree about whose flags a packet holds: the check
\* of the packet's length in spoke_received_game_data_packet_v1 ("OOS is
\* likely!") never fails.
THEOREM FlagsAreWhoseTheySeem == GameSpec => []NeverGarbled
<1>1. GameInv => NeverGarbled
  <2> SUFFICES ASSUME GameInv, NEW p \in DOMAIN spoke  PROVE ~spoke[p].garbled
    BY DEF NeverGarbled
  <2>1. SpokeSound(hub, tape, DOMAIN spoke, p, spoke[p])  BY GameMembers DEF GameInv
  <2> QED  BY <2>1 DEF SpokeSound, PeersSound
<1> QED  BY <1>1, GameStaysSound, PTL

\* The assertions of spoke_received_game_data_packet_v1 hold, but for the one
\* that a player alone can break.
THEOREM AssertionsHoldInPlay == GameSpec => []AssertionsHoldInCompany
<1>1. GameInv => AssertionsHoldInCompany
  <2> SUFFICES ASSUME GameInv, NEW p \in DOMAIN spoke  PROVE BrokenAlone(p, spoke[p])
    BY DEF AssertionsHoldInCompany, BrokenAlone
  <2>1. SpokeSound(hub, tape, DOMAIN spoke, p, spoke[p])  BY GameMembers DEF GameInv
  <2> QED  BY <2>1 DEF SpokeSound, SpokeQueues
<1> QED  BY <1>1, GameStaysSound, PTL

\* Packets to the hub, delayed and repeated ones as well, acknowledge what the
\* hub has sent and leave no gap in the player's flags: the packets that
\* hub_received_game_data_packet_v1 is proved correct for (module StarHub).
THEOREM PacketsAreHonest == GameSpec => []HonestPackets
<1>1. GameInv => HonestPackets
  <2> SUFFICES ASSUME GameInv, NEW p \in Remote \cap hub.connected,
                      NEW m \in Arriving(toHub[p]), ~IsIdent(m)
               PROVE  m.ack <= hub.unsent /\ m.from <= hub.flags[p].w
    BY DEF HonestPackets
  <2>1. ToHubSound(hub, p, spoke[p], m)  BY DEF GameInv, GameSound, Remote
  <2> QED  BY <2>1 DEF ToHubSound
<1> QED  BY <1>1, GameStaysSound, PTL

\* A spoke that is not on its own has received, and plays, what was decided.
LEMMA SameGameHolds ==
  ASSUME NEW h, NEW tp, NEW sp, NEW th, NEW ts, GameSound(h, tp, sp, th, ts),
         NEW p \in DOMAIN sp, sp[p].online, ~WeAreAlone(sp[p], p)
  PROVE  /\ sp[p].unreceived <= h.unsent
         /\ \A t \in RealTick .. (sp[p].unreceived - 1), q \in Listed :
              sp[p].got[q][t] = tp[t][q]
<1>1. SpokeSound(h, tp, DOMAIN sp, p, sp[p])  BY GameMembers
<1>2. SpokeInWindow(h, p, sp[p]) /\ SpokePlays(tp, p, sp[p])  BY <1>1 DEF SpokeSound
<1> QED  BY <1>2 DEF SpokeInWindow, SpokePlays

\* The flags that hub and spokes hand to the games are the same ones for every
\* player that is not on its own, and they are those the hub has decided on:
\* the game is never out of sync.
THEOREM GameStaysInSync == GameSpec => []SameGame
<1>1. GameInv => SameGame
  BY SameGameHolds DEF GameInv, SameGame, OnItsOwn
<1> QED  BY <1>1, GameStaysSound, PTL

----------------------------------------------------------------------------
(* The game implements Lockstep.                                            *)

\* DecidedTicks and PlayedTicks as functions of the hub and of a spoke.
DecidedBy(h, tp) ==
  [i \in 1 .. Greatest(h.unsent - RealTick, 0) |-> tp[RealTick + i - 1]]
PlayedBy(s) ==
  [i \in 1 .. Greatest(s.unreceived - RealTick, 0) |->
     [q \in Player |-> IF q \in Listed THEN s.got[q][RealTick + i - 1] ELSE "dead"]]

\* m decisions s are the first of n decisions t.
Begins(m, n, s, t) ==
  /\ m \in Nat /\ n \in Nat /\ m <= n
  /\ s \in [1 .. m -> [Player -> Decisions]] /\ t \in [1 .. n -> [Player -> Decisions]]
  /\ \A i \in 1 .. m : s[i] = t[i]

\* That is what it is for a sequence to be the prefix of another.
LEMMA PrefixOf ==
  ASSUME NEW m, NEW n, NEW s, NEW t, Begins(m, n, s, t)
  PROVE  Promise!IsPrefix(s, t)
<1> DEFINE S == [Player -> Decisions]
<1>1. /\ m \in Nat /\ n \in Nat /\ m <= n /\ s \in [1 .. m -> S] /\ t \in [1 .. n -> S]
      /\ \A i \in 1 .. m : s[i] = t[i]
  BY DEF Begins
<1> HIDE DEF S
<1>2. s \in Seq(S) /\ t \in Seq(S) /\ Len(s) = m /\ Len(t) = n
  BY <1>1, SeqDef
<1>3. \A i \in 1 .. m : s[i] \in S /\ t[i] \in S  BY <1>1
<1>4. /\ SubSeq(s, 1, m) \in Seq(S) /\ SubSeq(t, 1, m) \in Seq(S)
      /\ Len(SubSeq(s, 1, m)) = m /\ Len(SubSeq(t, 1, m)) = m
      /\ \A i \in 1 .. m : SubSeq(s, 1, m)[i] = s[i] /\ SubSeq(t, 1, m)[i] = t[i]
  BY <1>1, <1>2, <1>3, SubSeqProperties
<1>5. SubSeq(s, 1, m) = SubSeq(t, 1, m)  BY <1>1, <1>4, SeqEqual
<1> QED  BY <1>1, <1>2, <1>5 DEF Promise!IsPrefix

\* The decisions are those of the ticks sent, from the first real one on.
LEMMA DecidedType ==
  ASSUME NEW h, HubSound(h), NEW tp, TapeSound(h, tp)
  PROVE  LET n == Greatest(h.unsent - RealTick, 0)
         IN /\ n \in Nat /\ DecidedBy(h, tp) \in [1 .. n -> [Player -> Decisions]]
            /\ \A i \in 1 .. n : /\ RealTick + i - 1 \in Ticks /\ RealTick + i - 1 < h.unsent
                                 /\ DecidedBy(h, tp)[i] = tp[RealTick + i - 1]
<1> DEFINE n == Greatest(h.unsent - RealTick, 0)
<1>1. h.unsent \in Int /\ h.unsent <= LastTick + 1
  <2>1. /\ h.unsent \in Int /\ h.incomplete \in Int /\ h.disp.w \in Int
        /\ h.unsent <= h.incomplete /\ h.incomplete <= h.disp.w /\ h.disp.w <= LastTick + 1
    BY HubSoundFields
  <2> QED  BY <2>1, TicksAssumption
<1>2. n \in Nat /\ \A i \in 1 .. n : RealTick + i - 1 \in Ticks /\ RealTick + i - 1 < h.unsent
  BY <1>1, TicksAssumption DEF Greatest, Ticks
<1>3. DecidedBy(h, tp) = [i \in 1 .. n |-> tp[RealTick + i - 1]]  BY DEF DecidedBy
<1> HIDE DEF n
<1>4. \A t \in Ticks : tp[t] \in [Player -> Decisions]  BY DEF TapeSound
<1>5. \A i \in 1 .. n : DecidedBy(h, tp)[i] = tp[RealTick + i - 1]  BY <1>3
<1>6. DecidedBy(h, tp) \in [1 .. n -> [Player -> Decisions]]  BY <1>2, <1>3, <1>4
<1> QED  BY <1>2, <1>5, <1>6 DEF n

\* A dead player stays dead.
LEMMA DeadOnTape ==
  ASSUME NEW h, NEW tp, NEW S, HubSound(h), TapeSound(h, tp)
  PROVE  Promise!DeadStayDead(DecidedBy(h, tp))
<1> DEFINE n == Greatest(h.unsent - RealTick, 0)
           d == DecidedBy(h, tp)
<1>1. /\ n \in Nat /\ d \in [1 .. n -> [Player -> Decisions]]
      /\ \A i \in 1 .. n : /\ RealTick + i - 1 \in Ticks /\ RealTick + i - 1 < h.unsent
                           /\ d[i] = tp[RealTick + i - 1]
  BY DecidedType
<1> HIDE DEF n, d
<1>2. ASSUME NEW i \in 1 .. n, NEW q \in Player, i > 1, d[i - 1][q] = "dead"
      PROVE  d[i][q] = "dead"
  <2>1. i \in Int /\ i - 1 \in 1 .. n  BY <1>1, <1>2
  <2> DEFINE t == RealTick + i - 1
             u == RealTick + (i - 1) - 1
  <2>2. /\ t \in Ticks /\ t < h.unsent /\ d[i] = tp[t]
        /\ u \in Ticks /\ u < h.unsent /\ d[i - 1] = tp[u]
    BY <1>1, <2>1
  <2>3. t \in Int /\ u \in Int /\ u <= t /\ h.deadTick[q] \in Int
    BY <2>1, TicksAssumption, HubSoundFields
  <2> HIDE DEF t, u
  <2>4. Decided(h, tp, t, q) /\ Decided(h, tp, u, q)  BY <2>2 DEF TapeSound
  <2>5. q \notin h.connected /\ h.deadTick[q] <= u  BY <1>2, <2>2, <2>4 DEF Decided
  <2>6. h.deadTick[q] <= t  BY <2>3, <2>5
  <2> QED  BY <2>2, <2>4, <2>5, <2>6 DEF Decided
<1>3. DOMAIN d = 1 .. n  BY <1>1
<1> QED  BY <1>2, <1>3 DEF Promise!DeadStayDead, d

\* Who is not on its own plays what was decided.
LEMMA PlayedAsDecided ==
  ASSUME NEW h, NEW tp, NEW sp, NEW th, NEW ts, GameSound(h, tp, sp, th, ts),
         NEW p \in DOMAIN sp, sp[p].online, ~WeAreAlone(sp[p], p)
  PROVE  LET n == Greatest(sp[p].unreceived - RealTick, 0)
         IN /\ n \in Nat /\ n <= Greatest(h.unsent - RealTick, 0)
            /\ PlayedBy(sp[p]) \in [1 .. n -> [Player -> Decisions]]
            /\ \A i \in 1 .. n : PlayedBy(sp[p])[i] = tp[RealTick + i - 1]
<1> DEFINE s == sp[p]
           n == Greatest(s.unreceived - RealTick, 0)
           Flags(t) == [q \in Player |-> IF q \in Listed THEN s.got[q][t] ELSE "dead"]
<1>1. /\ HubSound(h) /\ MembersSound(h, DOMAIN sp) /\ TapeSound(h, tp)
      /\ s \in SpokeRecords /\ s.unreceived \in Int /\ h.connected \subseteq DOMAIN sp
  BY GameMembers
<1>2. /\ s.unreceived <= h.unsent
      /\ \A t \in RealTick .. (s.unreceived - 1), q \in Listed : s.got[q][t] = tp[t][q]
  BY SameGameHolds
<1>3. h.unsent \in Int /\ \A q \in Player : h.deadTick[q] \in Int  BY <1>1, HubSoundFields
<1>4. RealTick \in Int /\ FirstTick \in Int /\ FirstTick < RealTick  BY TicksAssumption
<1>5. /\ n \in Nat /\ n <= Greatest(h.unsent - RealTick, 0)
      /\ \A i \in 1 .. n : RealTick + i - 1 \in RealTick .. (s.unreceived - 1)
                           /\ i \in 1 .. Greatest(h.unsent - RealTick, 0)
  BY <1>1, <1>2, <1>3, <1>4 DEF Greatest
<1>6. PlayedBy(s) = [i \in 1 .. n |-> Flags(RealTick + i - 1)]  BY DEF PlayedBy
<1> HIDE DEF n
<1>7. ASSUME NEW i \in 1 .. n
      PROVE  /\ Flags(RealTick + i - 1) = tp[RealTick + i - 1]
             /\ tp[RealTick + i - 1] \in [Player -> Decisions]
  <2> DEFINE t == RealTick + i - 1
  <2>1. t \in Ticks /\ t < h.unsent  BY <1>1, <1>5, DecidedType
  <2>2. t \in RealTick .. (s.unreceived - 1)  BY <1>5
  <2>3. t \in Int /\ FirstTick <= t  BY <1>4, <2>2
  <2> HIDE DEF t
  <2>4. tp[t] \in [Player -> Decisions]  BY <1>1, <2>1 DEF TapeSound
  <2>5. ASSUME NEW q \in Player  PROVE Flags(t)[q] = tp[t][q]
    <3>1. CASE q \in Listed  BY <1>2, <2>2, <3>1
    <3>2. CASE q \notin Listed
      <4>1. q \notin DOMAIN sp  BY <1>1, <3>2 DEF MembersSound
      <4>2. q \notin h.connected /\ h.deadTick[q] < FirstTick
        BY <1>1, <4>1 DEF MembersSound
      <4>3. h.deadTick[q] <= t  BY <1>3, <1>4, <2>3, <4>2
      <4>4. Decided(h, tp, t, q)  BY <1>1, <2>1 DEF TapeSound
      <4>5. tp[t][q] = "dead"  BY <4>2, <4>3, <4>4 DEF Decided
      <4> QED  BY <3>2, <4>5
    <3> QED  BY <3>1, <3>2
  <2>6. Flags(t) = tp[t]  BY <2>4, <2>5
  <2> HIDE DEF Flags
  <2> QED  BY <2>4, <2>6 DEF t
<1> HIDE DEF Flags
<1>8. PlayedBy(s) \in [1 .. n -> [Player -> Decisions]]  BY <1>6, <1>7
<1>9. \A i \in 1 .. n : PlayedBy(s)[i] = tp[RealTick + i - 1]  BY <1>6, <1>7
<1> QED  BY <1>5, <1>8, <1>9 DEF n

\* The hub decides on more.
LEMMA DecidedGrows ==
  ASSUME NEW h, NEW tp, NEW k, NEW tq, HubSound(h), TapeSound(h, tp), HubSound(k),
         TapeSound(k, tq), TapeOnward(h, tp, k, tq)
  PROVE  Promise!IsPrefix(DecidedBy(h, tp), DecidedBy(k, tq))
<1> DEFINE m == Greatest(h.unsent - RealTick, 0)
           n == Greatest(k.unsent - RealTick, 0)
           s == DecidedBy(h, tp)
           t == DecidedBy(k, tq)
<1>1. /\ m \in Nat /\ s \in [1 .. m -> [Player -> Decisions]]
      /\ \A i \in 1 .. m : /\ RealTick + i - 1 \in Ticks /\ RealTick + i - 1 < h.unsent
                           /\ s[i] = tp[RealTick + i - 1]
  BY DecidedType
<1>2. /\ n \in Nat /\ t \in [1 .. n -> [Player -> Decisions]]
      /\ \A i \in 1 .. n : t[i] = tq[RealTick + i - 1]
  BY DecidedType
<1>3. m <= n
  <2>1. h.unsent \in Int /\ k.unsent \in Int /\ h.unsent <= k.unsent
    BY HubSoundFields DEF TapeOnward
  <2> QED  BY <2>1, TicksAssumption DEF Greatest
<1> HIDE DEF m, n, s, t
<1>4. \A i \in 1 .. m : s[i] = t[i]
  <2> SUFFICES ASSUME NEW i \in 1 .. m  PROVE s[i] = t[i]  OBVIOUS
  <2>1. i \in 1 .. n  BY <1>1, <1>2, <1>3
  <2>2. tq[RealTick + i - 1] = tp[RealTick + i - 1]  BY <1>1 DEF TapeOnward
  <2> QED  BY <1>1, <1>2, <2>1, <2>2
<1>5. Begins(m, n, s, t)  BY <1>1, <1>2, <1>3, <1>4 DEF Begins
<1>6. Promise!IsPrefix(s, t)  BY <1>5, PrefixOf
<1> QED  BY <1>6 DEF s, t

\* Who is not on its own goes on with what was decided.
LEMMA PlayedGrows ==
  ASSUME NEW h, NEW tp, NEW sp, NEW th, NEW ts, GameSound(h, tp, sp, th, ts),
         NEW k, NEW tq, NEW sq, NEW ti, NEW tj, GameSound(k, tq, sq, ti, tj),
         TapeOnward(h, tp, k, tq), SpokesOnward(sp, sq),
         NEW p \in DOMAIN sp, sq[p].online, ~WeAreAlone(sq[p], p)
  PROVE  /\ Promise!IsPrefix(PlayedBy(sp[p]), PlayedBy(sq[p]))
         /\ Promise!IsPrefix(PlayedBy(sq[p]), DecidedBy(k, tq))
<1> DEFINE l == Greatest(sp[p].unreceived - RealTick, 0)
           m == Greatest(sq[p].unreceived - RealTick, 0)
           n == Greatest(k.unsent - RealTick, 0)
           s == PlayedBy(sp[p])
           t == PlayedBy(sq[p])
           d == DecidedBy(k, tq)
<1>1. /\ p \in DOMAIN sq /\ sp[p].online /\ ~WeAreAlone(sp[p], p)
      /\ sp[p].unreceived <= sq[p].unreceived
  BY DEF SpokesOnward, SpokeOnward
<1>2. /\ HubSound(h) /\ TapeSound(h, tp) /\ HubSound(k) /\ TapeSound(k, tq)
      /\ sp[p].unreceived \in Int /\ sq[p].unreceived \in Int
  BY <1>1, GameMembers
<1>3. /\ l \in Nat /\ l <= Greatest(h.unsent - RealTick, 0)
      /\ s \in [1 .. l -> [Player -> Decisions]]
      /\ \A i \in 1 .. l : s[i] = tp[RealTick + i - 1]
  BY <1>1, PlayedAsDecided
<1>4. /\ m \in Nat /\ m <= n /\ t \in [1 .. m -> [Player -> Decisions]]
      /\ \A i \in 1 .. m : t[i] = tq[RealTick + i - 1]
  BY <1>1, PlayedAsDecided
<1>5. /\ n \in Nat /\ d \in [1 .. n -> [Player -> Decisions]]
      /\ \A i \in 1 .. n : d[i] = tq[RealTick + i - 1]
  BY <1>2, DecidedType
<1>6. l <= m  BY <1>1, <1>2, TicksAssumption DEF Greatest
<1>7. \A i \in 1 .. l : tq[RealTick + i - 1] = tp[RealTick + i - 1]
  <2> DEFINE o == Greatest(h.unsent - RealTick, 0)
  <2>1. o \in Nat /\ \A i \in 1 .. o : RealTick + i - 1 \in Ticks /\ RealTick + i - 1 < h.unsent
    BY <1>2, DecidedType
  <2>2. l <= o  BY <1>3
  <2> HIDE DEF l, o
  <2>3. \A i \in 1 .. l : i \in 1 .. o  BY <1>3, <2>1, <2>2
  <2> QED  BY <2>1, <2>3 DEF TapeOnward
<1> HIDE DEF l, m, n, s, t, d
<1>8. \A i \in 1 .. l : s[i] = t[i]
  <2> SUFFICES ASSUME NEW i \in 1 .. l  PROVE s[i] = t[i]  OBVIOUS
  <2>1. i \in 1 .. m  BY <1>3, <1>4, <1>6
  <2> QED  BY <1>3, <1>4, <1>7, <2>1
<1>9. \A i \in 1 .. m : t[i] = d[i]
  <2> SUFFICES ASSUME NEW i \in 1 .. m  PROVE t[i] = d[i]  OBVIOUS
  <2>1. i \in 1 .. n  BY <1>4, <1>5
  <2> QED  BY <1>4, <1>5, <2>1
<1>10. Begins(l, m, s, t)  BY <1>3, <1>4, <1>6, <1>8 DEF Begins
<1>11. Begins(m, n, t, d)  BY <1>4, <1>5, <1>9 DEF Begins
<1>12. Promise!IsPrefix(s, t) /\ Promise!IsPrefix(t, d)  BY <1>10, <1>11, PrefixOf
<1> QED  BY <1>12 DEF s, t, d

\* When the game starts, nothing is decided yet.
LEMMA LockstepStarts ==
  ASSUME GameInit
  PROVE  Promise!Init
<1>1. PICK connected \in SUBSET (Player \ Zombies) :
        /\ hub = Initial(connected)
        /\ spoke = [p \in connected |-> InitialSpoke(connected)]
  BY DEF GameInit
<1>2. hub.unsent = FirstTick  BY <1>1 DEF Initial
<1>3. \A p \in DOMAIN spoke : spoke[p].unreceived = FirstTick
  BY <1>1 DEF InitialSpoke
<1>4. Greatest(FirstTick - RealTick, 0) = 0  BY TicksAssumption DEF Greatest
<1>5. ASSUME NEW f, DOMAIN f = 1 .. 0, f = [i \in 1 .. 0 |-> f[i]]  PROVE f = <<>>
  <2>1. f \in [1 .. 0 -> {}]  BY <1>5
  <2>2. f \in Seq({}) /\ Len(f) = 0  BY <2>1, SeqDef
  <2> QED  BY <2>2, EmptySeq
<1>6. DecidedTicks = <<>>
  <2>1. DOMAIN DecidedTicks = 1 .. 0  BY <1>2, <1>4 DEF DecidedTicks
  <2>2. DecidedTicks = [i \in 1 .. 0 |-> DecidedTicks[i]]
    BY <1>2, <1>4 DEF DecidedTicks
  <2> QED  BY <1>5, <2>1, <2>2
<1>7. ASSUME NEW p \in DOMAIN spoke  PROVE PlayedTicks(p) = <<>>
  <2>1. DOMAIN PlayedTicks(p) = 1 .. 0  BY <1>3, <1>4 DEF PlayedTicks
  <2>2. PlayedTicks(p) = [i \in 1 .. 0 |-> PlayedTicks(p)[i]]
    BY <1>3, <1>4 DEF PlayedTicks
  <2> QED  BY <1>5, <2>1, <2>2
<1>8. [p \in Player |-> IF p \in DOMAIN spoke THEN PlayedTicks(p) ELSE <<>>]
        = [p \in Player |-> <<>>]
  BY <1>7
<1>9. {p \in Player : p \in DOMAIN spoke => OnItsOwn(p)} \subseteq Player  OBVIOUS
<1> QED  BY <1>6, <1>8, <1>9 DEF Promise!Init

\* Every step is one of Lockstep.
LEMMA LockstepGoesOn ==
  ASSUME GameInv, GameInv', GameOnward
  PROVE  Promise!Next
<1>1. /\ GameSound(hub, tape, spoke, toHub, toSpoke)
      /\ GameSound(hub', tape', spoke', toHub', toSpoke')
      /\ TapeOnward(hub, tape, hub', tape') /\ SpokesOnward(spoke, spoke')
  BY DEF GameInv, GameOnward
<1>2. /\ HubSound(hub) /\ TapeSound(hub, tape) /\ HubSound(hub') /\ TapeSound(hub', tape')
      /\ DOMAIN spoke \subseteq Player
  BY <1>1, GameMembers
<1>3. DOMAIN spoke' = DOMAIN spoke  BY <1>1 DEF SpokesOnward
<1>4. DecidedTicks = DecidedBy(hub, tape) /\ DecidedTicks' = DecidedBy(hub', tape')
  BY DEF DecidedTicks, DecidedBy
<1>5. \A p \in DOMAIN spoke :
        PlayedTicks(p) = PlayedBy(spoke[p]) /\ PlayedTicks(p)' = PlayedBy(spoke'[p])
  BY DEF PlayedTicks, PlayedBy
<1>6. \A p \in DOMAIN spoke :
        /\ OnItsOwn(p) <=> ~(spoke[p].online /\ ~WeAreAlone(spoke[p], p))
        /\ OnItsOwn(p)' <=> ~(spoke'[p].online /\ ~WeAreAlone(spoke'[p], p))
  BY DEF OnItsOwn
<1>7. Promise!IsPrefix(DecidedTicks, DecidedTicks')
  BY <1>1, <1>2, <1>4, DecidedGrows
<1>8. Promise!DeadStayDead(DecidedTicks')  BY <1>2, <1>4, DeadOnTape
<1> DEFINE left == {p \in Player : p \in DOMAIN spoke => OnItsOwn(p)}
           played == [p \in Player |-> IF p \in DOMAIN spoke THEN PlayedTicks(p) ELSE <<>>]
<1>9. left \subseteq left'
  <2>1. \A p \in DOMAIN spoke : OnItsOwn(p) => OnItsOwn(p)'
    BY <1>1, <1>6 DEF SpokesOnward, SpokeOnward
  <2> QED  BY <1>3, <2>1
<1>10. \A p \in Player \ left' :
         Promise!IsPrefix(played[p], played'[p]) /\ Promise!IsPrefix(played'[p], DecidedTicks')
  <2> SUFFICES ASSUME NEW p \in Player \ left'
               PROVE  /\ Promise!IsPrefix(played[p], played'[p])
                      /\ Promise!IsPrefix(played'[p], DecidedTicks')
    OBVIOUS
  <2>1. p \in DOMAIN spoke /\ ~OnItsOwn(p)'  BY <1>3
  <2>2. played[p] = PlayedBy(spoke[p]) /\ played'[p] = PlayedBy(spoke'[p])
    BY <1>3, <1>5, <2>1
  <2>3. spoke'[p].online /\ ~WeAreAlone(spoke'[p], p)  BY <1>6, <2>1
  <2> HIDE DEF played
  <2>4. /\ Promise!IsPrefix(PlayedBy(spoke[p]), PlayedBy(spoke'[p]))
        /\ Promise!IsPrefix(PlayedBy(spoke'[p]), DecidedBy(hub', tape'))
    BY <1>1, <2>1, <2>3, PlayedGrows
  <2> QED  BY <1>4, <2>2, <2>4
<1> QED  BY <1>7, <1>8, <1>9, <1>10 DEF Promise!Next

\* What the protocol promises: one sequence of decisions, in which the dead
\* stay dead, and of which everyone who is not on its own has got a beginning,
\* however packets are lost, delayed, repeated and reordered, whoever dies and
\* whoever flags are made up for.
THEOREM GameIsLockstep == GameSpec => ImplementsLockstep
<1>1. GameInit => Promise!Init  BY LockstepStarts
<1>2. GameInit => GameInv  BY GameInvInit
<1>3. GameInv /\ [GameNext]_gvars => GameInv' /\ Promise!Next
  BY GameInvNext, LockstepGoesOn
<1> QED  BY <1>1, <1>2, <1>3, PTL DEF GameSpec, ImplementsLockstep, Promise!Spec
=============================================================================
