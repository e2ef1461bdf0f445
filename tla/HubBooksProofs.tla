--------------------------- MODULE HubBooksProofs ---------------------------
(* Lemmas about the books the hub keeps while it waits for flags and        *)
(* acknowledgements: the windows of its queues, the masks of who is being   *)
(* waited for and the marks of the flags it made up. Every function of      *)
(* module HubState keeps them in order; between the two halves of           *)
(* make_player_netdead, when the dead player is no longer connected but     *)
(* still in the masks, they are in the order that the second half needs.    *)
(* The functions also go onward: ticks stay complete, flags that were       *)
(* entered stay what they are, acknowledgements only grow, a player that    *)
(* leaves keeps its flags up to the ticks that were complete, and the hub   *)
(* stops only when nobody's acknowledgement is waited for. Going onward is  *)
(* transitive, so what holds of the functions holds of the handlers.        *)
EXTENDS HubStateProofs

----------------------------------------------------------------------------
(* The books.                                                               *)

\* The housekeeping queues hold the same window of ticks, of which the hub
\* has sent some and completed some more.
WindowsOrdered(h) ==
  /\ FirstTick <= h.disp.r /\ h.disp.r <= h.unsent /\ h.unsent <= h.incomplete
  /\ h.incomplete <= h.disp.w /\ h.disp.w <= h.disp.r + Capacity
  /\ h.reflect = h.disp
  /\ h.sendTime = [r |-> h.disp.r, w |-> h.unsent]

\* A player's queue starts with theirs, or ends before; a dead player's
\* still has the flags it died with, and a connected one's flags reach the
\* first incomplete tick.
QueueInWindow(h, p) ==
  /\ h.flags[p].r = Least(h.flags[p].w, h.disp.r)
  /\ h.flags[p].w <= h.disp.w
  /\ h.deadTick[p] <= h.flags[p].w
  /\ p \in h.connected => h.incomplete <= h.flags[p].w
FlagsInWindow(h) == \A p \in Player : QueueInWindow(h, p)

\* Connected players acknowledge ticks of the window that were sent.
AckInWindow(h, p) == h.disp.r <= h.ack[p] /\ h.ack[p] <= h.unsent
AcksInWindow(h) == \A p \in h.connected : AckInWindow(h, p)

\* Complete ticks wait for acknowledgements, the others for flags.
AcksAwaited(h) ==
  \A t \in h.disp.r .. (h.incomplete - 1) :
    /\ h.awaited[t] = {p \in h.connected : h.ack[p] <= t}
    /\ h.awaited[t] # {}
FlagsAwaited(h) ==
  \A t \in h.incomplete .. (h.disp.w - 1) :
    /\ h.awaited[t] = {p \in h.connected : h.flags[p].w <= t}
    /\ h.awaited[t] # {}

\* The ticks whose flags are reflected to a player are those that the hub
\* made up for it, and for the player on its own machine it makes up none.
MadeUpTold(h) ==
  \A p \in Player, t \in Ticks :
    h.disp.r <= t => /\ p \in h.reflected[t] <=> t \in h.made[p]
                     /\ p = LocalPlayer => t \notin h.made[p]

OneAssertion(h) == h.broken \subseteq {963}

InOrder(h) ==
  /\ WindowsOrdered(h) /\ FlagsInWindow(h) /\ AcksInWindow(h)
  /\ AcksAwaited(h) /\ FlagsAwaited(h) /\ MadeUpTold(h) /\ OneAssertion(h)

\* Nobody looks at the books any more when nobody is connected.
Books(h) == h.connected # {} => InOrder(h)

\* The types of the fields that the books are about.
LEMMA HubFields ==
  ASSUME NEW h \in HubRecords
  PROVE  /\ h.connected \in SUBSET Player
         /\ h.ack \in [Player -> Int] /\ h.deadTick \in [Player -> Int]
         /\ h.flags \in [Player -> Queue] /\ h.made \in [Player -> SUBSET Ticks]
         /\ h.awaited \in [Ticks -> SUBSET Player]
         /\ h.reflected \in [Ticks -> SUBSET Player]
         /\ h.disp \in Queue /\ h.reflect \in Queue /\ h.sendTime \in Queue
         /\ h.disp.r \in Int /\ h.disp.w \in Int
         /\ h.incomplete \in Int /\ h.unsent \in Int
         /\ h.broken \in SUBSET Lines
         /\ \A p \in Player : h.flags[p].r \in Int /\ h.flags[p].w \in Int
BY DEF HubRecords, Queue

\* A queue is its two ends.
LEMMA QueueEnds ==
  ASSUME NEW q \in Queue
  PROVE  q.r \in Int /\ q.w \in Int /\ q = [r |-> q.r, w |-> q.w]
BY DEF Queue

----------------------------------------------------------------------------
(* player_acknowledged_up_to_tick.                                          *)

\* Who is awaited when p has not been struck off the ticks before the given
\* one: p may be dead.
AwaitedUntil(h, p, tick) ==
  \A t \in h.disp.r .. (h.incomplete - 1) :
    /\ h.awaited[t] = {q \in Player : /\ q \in h.connected \/ (q = p /\ t < tick)
                                      /\ h.ack[q] <= t}
    /\ h.awaited[t] # {}

\* The ticks that leave the queues are the oldest ones, so the assertions
\* about them hold; what stays is in order.
LEMMA AcknowledgedCount ==
  ASSUME NEW h \in BoundedHubs, NEW p \in Player, NEW tick \in Int,
         h.disp.r <= h.ack[p], h.ack[p] <= tick, tick <= h.incomplete,
         WindowsOrdered(h), AwaitedUntil(h, p, tick)
  PROVE  /\ Count(h, p, tick) \in Nat
         /\ Done(h, p, tick) = h.disp.r .. (h.disp.r + Count(h, p, tick) - 1)
         /\ h.disp.r + Count(h, p, tick) <= tick
         /\ \A q \in h.connected \ {p} : AckInWindow(h, q) => h.disp.r + Count(h, p, tick) <= h.ack[q]
<1>1. /\ h \in HubRecords /\ h.ack[p] \in Int /\ h.disp.r \in Int /\ h.incomplete \in Int
      /\ h.disp.w \in Int /\ h.disp.w <= LastTick + 1 /\ FirstTick <= h.disp.r
      /\ h.incomplete <= h.disp.w
      /\ h.connected \in SUBSET Player /\ \A q \in Player : h.ack[q] \in Int
  BY HubFields DEF BoundedHubs, WindowsOrdered
<1>2. /\ (h.ack[p] .. (tick - 1)) \subseteq Ticks
      /\ (h.ack[p] .. (tick - 1)) \subseteq (h.disp.r .. (h.incomplete - 1))
  BY <1>1, TicksAssumption DEF Ticks
<1>3. \A t \in h.ack[p] .. (tick - 1) :
        Struck(h, p, tick)[t] = {q \in h.connected \ {p} : h.ack[q] <= t}
  <2> SUFFICES ASSUME NEW t \in h.ack[p] .. (tick - 1)
               PROVE  Struck(h, p, tick)[t] = {q \in h.connected \ {p} : h.ack[q] <= t}
    OBVIOUS
  <2>1. Struck(h, p, tick)[t] = h.awaited[t] \ {p}
    BY <1>2 DEF Struck
  <2>2. h.awaited[t] = {q \in Player : /\ q \in h.connected \/ (q = p /\ t < tick)
                                      /\ h.ack[q] <= t}
    BY <1>2 DEF AwaitedUntil
  <2> QED  BY ONLY <2>1, <2>2, <1>1
<1> DEFINE S == Done(h, p, tick)
<1>4. S = {t \in h.ack[p] .. (tick - 1) : \A q \in h.connected \ {p} : ~(h.ack[q] <= t)}
  BY <1>3 DEF Done
<1> HIDE DEF S
<1>5. S # {} => h.ack[p] = h.disp.r
  <2> SUFFICES ASSUME NEW t \in S, h.disp.r < h.ack[p]  PROVE FALSE
    BY <1>1
  <2>0. t \in Int /\ h.ack[p] <= t /\ t < tick  BY <1>1, <1>4
  <2>1. h.disp.r \in h.disp.r .. (h.incomplete - 1)
    BY <1>1, <2>0
  <2>2. /\ h.awaited[h.disp.r] # {}
        /\ h.awaited[h.disp.r] = {q \in Player : /\ q \in h.connected \/ (q = p /\ h.disp.r < tick)
                                                 /\ h.ack[q] <= h.disp.r}
    BY <2>1 DEF AwaitedUntil
  <2>3. PICK q \in Player : (q \in h.connected \/ q = p) /\ h.ack[q] <= h.disp.r
    BY <2>2
  <2>4. q # p /\ q \in h.connected \ {p} /\ h.ack[q] <= t
    BY <1>1, <2>0, <2>3
  <2> QED  BY <1>4, <2>4
<1>6. \A t \in S : \A u \in h.ack[p] .. t : u \in S
  <2> SUFFICES ASSUME NEW t \in S, NEW u \in h.ack[p] .. t  PROVE u \in S
    OBVIOUS
  <2>1. t \in h.ack[p] .. (tick - 1) /\ \A q \in h.connected \ {p} : ~(h.ack[q] <= t)
    BY <1>4
  <2>2. u \in h.ack[p] .. (tick - 1)  BY <1>1, <2>1
  <2>3. \A q \in h.connected \ {p} : ~(h.ack[q] <= u)
    BY <1>1, <2>1
  <2> QED  BY <1>4, <2>2, <2>3
<1>7. S \in SUBSET (h.ack[p] .. (tick - 1))  BY <1>4
<1> DEFINE n == Cardinality(S)
<1>8. n \in Nat /\ S = h.disp.r .. (h.disp.r + n - 1)
  <2>1. tick - 1 \in Int  OBVIOUS
  <2> QED  BY ONLY <1>1, <1>5, <1>6, <1>7, <2>1, EarliestTicks
<1>9. n = Count(h, p, tick)  BY DEF Count, S
<1> HIDE DEF n
<1>10. h.disp.r + n <= tick
  <2>1. CASE n = 0  BY <1>1, <2>1
  <2>2. CASE n # 0
    <3>1. h.disp.r + n - 1 \in S  BY <1>1, <1>8, <2>2
    <3> QED  BY <1>1, <1>4, <1>8, <3>1
  <2> QED  BY <2>1, <2>2
<1>11. ASSUME NEW q \in h.connected \ {p}, AckInWindow(h, q)
       PROVE  h.disp.r + n <= h.ack[q]
  <2>1. CASE n = 0  BY <1>1, <1>11, <2>1 DEF AckInWindow
  <2>2. CASE n # 0
    <3>1. h.disp.r + n - 1 \in S  BY <1>1, <1>8, <2>2
    <3>2. ~(h.ack[q] <= h.disp.r + n - 1)  BY <1>4, <3>1
    <3>3. h.ack[q] \in Int  BY <1>1
    <3> QED  BY ONLY <1>1, <1>8, <3>2, <3>3
  <2> QED  BY <2>1, <2>2
<1> QED  BY <1>8, <1>9, <1>10, <1>11 DEF S

\* player_acknowledged_up_to_tick keeps the books: of a connected player, and
\* of a dead one up to the tick it is still waited for.
LEMMA AcknowledgedBooks ==
  ASSUME NEW h \in BoundedHubs, NEW p \in Player, NEW tick \in Int,
         h.disp.r <= h.ack[p], h.ack[p] <= tick, tick <= h.incomplete,
         p \in h.connected => tick <= h.unsent, h.connected # {},
         WindowsOrdered(h), FlagsInWindow(h), \A q \in h.connected \ {p} : AckInWindow(h, q),
         AwaitedUntil(h, p, tick), FlagsAwaited(h), MadeUpTold(h), OneAssertion(h)
  PROVE  InOrder(Acknowledged(h, p, tick))
<1> DEFINE k == Acknowledged(h, p, tick)
           n == Count(h, p, tick)
           r == h.disp.r + n
<1>0. h \in HubRecords  BY DEF BoundedHubs
<1>1. /\ n \in Nat /\ Done(h, p, tick) = h.disp.r .. (h.disp.r + n - 1)
      /\ r <= tick /\ \A q \in h.connected \ {p} : r <= h.ack[q]
  BY AcknowledgedCount
<1>2. k = Acknowledged(h, p, tick)  OBVIOUS
<1> HIDE DEF k
<1>3. /\ k \in HubRecords
      /\ k.connected = h.connected /\ k.deadTick = h.deadTick
      /\ k.incomplete = h.incomplete /\ k.unsent = h.unsent
      /\ \A q \in Player : k.ack[q] = IF q = p THEN tick ELSE h.ack[q]
      /\ k.awaited = Struck(h, p, tick)
      /\ k.disp = Drop(h.disp, n) /\ k.sendTime = Drop(h.sendTime, n)
      /\ k.reflect = Drop(h.reflect, n)
      /\ k.flags = Dequeued(h, n) /\ k.made = StillMade(h, n)
      /\ k.reflected = StillReflected(h, n) /\ k.broken = BrokenAfter(h, p, tick)
  BY <1>0, <1>2, AcknowledgedFields
<1> HIDE DEF n
<1>4. /\ h.disp.r \in Int /\ h.disp.w \in Int /\ h.incomplete \in Int /\ h.unsent \in Int
      /\ h.connected \in SUBSET Player /\ FirstTick <= h.disp.r /\ h.disp.w <= LastTick + 1
      /\ h.disp.r <= h.unsent /\ h.unsent <= h.incomplete /\ h.incomplete <= h.disp.w
      /\ h.disp.w <= h.disp.r + Capacity
      /\ h.reflect = h.disp /\ h.sendTime = [r |-> h.disp.r, w |-> h.unsent]
      /\ \A q \in Player : h.ack[q] \in Int /\ h.flags[q].r \in Int /\ h.flags[q].w \in Int
  BY <1>0, HubFields DEF WindowsOrdered, BoundedHubs
<1>5. r \in Int /\ h.disp.r <= r /\ r <= h.unsent
  <2>1. r \in Int /\ h.disp.r <= r  BY <1>1, <1>4
  <2>2. PICK q \in h.connected : TRUE  OBVIOUS
  <2>3. r <= h.unsent
    <3>1. CASE q = p  BY <1>1, <1>4, <2>1, <2>2, <3>1
    <3>2. CASE q # p
      <4>1. r <= h.ack[q] /\ h.ack[q] <= h.unsent /\ h.ack[q] \in Int
        BY <1>1, <1>4, <2>2, <3>2 DEF AckInWindow
      <4> QED  BY ONLY <1>4, <2>1, <4>1
    <3> QED  BY <3>1, <3>2
  <2> QED  BY <2>1, <2>3
<1>6. k.disp.r = r /\ k.disp.w = h.disp.w /\ k.reflect = k.disp
      /\ k.sendTime = [r |-> r, w |-> h.unsent]
  BY <1>3, <1>4 DEF Drop
<1>7. WindowsOrdered(k)
  <2>1. FirstTick \in Int /\ Capacity \in Int  BY TicksAssumption, QueueAssumption
  <2> HIDE DEF r
  <2> QED  BY ONLY <1>3, <1>4, <1>5, <1>6, <2>1 DEF WindowsOrdered
<1>8. \A q \in Player : k.flags[q].w = h.flags[q].w /\ k.flags[q].r = Least(h.flags[q].w, r)
  <2> SUFFICES ASSUME NEW q \in Player
               PROVE  k.flags[q].w = h.flags[q].w /\ k.flags[q].r = Least(h.flags[q].w, r)
    OBVIOUS
  <2>1. k.flags[q] = Drop(h.flags[q], Least(n, Size(h.flags[q])))
    BY <1>3 DEF Dequeued
  <2>2. h.flags[q].r = Least(h.flags[q].w, h.disp.r)
    BY DEF FlagsInWindow, QueueInWindow
  <2>3. h.flags[q].r + Least(n, h.flags[q].w - h.flags[q].r) = Least(h.flags[q].w, r)
    <3>1. h.flags[q].w \in Int /\ h.disp.r \in Int /\ n \in Nat  BY <1>1, <1>4
    <3>2. \A a \in Int, b \in Int : Least(a, b) + Least(n, a - Least(a, b)) = Least(a, b + n)
      BY <3>1 DEF Least
    <3> QED  BY <2>2, <3>1, <3>2
  <2> QED  BY <2>1, <2>3 DEF Drop, Size
<1>9. FlagsInWindow(k)
  BY <1>3, <1>4, <1>6, <1>8 DEF FlagsInWindow, QueueInWindow
<1>10. AcksInWindow(k)
  <2> SUFFICES ASSUME NEW q \in h.connected  PROVE r <= k.ack[q] /\ k.ack[q] <= h.unsent
    BY <1>3, <1>6 DEF AcksInWindow, AckInWindow
  <2>1. CASE q = p  BY <1>1, <1>3, <1>4, <2>1
  <2>2. CASE q # p  BY <1>1, <1>3, <1>4, <2>2 DEF AckInWindow
  <2> QED  BY <2>1, <2>2
<1>11. AcksAwaited(k)
  <2> SUFFICES ASSUME NEW t \in r .. (h.incomplete - 1)
               PROVE  /\ k.awaited[t] = {q \in h.connected : k.ack[q] <= t}
                      /\ k.awaited[t] # {}
    BY <1>3, <1>6 DEF AcksAwaited
  <2>1. t \in Int /\ r <= t /\ t < h.incomplete /\ t \in h.disp.r .. (h.incomplete - 1)
    BY <1>4, <1>5
  <2>2. t \in Ticks  BY <1>4, <2>1, TicksAssumption DEF Ticks
  <2>3. k.awaited[t] = IF t \in h.ack[p] .. (tick - 1) THEN h.awaited[t] \ {p} ELSE h.awaited[t]
    BY <1>3, <2>2 DEF Struck
  <2>4. /\ h.awaited[t] # {}
        /\ h.awaited[t] = {q \in Player : /\ q \in h.connected \/ (q = p /\ t < tick)
                                         /\ h.ack[q] <= t}
    BY <2>1 DEF AwaitedUntil
  <2>5. CASE t \in h.ack[p] .. (tick - 1)
    <3>1. k.awaited[t] = h.awaited[t] \ {p}  BY <2>3, <2>5
    <3>2. h.awaited[t] \ {p} = {q \in h.connected : k.ack[q] <= t}
      <4>1. tick > t  BY <1>4, <2>5
      <4> QED  BY ONLY <1>3, <1>4, <2>1, <2>4, <4>1, tick \in Int
    <3>3. t \notin Done(h, p, tick)
      BY <1>1, <1>4, <2>1
    <3>4. k.awaited[t] # {}
      BY <1>3, <2>5, <3>3 DEF Done
    <3> QED  BY <3>1, <3>2, <3>4
  <2>6. CASE t \notin h.ack[p] .. (tick - 1)
    <3>1. k.awaited[t] = h.awaited[t]  BY <2>3, <2>6
    <3>2. h.awaited[t] = {q \in h.connected : k.ack[q] <= t}
      <4>1. t < h.ack[p] \/ tick <= t  BY <1>4, <2>1, <2>6
      <4> QED  BY ONLY <1>3, <1>4, <2>1, <2>4, <4>1, tick \in Int, h.ack[p] <= tick
    <3> QED  BY <2>4, <3>1, <3>2
  <2> QED  BY <2>5, <2>6
<1>12. FlagsAwaited(k)
  <2> SUFFICES ASSUME NEW t \in h.incomplete .. (h.disp.w - 1)
               PROVE  /\ k.awaited[t] = {q \in h.connected : k.flags[q].w <= t}
                      /\ k.awaited[t] # {}
    BY <1>3, <1>6 DEF FlagsAwaited
  <2>1. t \in Ticks  BY <1>4, TicksAssumption DEF Ticks
  <2>2. t \notin h.ack[p] .. (tick - 1)  BY <1>4
  <2>3. k.awaited[t] = h.awaited[t]  BY <1>3, <2>1, <2>2 DEF Struck
  <2>4. h.awaited[t] = {q \in h.connected : h.flags[q].w <= t} /\ h.awaited[t] # {}
    BY DEF FlagsAwaited
  <2>5. {q \in h.connected : h.flags[q].w <= t} = {q \in h.connected : k.flags[q].w <= t}
    BY <1>4, <1>8
  <2> QED  BY <2>3, <2>4, <2>5
<1>13. MadeUpTold(k)
  <2> SUFFICES ASSUME NEW q \in Player, NEW t \in Ticks, r <= t
               PROVE  /\ q \in k.reflected[t] <=> t \in k.made[q]
                      /\ q = LocalPlayer => t \notin k.made[q]
    BY <1>6 DEF MadeUpTold
  <2>1. t \in Int  BY TicksAssumption DEF Ticks
  <2>2. k.reflected[t] = h.reflected[t]
    BY <1>3, <1>4, <1>5, <2>1 DEF StillReflected
  <2>3. t \in k.made[q] <=> t \in h.made[q] /\ k.flags[q].r <= t
    BY <1>3 DEF StillMade
  <2>4. k.flags[q].r <= t
    BY <1>4, <1>5, <1>8, <2>1 DEF Least
  <2>5. /\ q \in h.reflected[t] <=> t \in h.made[q]
        /\ q = LocalPlayer => t \notin h.made[q]
    BY <1>4, <1>5, <2>1 DEF MadeUpTold
  <2> QED  BY <2>2, <2>3, <2>4, <2>5
<1>14. OneAssertion(k)
  <2>1. \A t \in h.ack[p] .. (tick - 1) : p \in h.awaited[t]
    <3> SUFFICES ASSUME NEW t \in h.ack[p] .. (tick - 1)  PROVE p \in h.awaited[t]
      OBVIOUS
    <3>1. t \in h.disp.r .. (h.incomplete - 1) /\ t < tick /\ h.ack[p] <= t  BY <1>4
    <3> QED  BY <3>1 DEF AwaitedUntil
  <2>2. /\ Done(h, p, tick) = h.sendTime.r .. (h.sendTime.r + n - 1)
        /\ Done(h, p, tick) = h.reflect.r .. (h.reflect.r + n - 1)
    BY <1>1, <1>4
  <2>3. \A q \in Player : Size(h.flags[q]) > 0 => h.flags[q].r = h.disp.r
    BY <1>4 DEF FlagsInWindow, QueueInWindow, Size, Least
  <2>4. BrokenAfter(h, p, tick) \subseteq h.broken \cup {963}
    BY <2>1, <2>2, <2>3, <1>1 DEF BrokenAfter, Unless, n
  <2> QED  BY <1>3, <2>4 DEF OneAssertion
<1> QED
  BY <1>2, <1>7, <1>9, <1>10, <1>11, <1>12, <1>13, <1>14 DEF InOrder

----------------------------------------------------------------------------
(* player_provided_flags_from_tick_to_tick.                                 *)

\* Where the flags of q end for the masks when those of p are about to be
\* counted from the given tick on; p may be dead.
CountedTo(h, p, from, q) == IF q = p THEN from ELSE h.flags[q].w
AwaitedFrom(h, p, from) ==
  \A t \in h.incomplete .. (h.disp.w - 1) :
    /\ h.awaited[t] = {q \in h.connected \cup {p} : CountedTo(h, p, from, q) <= t}
    /\ h.awaited[t] # {}

\* What p's flags up to a tick mean for the queues: those of the others are
\* in the window, those of p end there if it is connected.
QueuesBefore(h, p, from, to) ==
  /\ h.incomplete <= from /\ from <= h.disp.w /\ from <= to
  /\ to <= h.disp.r + Capacity /\ to <= LastTick + 1
  /\ IF p \in h.connected THEN h.flags[p].w = to ELSE to = h.disp.w
  /\ \A q \in Player : /\ h.flags[q].r = Least(h.flags[q].w, h.disp.r)
                       /\ h.deadTick[q] <= h.flags[q].w
                       /\ q # p \/ q \notin h.connected => h.flags[q].w <= h.disp.w
                       /\ q \in h.connected => h.incomplete <= h.flags[q].w

\* The ticks that are completed are the first incomplete ones.
LEMMA ProvidedCount ==
  ASSUME NEW h \in BoundedHubs, NEW p \in Player, NEW from \in Int, NEW to \in Int,
         WindowsOrdered(h), QueuesBefore(h, p, from, to), AwaitedFrom(h, p, from)
  PROVE  LET c == h.incomplete + Completed(h, p, from, to)
         IN /\ Completed(h, p, from, to) \in Nat
            /\ Complete(h, p, from, to) = h.incomplete .. (c - 1)
            /\ c <= Greatest(to, h.disp.w) /\ (p \in h.connected => c <= to)
            /\ \A q \in h.connected \ {p} : c <= h.flags[q].w
            /\ \A t \in from .. (to - 1) :
                 Entered(h, to)[t] \ {p} = {q \in h.connected \ {p} : h.flags[q].w <= t}
<1>1. /\ h \in HubRecords /\ h.disp.r \in Int /\ h.incomplete \in Int
      /\ h.disp.w \in Int /\ h.disp.w <= LastTick + 1 /\ FirstTick <= h.disp.r
      /\ h.disp.r <= h.incomplete /\ h.incomplete <= h.disp.w
      /\ h.connected \in SUBSET Player /\ \A q \in Player : h.flags[q].w \in Int
  BY HubFields DEF BoundedHubs, WindowsOrdered
<1>2. /\ h.incomplete <= from /\ from <= h.disp.w /\ from <= to
      /\ to <= LastTick + 1
      /\ \A q \in h.connected \ {p} : h.incomplete <= h.flags[q].w /\ h.flags[q].w <= h.disp.w
  BY <1>1 DEF QueuesBefore
<1>3. \A t \in from .. (to - 1) : t \in Ticks /\ t \in Int /\ from <= t /\ t < to
  <2>1. FirstTick \in Int /\ LastTick \in Int  BY TicksAssumption
  <2> QED  BY ONLY <1>1, <1>2, <2>1, from \in Int, to \in Int DEF Ticks
<1>4. \A t \in from .. (to - 1) :
        Entered(h, to)[t] \ {p} = {q \in h.connected \ {p} : h.flags[q].w <= t}
  <2> SUFFICES ASSUME NEW t \in from .. (to - 1)
               PROVE  Entered(h, to)[t] \ {p} = {q \in h.connected \ {p} : h.flags[q].w <= t}
    OBVIOUS
  <2>1. CASE h.disp.w <= t
    <3>1. Entered(h, to)[t] = h.connected  BY <1>1, <1>3, <2>1 DEF Entered
    <3>2. \A q \in h.connected \ {p} : h.flags[q].w <= t  BY <1>1, <1>2, <1>3, <2>1
    <3> QED  BY <3>1, <3>2
  <2>2. CASE t < h.disp.w
    <3>1. Entered(h, to)[t] = h.awaited[t]  BY <1>1, <1>3, <2>2 DEF Entered
    <3>2. h.awaited[t] = {q \in h.connected \cup {p} : CountedTo(h, p, from, q) <= t}
      <4>1. t \in h.incomplete .. (h.disp.w - 1)  BY <1>1, <1>2, <1>3, <2>2
      <4> QED  BY <4>1 DEF AwaitedFrom
    <3> QED  BY <3>1, <3>2 DEF CountedTo
  <2> QED  BY <1>1, <1>3, <2>1, <2>2
<1> DEFINE S == Complete(h, p, from, to)
<1>5. S = {t \in from .. (to - 1) : \A q \in h.connected \ {p} : ~(h.flags[q].w <= t)}
  BY <1>4 DEF Complete
<1> HIDE DEF S
<1>6. S # {} => from = h.incomplete
  <2> SUFFICES ASSUME NEW t \in S, h.incomplete < from  PROVE FALSE
    BY <1>1, <1>2
  <2>1. t \in Int /\ from <= t /\ \A q \in h.connected \ {p} : ~(h.flags[q].w <= t)
    BY <1>3, <1>5
  <2>2. h.incomplete \in h.incomplete .. (h.disp.w - 1)  BY <1>1, <1>2
  <2>3. PICK q \in h.connected \cup {p} : CountedTo(h, p, from, q) <= h.incomplete
    BY <2>2 DEF AwaitedFrom
  <2>4. q # p  BY <1>1, <2>3 DEF CountedTo
  <2>5. h.flags[q].w <= h.incomplete /\ q \in h.connected \ {p} /\ h.flags[q].w \in Int
    BY <1>1, <2>3, <2>4 DEF CountedTo
  <2>6. h.flags[q].w <= t
    BY ONLY <1>1, <2>1, <2>5, h.incomplete < from, from \in Int
  <2> QED  BY <2>1, <2>5, <2>6
<1>7. \A t \in S : \A u \in from .. t : u \in S
  <2> SUFFICES ASSUME NEW t \in S, NEW u \in from .. t  PROVE u \in S
    OBVIOUS
  <2>1. t \in from .. (to - 1) /\ \A q \in h.connected \ {p} : ~(h.flags[q].w <= t)
    BY <1>5
  <2>2. u \in from .. (to - 1)  BY <2>1
  <2>3. \A q \in h.connected \ {p} : ~(h.flags[q].w <= u)
    BY <1>1, <2>1
  <2> QED  BY <1>5, <2>2, <2>3
<1>8. S \in SUBSET (from .. (to - 1))  BY <1>5
<1> DEFINE n == Cardinality(S)
<1>9. n \in Nat /\ S = h.incomplete .. (h.incomplete + n - 1)
  <2>1. to - 1 \in Int  OBVIOUS
  <2> QED  BY ONLY <1>1, <1>6, <1>7, <1>8, <2>1, from \in Int, EarliestTicks
<1>10. n = Completed(h, p, from, to)  BY DEF Completed, S
<1> HIDE DEF n
<1>11. n # 0 => h.incomplete + n - 1 \in S
  BY <1>1, <1>9
<1>12. /\ h.incomplete + n <= Greatest(to, h.disp.w)
       /\ h.incomplete + n <= to
       /\ \A q \in h.connected \ {p} : h.incomplete + n <= h.flags[q].w
  <2>1. CASE n = 0  BY <1>1, <1>2, <2>1 DEF Greatest
  <2>2. CASE n # 0
    <3>1. h.incomplete + n <= to
      <4>1. h.incomplete + n - 1 < to  BY <1>3, <1>5, <1>11, <2>2
      <4> QED  BY <1>1, <1>9, <4>1
    <3>2. ASSUME NEW q \in h.connected \ {p}  PROVE h.incomplete + n <= h.flags[q].w
      <4>0. h.incomplete + n - 1 \in S  BY <1>11, <2>2
      <4>1. ~(h.flags[q].w <= h.incomplete + n - 1) /\ h.flags[q].w \in Int
        BY <1>1, <1>5, <4>0
      <4> QED  BY ONLY <1>1, <1>9, <4>1
    <3> QED  BY <1>1, <1>2, <1>9, <3>1, <3>2 DEF Greatest
  <2> QED  BY <2>1, <2>2
<1>13. S = Complete(h, p, from, to)  BY DEF S
<1>14. /\ n \in Nat /\ S = h.incomplete .. ((h.incomplete + n) - 1)
  BY <1>1, <1>9
<1> QED  BY ONLY <1>4, <1>10, <1>12, <1>13, <1>14

\* The masks of the complete ticks after it: the others are waited for from
\* now on.
MasksExtended(h, k) ==
  /\ \A t \in h.disp.r .. (h.incomplete - 1) : k.awaited[t] = h.awaited[t]
  /\ \A t \in h.incomplete .. (k.incomplete - 1) : k.awaited[t] = h.connected

\* player_provided_flags_from_tick_to_tick keeps the books, but for those of
\* acknowledgements: completed ticks wait for everybody's.
LEMMA ProvidedBooks ==
  ASSUME NEW h \in BoundedHubs, NEW p \in Player, NEW from \in Int, NEW to \in Int,
         WindowsOrdered(h), QueuesBefore(h, p, from, to), AwaitedFrom(h, p, from),
         MadeUpTold(h), OneAssertion(h), NEW k, k = Provided(h, p, from, to)
  PROVE  /\ k \in HubRecords
         /\ k.connected = h.connected /\ k.deadTick = h.deadTick /\ k.ack = h.ack
         /\ k.unsent = h.unsent /\ k.postGame = h.postGame
         /\ k.flags = h.flags /\ k.made = h.made
         /\ k.disp.r = h.disp.r /\ h.incomplete <= k.incomplete
         /\ WindowsOrdered(k) /\ FlagsInWindow(k) /\ FlagsAwaited(k)
         /\ MadeUpTold(k) /\ OneAssertion(k) /\ MasksExtended(h, k)
         /\ StopsWithCause(h, k)
<1> DEFINE n == Completed(h, p, from, to)
           c == h.incomplete + n
           w == Greatest(to, h.disp.w)
<1>1. /\ h \in HubRecords /\ h.disp.r \in Int /\ h.incomplete \in Int /\ h.unsent \in Int
      /\ h.disp.w \in Int /\ h.disp.w <= LastTick + 1 /\ FirstTick <= h.disp.r
      /\ h.disp.r <= h.unsent /\ h.unsent <= h.incomplete /\ h.incomplete <= h.disp.w
      /\ h.disp.w <= h.disp.r + Capacity
      /\ h.reflect = h.disp /\ h.sendTime = [r |-> h.disp.r, w |-> h.unsent]
      /\ h.connected \in SUBSET Player /\ \A q \in Player : h.flags[q].w \in Int
  BY HubFields DEF BoundedHubs, WindowsOrdered
<1>2. /\ h.incomplete <= from /\ from <= h.disp.w /\ from <= to
      /\ to <= LastTick + 1 /\ to <= h.disp.r + Capacity
      /\ p \in h.connected => h.flags[p].w = to
      /\ p \notin h.connected => to = h.disp.w
      /\ \A q \in h.connected \ {p} : h.incomplete <= h.flags[q].w /\ h.flags[q].w <= h.disp.w
  BY <1>1 DEF QueuesBefore
<1>3. /\ n \in Nat /\ Complete(h, p, from, to) = h.incomplete .. (c - 1)
      /\ c <= w /\ (p \in h.connected => c <= to)
      /\ \A q \in h.connected \ {p} : c <= h.flags[q].w
      /\ \A t \in from .. (to - 1) :
           Entered(h, to)[t] \ {p} = {q \in h.connected \ {p} : h.flags[q].w <= t}
  BY ProvidedCount
<1>4. /\ k \in HubRecords
      /\ k.connected = h.connected /\ k.deadTick = h.deadTick
      /\ k.unsent = h.unsent /\ k.postGame = h.postGame
      /\ k.ack = h.ack /\ k.flags = h.flags /\ k.made = h.made
      /\ k.reflected = h.reflected /\ k.sendTime = h.sendTime
      /\ k.incomplete = c
      /\ k.disp = Grow(h.disp, Greatest(to - h.disp.w, 0))
      /\ k.reflect = Grow(h.reflect, Greatest(to - h.disp.w, 0))
      /\ k.awaited = AwaitedAfter(h, p, from, to)
      /\ k.broken = BrokenWith(h, p, from, to)
  BY <1>1, ProvidedFields
<1>5. StopsWithCause(h, k)
  BY <1>1, ProvidedFields
<1> HIDE DEF n
<1>6. /\ c \in Int /\ h.incomplete <= c /\ w \in Int /\ to <= w /\ h.disp.w <= w
      /\ w <= LastTick + 1 /\ w <= h.disp.r + Capacity
      /\ p \notin h.connected => w = h.disp.w
  BY <1>1, <1>2, <1>3 DEF Greatest
<1>7. k.disp.r = h.disp.r /\ k.disp.w = w /\ k.reflect = k.disp
  <2>1. h.disp.w + Greatest(to - h.disp.w, 0) = w  BY <1>1 DEF Greatest
  <2> QED  BY <1>1, <1>4, <2>1 DEF Grow
<1> HIDE DEF c, w
<1>8. WindowsOrdered(k)
  <2>1. FirstTick \in Int /\ Capacity \in Int  BY TicksAssumption, QueueAssumption
  <2> QED  BY ONLY <1>1, <1>3, <1>4, <1>6, <1>7, <2>1 DEF WindowsOrdered
<1>9. FlagsInWindow(k)
  <2> SUFFICES ASSUME NEW q \in Player
               PROVE  /\ h.flags[q].r = Least(h.flags[q].w, h.disp.r)
                      /\ h.flags[q].w <= w
                      /\ h.deadTick[q] <= h.flags[q].w
                      /\ q \in h.connected => c <= h.flags[q].w
    BY <1>4, <1>7 DEF FlagsInWindow, QueueInWindow
  <2>1. /\ h.flags[q].r = Least(h.flags[q].w, h.disp.r)
        /\ h.deadTick[q] <= h.flags[q].w
        /\ q # p \/ q \notin h.connected => h.flags[q].w <= h.disp.w
    BY DEF QueuesBefore
  <2>2. h.flags[q].w <= w
    <3>1. h.flags[q].w <= h.disp.w \/ h.flags[q].w = to  BY <1>2, <2>1
    <3> QED  BY ONLY <1>1, <1>6, <3>1, q \in Player, to \in Int
  <2>3. q \in h.connected => c <= h.flags[q].w  BY <1>2, <1>3
  <2> QED  BY <2>1, <2>2, <2>3
<1>10. \A t \in Ticks : k.awaited[t] = IF t \in h.incomplete .. (c - 1) THEN h.connected
                                       ELSE IF t \in from .. (to - 1) THEN Entered(h, to)[t] \ {p}
                                       ELSE Entered(h, to)[t]
  BY <1>3, <1>4 DEF AwaitedAfter
<1>11. \A t \in Ticks : t < h.disp.w => Entered(h, to)[t] = h.awaited[t]
  BY <1>1, TicksAssumption DEF Entered, Ticks
<1>12. MasksExtended(h, k)
  <2>1. ASSUME NEW t \in h.disp.r .. (h.incomplete - 1)  PROVE k.awaited[t] = h.awaited[t]
    <3>1. t \in Int /\ t < h.incomplete /\ t < h.disp.w /\ t < from
      BY <1>1, <1>2
    <3>2. t \in Ticks  BY <1>1, <3>1, TicksAssumption DEF Ticks
    <3>3. t \notin h.incomplete .. (c - 1) /\ t \notin from .. (to - 1)
      BY <1>1, <1>6, <3>1
    <3> QED  BY <1>10, <1>11, <3>1, <3>2, <3>3
  <2>2. ASSUME NEW t \in h.incomplete .. (c - 1)  PROVE k.awaited[t] = h.connected
    <3>1. t \in Ticks  BY <1>1, <1>3, <1>6, TicksAssumption DEF Ticks
    <3> QED  BY <1>10, <3>1
  <2> QED  BY <1>4, <2>1, <2>2 DEF MasksExtended
<1>13. FlagsAwaited(k)
  <2> SUFFICES ASSUME NEW t \in c .. (w - 1)
               PROVE  /\ k.awaited[t] = {q \in h.connected : h.flags[q].w <= t}
                      /\ k.awaited[t] # {}
    BY <1>4, <1>7 DEF FlagsAwaited
  <2>1. t \in Int /\ c <= t /\ t < w /\ h.incomplete <= t /\ t \notin h.incomplete .. (c - 1)
    BY <1>1, <1>6
  <2>2. t \in Ticks  BY <1>1, <1>6, <2>1, TicksAssumption DEF Ticks
  <2>3. CASE t \in from .. (to - 1)
    <3>1. k.awaited[t] = {q \in h.connected \ {p} : h.flags[q].w <= t}
      BY <1>3, <1>10, <2>1, <2>2, <2>3
    <3>2. p \in h.connected => ~(h.flags[p].w <= t)
      BY <1>2, <2>3
    <3>3. k.awaited[t] # {}
      <4>1. t \notin Complete(h, p, from, to)  BY <1>3, <2>1
      <4>2. Entered(h, to)[t] \ {p} # {}  BY <2>3, <4>1 DEF Complete
      <4> QED  BY <1>3, <2>3, <3>1, <4>2
    <3> QED  BY <3>1, <3>2, <3>3
  <2>4. CASE t \notin from .. (to - 1)
    <3>1. t < h.disp.w /\ (t < from \/ to <= t)
      BY <1>1, <1>2, <2>1, <2>4 DEF w, Greatest
    <3>2. k.awaited[t] = h.awaited[t]
      BY <1>10, <1>11, <2>1, <2>2, <2>4, <3>1
    <3>3. /\ h.awaited[t] = {q \in h.connected \cup {p} : CountedTo(h, p, from, q) <= t}
          /\ h.awaited[t] # {}
      <4>1. t \in h.incomplete .. (h.disp.w - 1)  BY <1>1, <2>1, <3>1
      <4> QED  BY <4>1 DEF AwaitedFrom
    <3>4. p \in h.connected => (h.flags[p].w <= t <=> from <= t)
      BY <1>2, <2>1, <3>1
    <3>5. p \notin h.connected => ~(from <= t)
      BY <1>2, <2>1, <3>1
    <3>6. \A q \in h.connected : CountedTo(h, p, from, q) <= t <=> h.flags[q].w <= t
      BY <3>4 DEF CountedTo
    <3>7. p \notin h.connected => ~(CountedTo(h, p, from, p) <= t)
      BY <3>5 DEF CountedTo
    <3>8. {q \in h.connected \cup {p} : CountedTo(h, p, from, q) <= t}
            = {q \in h.connected : h.flags[q].w <= t}
      BY <3>6, <3>7
    <3> QED  BY <3>2, <3>3, <3>8
  <2> QED  BY <2>3, <2>4
<1>14. MadeUpTold(k)
  BY <1>4, <1>7 DEF MadeUpTold
<1>15. OneAssertion(k)
  <2>1. \A t \in from .. (to - 1) : p \in Entered(h, to)[t]
    <3> SUFFICES ASSUME NEW t \in from .. (to - 1)  PROVE p \in Entered(h, to)[t]
      OBVIOUS
    <3>1. t \in Int /\ from <= t /\ t < to /\ h.incomplete <= t  BY <1>1, <1>2
    <3>2. t \in Ticks  BY <1>1, <1>2, <3>1, TicksAssumption DEF Ticks
    <3>3. CASE h.disp.w <= t
      <4>1. Entered(h, to)[t] = h.connected  BY <1>1, <3>1, <3>2, <3>3 DEF Entered
      <4> QED  BY <1>1, <1>2, <3>1, <3>3, <4>1
    <3>4. CASE t < h.disp.w
      <4>1. Entered(h, to)[t] = h.awaited[t]  BY <1>11, <3>2, <3>4
      <4>2. t \in h.incomplete .. (h.disp.w - 1)  BY <1>1, <3>1, <3>4
      <4>3. h.awaited[t] = {q \in h.connected \cup {p} : CountedTo(h, p, from, q) <= t}
        BY <4>2 DEF AwaitedFrom
      <4> QED  BY <3>1, <4>1, <4>3 DEF CountedTo
    <3> QED  BY <1>1, <3>1, <3>3, <3>4
  <2>2. BrokenWith(h, p, from, to) = h.broken
    BY <1>1, <1>3, <2>1 DEF BrokenWith, Unless, c, n
  <2> QED  BY <1>4, <2>2 DEF OneAssertion
<1> QED
  BY <1>4, <1>5, <1>6, <1>7, <1>8, <1>9, <1>12, <1>13, <1>14, <1>15

----------------------------------------------------------------------------
(* send_packets and the rest of hub_tick.                                   *)

\* What touches none of the fields keeps the books.
LEMMA BooksUntouched ==
  ASSUME NEW h, NEW k, SameBooks(h, k)
  PROVE  /\ InOrder(h) => InOrder(k)
         /\ Books(h) => Books(k)
<1>1. ASSUME InOrder(h)  PROVE InOrder(k)
  <2>1. WindowsOrdered(k)  BY <1>1 DEF SameBooks, InOrder, WindowsOrdered
  <2>2. FlagsInWindow(k)  BY <1>1 DEF SameBooks, InOrder, FlagsInWindow, QueueInWindow
  <2>3. AcksInWindow(k)  BY <1>1 DEF SameBooks, InOrder, AcksInWindow, AckInWindow
  <2>4. AcksAwaited(k)  BY <1>1 DEF SameBooks, InOrder, AcksAwaited
  <2>5. FlagsAwaited(k)  BY <1>1 DEF SameBooks, InOrder, FlagsAwaited
  <2>6. MadeUpTold(k)  BY <1>1 DEF SameBooks, InOrder, MadeUpTold
  <2>7. OneAssertion(k)  BY <1>1 DEF SameBooks, InOrder, OneAssertion
  <2> QED  BY <2>1, <2>2, <2>3, <2>4, <2>5, <2>6, <2>7 DEF InOrder
<1> QED  BY <1>1 DEF SameBooks, Books

\* When packets are sent, the complete ticks are sent ticks.
LEMMA SentBooks ==
  ASSUME NEW h \in HubRecords, InOrder(h)
  PROVE  InOrder(Sent(h))
<1> DEFINE k == Sent(h)
           s == Grow(h.sendTime, Greatest(h.incomplete - h.sendTime.w, 0))
<1>1. /\ k.connected = h.connected /\ k.deadTick = h.deadTick /\ k.ack = h.ack
      /\ k.incomplete = h.incomplete /\ k.unsent = h.incomplete /\ k.flags = h.flags
      /\ k.made = h.made /\ k.awaited = h.awaited /\ k.reflected = h.reflected
      /\ k.disp = h.disp /\ k.reflect = h.reflect /\ k.sendTime = s
      /\ k.broken = h.broken
  BY DEF Sent, HubRecords
<1> HIDE DEF k
<1>2. /\ h.disp.r \in Int /\ h.unsent \in Int /\ h.incomplete \in Int
      /\ h.connected \in SUBSET Player /\ \A q \in Player : h.ack[q] \in Int
  BY HubFields
<1>3. WindowsOrdered(h)  BY DEF InOrder
<1>4. s = [r |-> h.disp.r, w |-> h.incomplete]
  BY <1>2, <1>3 DEF WindowsOrdered, Grow, Greatest
<1> HIDE DEF s
<1>5. WindowsOrdered(k)
  <2>1. h.disp.r <= h.incomplete  BY <1>2, <1>3 DEF WindowsOrdered
  <2> QED  BY ONLY <1>1, <1>2, <1>3, <1>4, <2>1 DEF WindowsOrdered
<1>6. AcksInWindow(k)
  <2> SUFFICES ASSUME NEW q \in h.connected
               PROVE  h.disp.r <= h.ack[q] /\ h.ack[q] <= h.incomplete
    BY <1>1 DEF AcksInWindow, AckInWindow
  <2>1. h.disp.r <= h.ack[q] /\ h.ack[q] <= h.unsent
    BY DEF InOrder, AcksInWindow, AckInWindow
  <2>2. h.unsent <= h.incomplete  BY <1>3 DEF WindowsOrdered
  <2> QED  BY <1>2, <2>1, <2>2
<1>7. FlagsInWindow(k)  BY <1>1 DEF InOrder, FlagsInWindow, QueueInWindow
<1>8. AcksAwaited(k)  BY <1>1 DEF InOrder, AcksAwaited
<1>9. FlagsAwaited(k)  BY <1>1 DEF InOrder, FlagsAwaited
<1>10. MadeUpTold(k)  BY <1>1 DEF InOrder, MadeUpTold
<1>11. OneAssertion(k)  BY <1>1 DEF InOrder, OneAssertion
<1> QED  BY <1>5, <1>6, <1>7, <1>8, <1>9, <1>10, <1>11 DEF InOrder, k

\* Once a tick is complete everybody's acknowledgement is waited for: nobody
\* has acknowledged a tick that was not complete.
LEMMA NobodyAcknowledged ==
  ASSUME NEW h \in HubRecords, WindowsOrdered(h), NEW t \in Int, h.incomplete <= t,
         NEW S \in SUBSET Player, \A q \in S : AckInWindow(h, q)
  PROVE  S = {q \in S : h.ack[q] <= t}
<1>1. /\ h.unsent \in Int /\ h.incomplete \in Int /\ h.unsent <= h.incomplete
      /\ \A q \in Player : h.ack[q] \in Int
  BY HubFields DEF WindowsOrdered
<1>2. ASSUME NEW q \in S  PROVE h.ack[q] <= t
  <2>1. h.ack[q] <= h.unsent /\ h.ack[q] \in Int  BY <1>1 DEF AckInWindow
  <2> QED  BY ONLY <1>1, <2>1, t \in Int, h.incomplete <= t
<1> QED  BY <1>2

\* Making up the missing flags of the first incomplete tick completes it.
LEMMA MadeUpBooks ==
  ASSUME NEW h \in BoundedHubs, h.incomplete < h.disp.w, h.connected # {}, InOrder(h),
         LocalPlayer \notin Missing(h)
  PROVE  InOrder(MadeUp(h))
<1> DEFINE k == MadeUp(h)
           i == h.incomplete
<1>1. k = MadeUp(h)  OBVIOUS
<1> HIDE DEF k
<1>2. /\ k \in HubRecords /\ i \in Ticks
      /\ k.connected = h.connected /\ k.deadTick = h.deadTick /\ k.ack = h.ack
      /\ k.unsent = h.unsent
      /\ k.disp = h.disp /\ k.reflect = h.reflect /\ k.sendTime = h.sendTime
      /\ k.broken = h.broken
      /\ k.incomplete = i + 1
      /\ k.reflected = Reflected(h)
      /\ k.flags = FlagsExtended(h) /\ k.made = MadeMore(h)
      /\ \A t \in Ticks : k.awaited[t] = IF t = i THEN h.connected ELSE h.awaited[t]
  BY <1>1, MadeUpFields
<1>3. /\ h \in HubRecords /\ h.disp.r \in Int /\ h.disp.w \in Int /\ i \in Int
      /\ h.unsent \in Int /\ h.disp.w <= LastTick + 1
      /\ h.connected \in SUBSET Player
      /\ \A q \in Player : h.flags[q].r \in Int /\ h.flags[q].w \in Int
  BY HubFields DEF BoundedHubs
<1>4. /\ FirstTick <= h.disp.r /\ h.disp.r <= h.unsent /\ h.unsent <= i /\ i <= h.disp.w
      /\ h.disp.r <= i
  <2>1. FirstTick <= h.disp.r /\ h.disp.r <= h.unsent /\ h.unsent <= i /\ i <= h.disp.w
    BY DEF InOrder, WindowsOrdered
  <2> QED  BY <1>3, <2>1
<1> HIDE DEF i
<1>5. \A q \in Player : \/ h.flags[q].w = i /\ k.flags[q].w = i + 1 /\ k.flags[q].r = h.flags[q].r
                        \/ h.flags[q].w # i /\ k.flags[q] = h.flags[q]
  BY <1>2 DEF FlagsExtended, Missing, Grow, i
<1>6. WindowsOrdered(k)
  <2>1. i + 1 <= h.disp.w /\ h.unsent <= i + 1
    BY ONLY <1>3, <1>4, h.incomplete < h.disp.w DEF i
  <2>2. WindowsOrdered(h)  BY DEF InOrder
  <2> QED  BY ONLY <1>2, <2>1, <2>2 DEF WindowsOrdered
<1>7. FlagsInWindow(k)
  <2> SUFFICES ASSUME NEW q \in Player
               PROVE  /\ k.flags[q].r = Least(k.flags[q].w, h.disp.r)
                      /\ k.flags[q].w <= h.disp.w
                      /\ h.deadTick[q] <= k.flags[q].w
                      /\ q \in h.connected => i + 1 <= k.flags[q].w
    BY <1>2 DEF FlagsInWindow, QueueInWindow
  <2>1. /\ h.flags[q].r = Least(h.flags[q].w, h.disp.r)
        /\ h.flags[q].w <= h.disp.w
        /\ h.deadTick[q] <= h.flags[q].w
        /\ q \in h.connected => i <= h.flags[q].w
    BY DEF InOrder, FlagsInWindow, QueueInWindow, i
  <2>2. h.flags[q].r \in Int /\ h.flags[q].w \in Int /\ h.deadTick[q] \in Int /\ i < h.disp.w
    BY <1>3, HubFields DEF i
  <2>3. CASE h.flags[q].w = i /\ k.flags[q].w = i + 1 /\ k.flags[q].r = h.flags[q].r
    BY ONLY <1>3, <1>4, <2>1, <2>2, <2>3 DEF Least
  <2>4. CASE h.flags[q].w # i /\ k.flags[q] = h.flags[q]
    BY ONLY <1>3, <1>4, <2>1, <2>2, <2>4
  <2> QED  BY <1>5, <2>3, <2>4
<1>8. AcksInWindow(k)
  BY <1>2 DEF InOrder, AcksInWindow, AckInWindow
<1>9. AcksAwaited(k)
  <2> SUFFICES ASSUME NEW t \in h.disp.r .. i
               PROVE  /\ k.awaited[t] = {q \in h.connected : h.ack[q] <= t}
                      /\ k.awaited[t] # {}
    BY <1>2, <1>3 DEF AcksAwaited
  <2>1. t \in Int /\ t \in Ticks
    BY <1>2, <1>3, <1>4, TicksAssumption DEF Ticks
  <2>2. CASE t = i
    <3>1. k.awaited[t] = h.connected  BY <1>2, <2>1, <2>2
    <3>2. h.connected = {q \in h.connected : h.ack[q] <= t}
      <4>1. /\ WindowsOrdered(h) /\ \A q \in h.connected : AckInWindow(h, q)
            /\ h.incomplete <= t
        BY <1>3, <2>2 DEF InOrder, AcksInWindow, i
      <4> QED  BY <1>3, <2>1, <4>1, NobodyAcknowledged
    <3> QED  BY <3>1, <3>2
  <2>3. CASE t # i
    <3>1. k.awaited[t] = h.awaited[t]  BY <1>2, <2>1, <2>3
    <3>2. t \in h.disp.r .. (h.incomplete - 1)  BY <1>3, <2>3 DEF i
    <3> QED  BY <3>1, <3>2 DEF InOrder, AcksAwaited
  <2> QED  BY <2>2, <2>3
<1>10. FlagsAwaited(k)
  <2> SUFFICES ASSUME NEW t \in (i + 1) .. (h.disp.w - 1)
               PROVE  /\ k.awaited[t] = {q \in h.connected : k.flags[q].w <= t}
                      /\ k.awaited[t] # {}
    BY <1>2 DEF FlagsAwaited
  <2>1. t \in Int /\ t \in Ticks /\ i < t
    BY <1>2, <1>3, <1>4, TicksAssumption DEF Ticks
  <2>2. k.awaited[t] = h.awaited[t]  BY <1>2, <1>3, <2>1
  <2>3. h.awaited[t] = {q \in h.connected : h.flags[q].w <= t} /\ h.awaited[t] # {}
    <3>1. t \in h.incomplete .. (h.disp.w - 1)  BY <1>3, <2>1 DEF i
    <3> QED  BY <3>1 DEF InOrder, FlagsAwaited
  <2>4. \A q \in h.connected : k.flags[q].w <= t <=> h.flags[q].w <= t
    BY <1>3, <1>5, <2>1
  <2> QED  BY <2>2, <2>3, <2>4
<1>11. MadeUpTold(k)
  <2> SUFFICES ASSUME NEW q \in Player, NEW t \in Ticks, h.disp.r <= t
               PROVE  /\ q \in k.reflected[t] <=> t \in k.made[q]
                      /\ q = LocalPlayer => t \notin k.made[q]
    BY <1>2 DEF MadeUpTold
  <2>1. /\ q \in h.reflected[t] <=> t \in h.made[q]
        /\ q = LocalPlayer => t \notin h.made[q] /\ q \notin Missing(h)
    BY DEF InOrder, MadeUpTold
  <2>2. k.reflected[t] = IF t = i THEN h.reflected[t] \cup Missing(h) ELSE h.reflected[t]
    <3>1. h.reflected \in [Ticks -> SUBSET Player]  BY <1>3, HubFields
    <3> QED  BY <1>2, <3>1 DEF Reflected, i
  <2>3. k.made[q] = IF q \in Missing(h) THEN h.made[q] \cup {i} ELSE h.made[q]
    BY <1>2 DEF MadeMore, i
  <2>4. CASE t = i  BY <2>1, <2>2, <2>3, <2>4
  <2>5. CASE t # i  BY <2>1, <2>2, <2>3, <2>5
  <2> QED  BY <2>4, <2>5
<1>12. OneAssertion(k)
  BY <1>2 DEF InOrder, OneAssertion
<1> QED  BY <1>1, <1>6, <1>7, <1>8, <1>9, <1>10, <1>11, <1>12 DEF InOrder

\* What hub_tick does about players that hold the others up keeps the books.
LEMMA HeldUpBooks ==
  ASSUME NEW h \in BoundedHubs, h.connected # {}, InOrder(h)
  PROVE  InOrder(HeldUp(h))
<1>1. PICK k \in BoundedHubs :
        /\ SameBooks(h, k)
        /\ \/ HeldUp(h) \in {h, k}
           \/ h.incomplete < h.disp.w /\ MayMakeUp(k) /\ HeldUp(h) = MadeUp(k)
  BY HeldUpCases
<1>2. InOrder(k)  BY <1>1, BooksUntouched
<1>3. k.connected = h.connected /\ k.incomplete = h.incomplete /\ k.disp = h.disp
  BY <1>1 DEF SameBooks
<1> QED  BY <1>1, <1>2, <1>3, MadeUpBooks DEF MayMakeUp

\* The rest of hub_tick keeps the books.
LEMMA FinishedBooks ==
  ASSUME NEW h \in BoundedHubs, NEW send \in BOOLEAN, h.connected # {}, InOrder(h)
  PROVE  InOrder(Finished(h, send))
<1>1. h \in HubRecords /\ HeldUp(h) \in HubRecords  BY HeldUpType DEF BoundedHubs
<1>2. Finished(h, send) \in {h, Sent(h), Sent(HeldUp(h))}  BY DEF Finished
<1> QED  BY <1>1, <1>2, HeldUpBooks, SentBooks

----------------------------------------------------------------------------
(* hub_received_game_data_packet_v1.                                        *)

\* After flags have been provided, acknowledgements are waited for exactly.
LEMMA AcksAwaitedAfter ==
  ASSUME NEW h \in HubRecords, NEW k \in HubRecords, WindowsOrdered(h), h.connected # {},
         AcksInWindow(h), AcksAwaited(h), MasksExtended(h, k),
         k.connected = h.connected, k.ack = h.ack, k.unsent = h.unsent,
         k.disp.r = h.disp.r
  PROVE  AcksInWindow(k) /\ AcksAwaited(k)
<1>1. AcksInWindow(k)
  BY DEF AcksInWindow, AckInWindow
<1>2. /\ h.disp.r \in Int /\ h.incomplete \in Int /\ k.incomplete \in Int
      /\ h.connected \in SUBSET Player
  BY HubFields
<1>3. ASSUME NEW t \in h.disp.r .. (k.incomplete - 1)
      PROVE  /\ k.awaited[t] = {q \in h.connected : h.ack[q] <= t}
             /\ k.awaited[t] # {}
  <2>1. CASE t < h.incomplete
    <3>1. t \in h.disp.r .. (h.incomplete - 1)  BY <1>2, <2>1
    <3> QED  BY <3>1 DEF MasksExtended, AcksAwaited
  <2>2. CASE h.incomplete <= t
    <3>1. t \in h.incomplete .. (k.incomplete - 1)  BY <1>2, <2>2
    <3>2. k.awaited[t] = h.connected  BY <3>1 DEF MasksExtended
    <3>3. h.connected = {q \in h.connected : h.ack[q] <= t}
      <4>1. \A q \in h.connected : AckInWindow(h, q)  BY DEF AcksInWindow
      <4>2. t \in Int  BY <1>2
      <4> QED  BY ONLY <1>2, <2>2, <4>1, <4>2, h \in HubRecords, WindowsOrdered(h),
                       NobodyAcknowledged
    <3> QED  BY <3>2, <3>3
  <2>3. t \in Int  BY <1>2
  <2> QED  BY <1>2, <2>1, <2>2, <2>3
<1>4. AcksAwaited(k)
  BY <1>3 DEF AcksAwaited
<1> QED  BY <1>1, <1>4

\* Flags that a connected player has sent are entered, provided and, if the
\* time has come, sent on.
LEMMA TakenBooks ==
  ASSUME NEW h \in BoundedHubs, InOrder(h), NEW p \in h.connected, NEW k,
         NEW n \in Nat, n # 0, TakesFlags(h, k, p, n),
         h.flags[p].w + n <= LastTick + 1, n <= Capacity - Size(h.flags[p])
  PROVE  LET a == h.flags[p].w
         IN Provided(k, p, a, a + n) \in HubRecords /\ InOrder(Provided(k, p, a, a + n))
<1> DEFINE a == h.flags[p].w
           m == Provided(k, p, a, a + n)
<1>1. /\ h \in HubRecords /\ h.connected \in SUBSET Player /\ p \in Player
      /\ h.disp.r \in Int /\ h.disp.w \in Int /\ h.incomplete \in Int
      /\ a \in Int /\ h.flags[p].r \in Int
      /\ \A q \in Player : h.flags[q].r \in Int /\ h.flags[q].w \in Int
  BY HubFields DEF BoundedHubs
<1>2. WindowsOrdered(h) /\ FlagsInWindow(h) /\ AcksInWindow(h) /\ AcksAwaited(h)
      /\ FlagsAwaited(h) /\ MadeUpTold(h) /\ OneAssertion(h)
  BY DEF InOrder
<1>3. /\ k \in HubRecords
      /\ k.connected = h.connected /\ k.deadTick = h.deadTick /\ k.ack = h.ack
      /\ k.incomplete = h.incomplete /\ k.unsent = h.unsent
      /\ k.made = h.made /\ k.awaited = h.awaited /\ k.reflected = h.reflected
      /\ k.disp = h.disp /\ k.reflect = h.reflect /\ k.sendTime = h.sendTime
      /\ k.broken = h.broken
      /\ \A q \in Player : k.flags[q] = IF q = p THEN Grow(h.flags[p], n) ELSE h.flags[q]
  BY DEF TakesFlags
<1>4. k \in BoundedHubs  BY <1>3 DEF BoundedHubs
<1>5. k.flags[p] = [r |-> h.flags[p].r, w |-> a + n]
  BY <1>1, <1>3 DEF Grow
<1> HIDE DEF a
<1>6. /\ h.incomplete <= a /\ a <= h.disp.w /\ h.disp.r <= h.incomplete
      /\ h.flags[p].r = h.disp.r /\ h.deadTick[p] <= a
  <2>1. h.disp.r <= h.incomplete
    <3>1. h.unsent \in Int  BY <1>1, HubFields
    <3> QED  BY <1>1, <1>2, <3>1 DEF WindowsOrdered
  <2>2. /\ h.flags[p].r = Least(a, h.disp.r) /\ a <= h.disp.w /\ h.deadTick[p] <= a
        /\ h.incomplete <= a
    BY <1>1, <1>2 DEF FlagsInWindow, QueueInWindow, a
  <2>3. Least(a, h.disp.r) = h.disp.r  BY <1>1, <2>1, <2>2 DEF Least
  <2> QED  BY <2>1, <2>2, <2>3
<1>7. a + n \in Int /\ a <= a + n /\ a + n <= h.disp.r + Capacity /\ a + n <= LastTick + 1
  <2>1. n <= Capacity - (a - h.disp.r)  BY <1>6 DEF Size, a
  <2> QED  BY <1>1, <2>1, QueueAssumption DEF a
<1>8. WindowsOrdered(k)  BY <1>2, <1>3 DEF WindowsOrdered
<1>9. QueuesBefore(k, p, a, a + n)
  <2>1. \A q \in Player : /\ k.flags[q].r = Least(k.flags[q].w, h.disp.r)
                          /\ h.deadTick[q] <= k.flags[q].w
                          /\ q # p \/ q \notin h.connected => k.flags[q].w <= h.disp.w
                          /\ q \in h.connected => h.incomplete <= k.flags[q].w
    <3> SUFFICES ASSUME NEW q \in Player
                 PROVE  /\ k.flags[q].r = Least(k.flags[q].w, h.disp.r)
                        /\ h.deadTick[q] <= k.flags[q].w
                        /\ q # p => k.flags[q].w <= h.disp.w
                        /\ q \in h.connected => h.incomplete <= k.flags[q].w
      OBVIOUS
    <3>1. CASE q # p
      <4>1. k.flags[q] = h.flags[q]  BY <1>3, <3>1
      <4> QED  BY <1>2, <4>1 DEF FlagsInWindow, QueueInWindow
    <3>2. CASE q = p
      <4>1. k.flags[q].r = h.disp.r /\ k.flags[q].w = a + n  BY <1>5, <1>6, <3>2
      <4>2. h.deadTick[p] \in Int  BY <1>1, HubFields
      <4>3. h.deadTick[p] <= a + n /\ h.incomplete <= a + n /\ h.disp.r <= a + n
        BY ONLY <1>1, <1>6, <1>7, <4>2, n \in Nat, a \in Int
      <4> QED  BY <1>1, <1>7, <3>2, <4>1, <4>3 DEF Least
    <3> QED  BY <3>1, <3>2
  <2>2. k.flags[p].w = a + n  BY <1>5
  <2> QED  BY <1>3, <1>6, <1>7, <2>1, <2>2 DEF QueuesBefore
<1>10. AwaitedFrom(k, p, a)
  <2> SUFFICES ASSUME NEW t \in h.incomplete .. (h.disp.w - 1)
               PROVE  /\ h.awaited[t] = {q \in h.connected \cup {p} : CountedTo(k, p, a, q) <= t}
                      /\ h.awaited[t] # {}
    BY <1>3 DEF AwaitedFrom
  <2>1. h.awaited[t] = {q \in h.connected : h.flags[q].w <= t} /\ h.awaited[t] # {}
    BY <1>2 DEF FlagsAwaited
  <2>2. \A q \in h.connected : CountedTo(k, p, a, q) = h.flags[q].w
    BY <1>1, <1>3 DEF CountedTo, a
  <2> QED  BY <2>1, <2>2
<1>11. MadeUpTold(k) /\ OneAssertion(k)
  BY <1>2, <1>3 DEF MadeUpTold, OneAssertion
<1>12. m = Provided(k, p, a, a + n)  OBVIOUS
<1> HIDE DEF m
<1>13. /\ m \in HubRecords
       /\ m.connected = k.connected /\ m.ack = k.ack /\ m.unsent = k.unsent
       /\ m.disp.r = k.disp.r
       /\ WindowsOrdered(m) /\ FlagsInWindow(m) /\ FlagsAwaited(m)
       /\ MadeUpTold(m) /\ OneAssertion(m) /\ MasksExtended(k, m)
  BY <1>1, <1>4, <1>7, <1>8, <1>9, <1>10, <1>11, <1>12, ProvidedBooks
<1>14. AcksInWindow(m) /\ AcksAwaited(m)
  <2>1. MasksExtended(h, m)  BY <1>3, <1>13 DEF MasksExtended
  <2> QED  BY <1>1, <1>2, <1>3, <1>13, <2>1, AcksAwaitedAfter
<1> QED  BY <1>12, <1>13, <1>14 DEF InOrder, a

\* The flags part of a connected player's packet keeps the books.
LEMMA FlagsReceivedBooks ==
  ASSUME NEW h \in BoundedHubs, InOrder(h), LateInStep(h), NEW p \in h.connected,
         NEW from \in Int, NEW to \in Int, NEW asked \in Int, from <= to,
         to <= LastTick + 1
  PROVE  InOrder(FlagsReceived(h, p, from, to, asked))
<1> DEFINE result == FlagsReceived(h, p, from, to, asked)
<1>1. h \in HubRecords /\ p \in Player /\ h.flags[p].w \in Int
  BY HubFields DEF BoundedHubs
<1> SUFFICES InOrder(result)  OBVIOUS
<1>2. CASE result = h  BY <1>2
<1>3. CASE result # h
  <2>1. PICK k \in HubRecords, n \in Nat :
          /\ TakesFlags(h, k, p, n)
          /\ IF n = 0 THEN result = k
             ELSE /\ h.flags[p].w + n <= to /\ n <= Capacity - Size(h.flags[p])
                  /\ result \in ProvidedFrom(k, p, h.flags[p].w, h.flags[p].w + n)
    BY <1>1, <1>3, FlagsTaken
  <2> HIDE DEF result
  <2>2. CASE n = 0
    <3>1. k.flags = h.flags
      <4>1. \A q \in Player : k.flags[q] = h.flags[q]
        <5> SUFFICES ASSUME NEW q \in Player  PROVE k.flags[q] = h.flags[q]
          OBVIOUS
        <5>1. k.flags[q] = IF q = p THEN Grow(h.flags[p], 0) ELSE h.flags[q]
          BY <2>1, <2>2 DEF TakesFlags
        <5>2. h.flags[p] \in Queue  BY <1>1 DEF HubRecords
        <5>3. Grow(h.flags[p], 0) = h.flags[p]
          BY <5>2, QueueEnds DEF Grow
        <5> QED  BY <5>1, <5>3
      <4>2. k.flags \in [Player -> Queue] /\ h.flags \in [Player -> Queue]
        BY <1>1 DEF HubRecords
      <4> QED  BY ONLY <4>1, <4>2
    <3>2. SameBooks(h, k)  BY <2>1, <3>1 DEF TakesFlags, SameBooks
    <3> QED  BY <2>1, <2>2, <3>2, BooksUntouched
  <2>3. CASE n # 0
    <3> DEFINE a == h.flags[p].w
               m == Provided(k, p, a, a + n)
    <3>1. a + n <= LastTick + 1 /\ n <= Capacity - Size(h.flags[p])
      BY <1>1, <2>1, <2>3, TicksAssumption
    <3>2. result \in {m, Sent(m)}  BY <2>1, <2>3 DEF ProvidedFrom
    <3>3. m \in HubRecords /\ InOrder(m)
      BY <2>1, <2>3, <3>1, TakenBooks
    <3> HIDE DEF m
    <3> QED  BY <3>2, <3>3, SentBooks
  <2> QED  BY <2>2, <2>3
<1> QED  BY <1>2, <1>3

\* hub_received_game_data_packet_v1 keeps the books, if the packet
\* acknowledges what was sent.
LEMMA GameDataBooks ==
  ASSUME NEW h \in BoundedHubs, InOrder(h), LateInStep(h), NEW p \in h.connected,
         NEW ack \in Int, ack <= h.unsent, NEW from \in Int, NEW to \in Int,
         NEW asked \in Int, from <= to, to <= LastTick + 1
  PROVE  InOrder(GameData(h, p, ack, from, to, asked))
<1> DEFINE k == Acknowledged(h, p, ack)
<1>1. /\ h \in HubRecords /\ p \in Player /\ h.connected \in SUBSET Player
      /\ h.ack[p] \in Int /\ h.unsent \in Int /\ h.incomplete \in Int /\ h.disp.r \in Int
      /\ \A q \in Player : h.ack[q] \in Int
  BY HubFields DEF BoundedHubs
<1>2. WindowsOrdered(h) /\ FlagsInWindow(h) /\ AcksInWindow(h) /\ AcksAwaited(h)
      /\ FlagsAwaited(h) /\ MadeUpTold(h) /\ OneAssertion(h)
  BY DEF InOrder
<1>3. k = Acknowledged(h, p, ack)  OBVIOUS
<1>4. GameData(h, p, ack, from, to, asked) \in {h, k, FlagsReceived(k, p, from, to, asked)}
  BY DEF GameData
<1> HIDE DEF k
<1>5. k \in BoundedHubs /\ LateInStep(k)
  BY <1>1, <1>3, AcknowledgedBounded, AcknowledgedLate
<1>6. k.connected = h.connected /\ InOrder(k)
  <2>1. CASE ack < h.ack[p]
    BY <1>3, <2>1 DEF Acknowledged
  <2>2. CASE h.ack[p] <= ack
    <3>1. k.connected = h.connected  BY <1>1, <1>3, <2>2, AcknowledgedFields
    <3>2. h.disp.r <= h.ack[p] /\ ack <= h.incomplete
      <4>1. h.disp.r <= h.ack[p]  BY <1>2 DEF AcksInWindow, AckInWindow
      <4>2. h.unsent <= h.incomplete  BY <1>2 DEF WindowsOrdered
      <4> QED  BY <1>1, <4>1, <4>2
    <3>3. \A q \in h.connected \ {p} : AckInWindow(h, q)
      BY <1>2 DEF AcksInWindow
    <3>4. AwaitedUntil(h, p, ack)
      <4> SUFFICES ASSUME NEW t \in h.disp.r .. (h.incomplete - 1)
                   PROVE  /\ h.awaited[t] = {q \in Player :
                               /\ q \in h.connected \/ (q = p /\ t < ack)
                               /\ h.ack[q] <= t}
                          /\ h.awaited[t] # {}
        BY DEF AwaitedUntil
      <4>1. h.awaited[t] = {q \in h.connected : h.ack[q] <= t} /\ h.awaited[t] # {}
        BY <1>2 DEF AcksAwaited
      <4>2. {q \in h.connected : h.ack[q] <= t}
              = {q \in Player : /\ q \in h.connected \/ (q = p /\ t < ack)
                                /\ h.ack[q] <= t}
        BY ONLY <1>1, p \in h.connected
      <4> QED  BY ONLY <4>1, <4>2
    <3>5. InOrder(k)
      BY <1>1, <1>2, <1>3, <2>2, <3>2, <3>3, <3>4, AcknowledgedBooks
    <3> QED  BY <3>1, <3>5
  <2> QED  BY <1>1, <2>1, <2>2
<1>7. InOrder(FlagsReceived(k, p, from, to, asked))
  BY <1>5, <1>6, FlagsReceivedBooks
<1> QED  BY <1>4, <1>6, <1>7

----------------------------------------------------------------------------
(* make_player_netdead and hub_initialize.                                  *)

\* Nobody's books are kept once the last player is dead.
LEMMA BuryConnected ==
  ASSUME NEW h \in HubRecords, NEW p \in Player
  PROVE  Bury(h, p).connected = h.connected
<1> DEFINE k == Provided(h, p, h.flags[p].w, h.disp.w)
           m == Acknowledged(k, p, h.incomplete)
<1>1. h.flags[p].w \in Int /\ h.disp.w \in Int /\ h.incomplete \in Int
  BY HubFields
<1>2. k = Provided(h, p, h.flags[p].w, h.disp.w) /\ Bury(h, p) = m
  BY DEF Bury
<1> HIDE DEF k
<1>3. k \in HubRecords /\ k.connected = h.connected
  BY <1>1, <1>2, ProvidedFields
<1>4. m = Acknowledged(k, p, h.incomplete)  OBVIOUS
<1> HIDE DEF m
<1>5. m.connected = k.connected
  <2>1. CASE h.incomplete < k.ack[p]  BY <1>4, <2>1 DEF Acknowledged
  <2>2. CASE k.ack[p] <= h.incomplete  BY <1>1, <1>3, <1>4, <2>2, AcknowledgedFields
  <2>3. k.ack[p] \in Int  BY <1>3, HubFields
  <2> QED  BY <1>1, <2>1, <2>2, <2>3
<1> QED  BY <1>2, <1>3, <1>5

\* When a player dies and another one is left, what the dead one provided and
\* acknowledged in the end brings the books back into order.
LEMMA BuryBooks ==
  ASSUME NEW h \in BoundedHubs, InOrder(h), NEW p \in h.connected, h.connected \ {p} # {}
  PROVE  InOrder(Bury(MarkNetDead(h, p), p))
<1> DEFINE m == MarkNetDead(h, p)
           k == Provided(m, p, m.flags[p].w, m.disp.w)
<1>1. /\ h \in HubRecords /\ p \in Player /\ h.connected \in SUBSET Player
      /\ h.unsent \in Int /\ h.incomplete \in Int /\ h.disp.r \in Int /\ h.disp.w \in Int
      /\ h.disp.w <= LastTick + 1
      /\ \A q \in Player : h.ack[q] \in Int /\ h.flags[q].w \in Int
  BY HubFields DEF BoundedHubs
<1>2. WindowsOrdered(h) /\ FlagsInWindow(h) /\ AcksInWindow(h) /\ AcksAwaited(h)
      /\ FlagsAwaited(h) /\ MadeUpTold(h) /\ OneAssertion(h)
  BY DEF InOrder
<1>3. m = MarkNetDead(h, p) /\ Bury(m, p) = Acknowledged(k, p, m.incomplete)
  BY DEF Bury
<1>4. m \in BoundedHubs  BY <1>1, MarkNetDeadType
<1>5. k = Provided(m, p, m.flags[p].w, m.disp.w)  OBVIOUS
<1> HIDE DEF m, k
<1>6. /\ m \in HubRecords
      /\ m.connected = h.connected \ {p}
      /\ \A q \in Player : m.deadTick[q] = IF q = p THEN h.incomplete ELSE h.deadTick[q]
      /\ m.incomplete = h.incomplete /\ m.unsent = h.unsent
      /\ m.ack = h.ack /\ m.awaited = h.awaited /\ m.disp = h.disp
      /\ m.sendTime = h.sendTime /\ m.reflect = h.reflect
      /\ m.reflected = h.reflected /\ m.flags = h.flags
      /\ m.made = h.made /\ m.broken = h.broken
  BY <1>1, <1>3, MarkNetDeadFields
<1>7. WindowsOrdered(m) /\ MadeUpTold(m) /\ OneAssertion(m)
  BY <1>2, <1>6 DEF WindowsOrdered, MadeUpTold, OneAssertion
<1>8. /\ h.incomplete <= h.flags[p].w /\ h.flags[p].w <= h.disp.w
      /\ h.disp.w <= h.disp.r + Capacity
  BY <1>1, <1>2 DEF FlagsInWindow, QueueInWindow, WindowsOrdered
<1>9. QueuesBefore(m, p, m.flags[p].w, m.disp.w)
  <2>1. \A q \in Player : /\ m.flags[q].r = Least(m.flags[q].w, m.disp.r)
                          /\ m.deadTick[q] <= m.flags[q].w
                          /\ m.flags[q].w <= m.disp.w
                          /\ q \in m.connected => m.incomplete <= m.flags[q].w
    BY <1>2, <1>6, <1>8 DEF FlagsInWindow, QueueInWindow
  <2> QED  BY <1>1, <1>6, <1>8, <2>1 DEF QueuesBefore
<1>10. AwaitedFrom(m, p, m.flags[p].w)
  <2>1. \A q : CountedTo(m, p, m.flags[p].w, q) = h.flags[q].w
    BY <1>6 DEF CountedTo
  <2>2. m.connected \cup {p} = h.connected  BY <1>6
  <2> QED  BY <1>2, <1>6, <2>1, <2>2 DEF AwaitedFrom, FlagsAwaited
<1>11. /\ k \in HubRecords
       /\ k.connected = m.connected /\ k.ack = m.ack /\ k.unsent = m.unsent
       /\ k.disp.r = m.disp.r /\ m.incomplete <= k.incomplete
       /\ WindowsOrdered(k) /\ FlagsInWindow(k) /\ FlagsAwaited(k)
       /\ MadeUpTold(k) /\ OneAssertion(k) /\ MasksExtended(m, k)
  BY <1>1, <1>4, <1>5, <1>6, <1>7, <1>9, <1>10, ProvidedBooks
<1>12. k \in BoundedHubs
  BY <1>1, <1>4, <1>5, <1>6, ProvidedBounded
<1>13. h.disp.r <= h.ack[p] /\ h.ack[p] <= h.incomplete
  <2>1. h.disp.r <= h.ack[p] /\ h.ack[p] <= h.unsent  BY <1>2 DEF AcksInWindow, AckInWindow
  <2>2. h.unsent <= h.incomplete  BY <1>2 DEF WindowsOrdered
  <2> QED  BY <1>1, <2>1, <2>2
<1>14. \A q \in k.connected \ {p} : AckInWindow(k, q)
  BY <1>2, <1>6, <1>11 DEF AcksInWindow, AckInWindow
<1>15. AwaitedUntil(k, p, h.incomplete)
  <2> SUFFICES ASSUME NEW t \in h.disp.r .. (k.incomplete - 1)
               PROVE  /\ k.awaited[t] = {q \in Player :
                           /\ q \in h.connected \ {p} \/ (q = p /\ t < h.incomplete)
                           /\ h.ack[q] <= t}
                      /\ k.awaited[t] # {}
    BY <1>6, <1>11 DEF AwaitedUntil
  <2>0. k.incomplete \in Int /\ t \in Int  BY <1>1, <1>11, HubFields
  <2>1. CASE t < h.incomplete
    <3>1. t \in h.disp.r .. (h.incomplete - 1)  BY <1>1, <2>0, <2>1
    <3>2. k.awaited[t] = h.awaited[t]  BY <1>6, <1>11, <3>1 DEF MasksExtended
    <3>3. h.awaited[t] = {q \in h.connected : h.ack[q] <= t} /\ h.awaited[t] # {}
      BY <1>2, <3>1 DEF AcksAwaited
    <3> QED  BY <1>1, <2>1, <3>2, <3>3
  <2>2. CASE h.incomplete <= t
    <3>1. t \in h.incomplete .. (k.incomplete - 1)  BY <1>1, <2>0, <2>2
    <3>2. k.awaited[t] = h.connected \ {p}  BY <1>6, <1>11, <3>1 DEF MasksExtended
    <3>3. h.connected \ {p} = {q \in h.connected \ {p} : h.ack[q] <= t}
      <4>1. \A q \in h.connected \ {p} : AckInWindow(h, q)  BY <1>2 DEF AcksInWindow
      <4>2. h.connected \ {p} \in SUBSET Player  BY <1>1
      <4> QED  BY ONLY <1>1, <1>2, <2>0, <2>2, <4>1, <4>2, NobodyAcknowledged
    <3>4. ~(t < h.incomplete)  BY <1>1, <2>0, <2>2
    <3> QED  BY <1>1, <3>2, <3>3, <3>4
  <2> QED  BY <1>1, <2>0, <2>1, <2>2
<1>16. InOrder(Acknowledged(k, p, h.incomplete))
  BY <1>1, <1>6, <1>11, <1>12, <1>13, <1>14, <1>15, AcknowledgedBooks
<1> QED  BY <1>3, <1>6, <1>16 DEF m

\* make_player_netdead keeps the books.
LEMMA NetDeadBooks ==
  ASSUME NEW h \in BoundedHubs, InOrder(h), NEW p \in h.connected
  PROVE  Books(NetDead(h, p))
<1> DEFINE m == MarkNetDead(h, p)
<1>1. h \in HubRecords /\ p \in Player  BY HubFields DEF BoundedHubs
<1>2. m \in BoundedHubs /\ m \in HubRecords /\ m.connected = h.connected \ {p}
  <2>1. m \in BoundedHubs  BY <1>1, MarkNetDeadType
  <2>2. m = MarkNetDead(h, p)  OBVIOUS
  <2> HIDE DEF m
  <2> QED  BY <1>1, <2>1, <2>2, MarkNetDeadFields DEF BoundedHubs
<1>3. CASE NetDead(h, p) = Bury(m, p)
  <2>1. CASE h.connected \ {p} = {}
    BY <1>1, <1>2, <1>3, <2>1, BuryConnected DEF Books
  <2>2. CASE h.connected \ {p} # {}
    BY <1>3, <2>2, BuryBooks DEF Books
  <2> QED  BY <2>1, <2>2
<1>4. ASSUME NEW last \in Player, m.connected = {last},
             NetDead(h, p) = Bury(Bury(MarkNetDead(m, last), last), p)
      PROVE  Books(NetDead(h, p))
  <2> HIDE DEF m
  <2> DEFINE n == MarkNetDead(m, last)
  <2>1. n \in BoundedHubs  BY <1>2, MarkNetDeadType
  <2>2. n = MarkNetDead(m, last)  OBVIOUS
  <2>3. NetDead(h, p) = Bury(Bury(n, last), p)  BY <1>4
  <2> HIDE DEF n
  <2>4. n.connected = {}  BY <1>2, <1>4, <2>2, MarkNetDeadFields
  <2>5. Bury(n, last) \in HubRecords /\ Bury(n, last).connected = {}
    BY <2>1, <2>4, BuryType, BuryConnected DEF BoundedHubs
  <2>6. NetDead(h, p).connected = {}
    BY <1>1, <2>3, <2>5, BuryConnected
  <2> QED  BY <2>6 DEF Books
<1> QED  BY <1>1, <1>3, <1>4, NetDeadCases

\* hub_initialize starts with the books in order.
LEMMA InitialBooks ==
  ASSUME NEW connected \in SUBSET Player
  PROVE  InOrder(Initial(connected))
<1> DEFINE h == Initial(connected)
<1>1. /\ h.connected = connected /\ h.incomplete = FirstTick /\ h.unsent = FirstTick
      /\ h.disp = EmptyAt(FirstTick) /\ h.reflect = EmptyAt(FirstTick)
      /\ h.sendTime = EmptyAt(FirstTick) /\ h.broken = {}
      /\ \A q \in Player : h.ack[q] = FirstTick /\ h.deadTick[q] = FirstTick - 1
                           /\ h.flags[q] = EmptyAt(FirstTick) /\ h.made[q] = {}
      /\ \A t \in Ticks : h.reflected[t] = {}
  BY DEF Initial
<1> HIDE DEF h
<1>2. FirstTick \in Int /\ Capacity \in Nat  BY TicksAssumption, QueueAssumption
<1>3. WindowsOrdered(h)
  BY <1>1, <1>2 DEF WindowsOrdered, EmptyAt
<1>4. FlagsInWindow(h)
  BY <1>1, <1>2 DEF FlagsInWindow, QueueInWindow, EmptyAt, Least
<1>5. AcksInWindow(h)
  BY <1>1, <1>2 DEF AcksInWindow, AckInWindow, EmptyAt
<1>6. AcksAwaited(h) /\ FlagsAwaited(h)
  BY <1>1, <1>2 DEF AcksAwaited, FlagsAwaited, EmptyAt
<1>7. MadeUpTold(h) /\ OneAssertion(h)
  BY <1>1 DEF MadeUpTold, OneAssertion
<1> QED  BY <1>3, <1>4, <1>5, <1>6, <1>7 DEF InOrder, h

----------------------------------------------------------------------------
(* Going onward.                                                            *)

\* No queue of flags is read beyond its end.
FlagsOrdered(h) == \A p \in Player : h.flags[p].r <= h.flags[p].w

\* Flags are read and written in order, and not rewritten.
FlagsKept(h, k, p) ==
  /\ h.flags[p].r <= k.flags[p].r /\ h.flags[p].w <= k.flags[p].w
  /\ \A t \in Int : t < h.flags[p].w /\ k.flags[p].r <= t
                        => (t \in h.made[p] <=> t \in k.made[p])

\* Nobody returns; who leaves has the flags of the complete ticks to its name,
\* who stays or has left before does not die again, and acknowledges more.
PlayerKept(h, k, p) ==
  /\ p \in k.connected => p \in h.connected /\ h.ack[p] <= k.ack[p]
  /\ IF p \in h.connected /\ p \notin k.connected
     THEN h.incomplete <= k.deadTick[p]
     ELSE k.deadTick[p] = h.deadTick[p]

Onward(h, k) ==
  /\ k \in HubRecords
  /\ h.incomplete <= k.incomplete
  /\ k.postGame = h.postGame /\ StopsWithCause(h, k)
  /\ FlagsOrdered(h) => FlagsOrdered(k) /\ \A p \in Player : FlagsKept(h, k, p)
  /\ \A p \in Player : PlayerKept(h, k, p)

\* sHubActive that was cleared with cause stays so.
LEMMA StopTransitive ==
  ASSUME NEW h \in HubRecords, NEW k \in HubRecords, NEW m \in HubRecords,
         m.postGame = k.postGame, \A p \in Player : PlayerKept(k, m, p),
         StopsWithCause(h, k), StopsWithCause(k, m)
  PROVE  StopsWithCause(h, m)
<1>1. CASE m.active = FALSE /\ StillActive(m) = {}
  BY <1>1, Zenon DEF StopsWithCause
<1>2. CASE m.active = k.active /\ k.active = h.active
  <2>1. m.active = h.active  BY ONLY <1>2
  <2> QED  BY ONLY <2>1, Zenon DEF StopsWithCause
<1>3. CASE m.active = k.active /\ k.active = FALSE /\ StillActive(k) = {}
  <2>1. m.active = FALSE  BY ONLY <1>3
  <2>2. /\ m.connected \in SUBSET Player
        /\ \A p \in Player : k.ack[p] \in Int /\ m.ack[p] \in Int
        /\ k.postGame \in Int
    BY HubFields DEF HubRecords
  <2>3. StillActive(m) = {}
    <3> SUFFICES ASSUME NEW p \in m.connected, m.ack[p] < m.postGame  PROVE FALSE
      BY DEF StillActive
    <3>1. p \in Player /\ p \in k.connected /\ k.ack[p] <= m.ack[p]
      BY <2>2 DEF PlayerKept
    <3>2. k.ack[p] < k.postGame  BY <2>2, <3>1
    <3> QED  BY <1>3, <3>1, <3>2 DEF StillActive
  <2> QED  BY ONLY <2>1, <2>3, Zenon DEF StopsWithCause
<1> QED  BY <1>1, <1>2, <1>3, Zenon DEF StopsWithCause

LEMMA OnwardTransitive ==
  ASSUME NEW h \in HubRecords, NEW k, NEW m, Onward(h, k), Onward(k, m)
  PROVE  Onward(h, m)
<1>1. k \in HubRecords /\ m \in HubRecords  BY DEF Onward
<1>2. /\ h.incomplete \in Int /\ k.incomplete \in Int /\ m.incomplete \in Int
      /\ \A p \in Player : h.ack[p] \in Int /\ k.ack[p] \in Int /\ m.ack[p] \in Int
      /\ \A p \in Player : h.deadTick[p] \in Int /\ k.deadTick[p] \in Int /\ m.deadTick[p] \in Int
      /\ \A p \in Player : /\ h.flags[p].r \in Int /\ h.flags[p].w \in Int
                           /\ k.flags[p].r \in Int /\ k.flags[p].w \in Int
                           /\ m.flags[p].r \in Int /\ m.flags[p].w \in Int
  BY <1>1, HubFields
<1>3. h.incomplete <= k.incomplete /\ k.incomplete <= m.incomplete  BY DEF Onward
<1>4. h.incomplete <= m.incomplete  BY <1>2, <1>3
<1>5. m.postGame = h.postGame  BY DEF Onward
<1>6. StopsWithCause(h, m)  BY <1>1, StopTransitive DEF Onward
<1>7. ASSUME FlagsOrdered(h), NEW p \in Player  PROVE FlagsKept(h, m, p)
  <2>1. FlagsKept(h, k, p) /\ FlagsKept(k, m, p)  BY <1>7 DEF Onward
  <2> QED  BY ONLY <1>2, <2>1, p \in Player DEF FlagsKept
<1>8. FlagsOrdered(h) => FlagsOrdered(m)  BY DEF Onward
<1>9. ASSUME NEW p \in Player  PROVE PlayerKept(h, m, p)
  <2>1. PlayerKept(h, k, p) /\ PlayerKept(k, m, p)  BY DEF Onward
  <2> QED  BY ONLY <1>2, <1>3, <2>1, p \in Player DEF PlayerKept
<1> QED  BY <1>1, <1>4, <1>5, <1>6, <1>7, <1>8, <1>9 DEF Onward

\* What leaves the flags, the players and the end alone goes onward.
LEMMA OnwardFlagsUntouched ==
  ASSUME NEW h \in HubRecords, NEW k \in HubRecords,
         k.connected = h.connected, k.deadTick = h.deadTick, k.ack = h.ack,
         k.flags = h.flags, k.made = h.made, h.incomplete <= k.incomplete,
         k.postGame = h.postGame, StopsWithCause(h, k)
  PROVE  Onward(h, k)
<1>1. \A p \in Player : /\ h.flags[p].r \in Int /\ h.flags[p].w \in Int
                        /\ h.ack[p] \in Int
  BY HubFields
<1>2. \A p \in Player : FlagsKept(h, k, p)  BY <1>1 DEF FlagsKept
<1>3. \A p \in Player : PlayerKept(h, k, p)  BY <1>1 DEF PlayerKept
<1>4. FlagsOrdered(h) => FlagsOrdered(k)  BY DEF FlagsOrdered
<1> QED  BY <1>2, <1>3, <1>4 DEF Onward

LEMMA OnwardSameBooks ==
  ASSUME NEW h \in HubRecords, NEW k, SameBooks(h, k), SameEnd(h, k)
  PROVE  Onward(h, k)
<1>1. h.incomplete \in Int  BY HubFields
<1> QED  BY <1>1, OnwardFlagsUntouched DEF SameBooks, SameEnd

LEMMA OnwardReflexive ==
  ASSUME NEW h \in HubRecords
  PROVE  Onward(h, h)
<1>1. h.incomplete \in Int  BY HubFields
<1>2. StopsWithCause(h, h)  BY Zenon DEF StopsWithCause
<1> QED  BY <1>1, <1>2, OnwardFlagsUntouched

----------------------------------------------------------------------------
(* The functions of the hub go onward.                                      *)

\* player_acknowledged_up_to_tick: ticks leave a queue only if they are in it.
LEMMA AcknowledgedOnward ==
  ASSUME NEW h \in HubRecords, NEW p \in Player, NEW tick \in Int
  PROVE  Onward(h, Acknowledged(h, p, tick))
<1>0. h.ack[p] \in Int  BY HubFields
<1>1. CASE tick < h.ack[p]
  BY <1>1, OnwardReflexive DEF Acknowledged
<1>2. CASE h.ack[p] <= tick
  <2> DEFINE k == Acknowledged(h, p, tick)
             n == Count(h, p, tick)
  <2>0. k = Acknowledged(h, p, tick)  OBVIOUS
  <2> HIDE DEF k
  <2>1. /\ k \in HubRecords
        /\ k.connected = h.connected /\ k.deadTick = h.deadTick
        /\ k.incomplete = h.incomplete /\ k.postGame = h.postGame
        /\ \A q \in Player : k.ack[q] = IF q = p THEN tick ELSE h.ack[q]
        /\ k.flags = Dequeued(h, n) /\ k.made = StillMade(h, n)
    BY <1>2, <2>0, AcknowledgedFields
  <2>2. StopsWithCause(h, k)  BY <1>2, <2>0, AcknowledgedFields
  <2>3. n \in Nat
    <3>1. h.ack[p] \in Int /\ tick - 1 \in Int  BY <1>0
    <3>2. Done(h, p, tick) \in SUBSET (h.ack[p] .. (tick - 1))  BY DEF Done
    <3>3. Cardinality(Done(h, p, tick)) \in Nat
      BY ONLY <3>1, <3>2, CardinalityOfTicks
    <3> QED  BY <3>3 DEF Count
  <2> HIDE DEF n
  <2>4. /\ h.incomplete \in Int
        /\ \A q \in Player : h.flags[q].r \in Int /\ h.flags[q].w \in Int /\ h.ack[q] \in Int
    BY HubFields
  <2>5. \A q \in Player : /\ k.flags[q].r = h.flags[q].r + Least(n, Size(h.flags[q]))
                          /\ k.flags[q].w = h.flags[q].w
    BY <2>1 DEF Dequeued, Drop
  <2>6. ASSUME NEW q \in Player, h.flags[q].r <= h.flags[q].w
        PROVE  h.flags[q].r <= k.flags[q].r /\ k.flags[q].r <= k.flags[q].w
    BY <2>3, <2>4, <2>5, <2>6 DEF Least, Size
  <2>7. FlagsOrdered(h) => FlagsOrdered(k)  BY <2>6 DEF FlagsOrdered
  <2>8. ASSUME FlagsOrdered(h), NEW q \in Player  PROVE FlagsKept(h, k, q)
    <3>1. h.flags[q].r <= k.flags[q].r /\ h.flags[q].w <= k.flags[q].w
      BY <2>4, <2>5, <2>6, <2>8 DEF FlagsOrdered
    <3>2. \A t \in Int : k.flags[q].r <= t => (t \in h.made[q] <=> t \in k.made[q])
      BY <2>1 DEF StillMade
    <3> QED  BY <3>1, <3>2 DEF FlagsKept
  <2>9. \A q \in Player : PlayerKept(h, k, q)
    BY <1>2, <2>1, <2>4 DEF PlayerKept
  <2>10. h.incomplete <= k.incomplete  BY <2>1, <2>4
  <2>11. Onward(h, k)  BY ONLY <2>1, <2>2, <2>7, <2>8, <2>9, <2>10 DEF Onward
  <2> QED  BY <2>11 DEF k
<1> QED  BY <1>0, <1>1, <1>2

\* player_provided_flags_from_tick_to_tick.
LEMMA ProvidedOnward ==
  ASSUME NEW h \in HubRecords, NEW p \in Player, NEW from \in Int, NEW to \in Int
  PROVE  Onward(h, Provided(h, p, from, to))
<1> DEFINE k == Provided(h, p, from, to)
           n == Completed(h, p, from, to)
<1>1. k = Provided(h, p, from, to)  OBVIOUS
<1> HIDE DEF k
<1>2. /\ k \in HubRecords /\ n \in Nat /\ k.incomplete = h.incomplete + n
      /\ k.connected = h.connected /\ k.deadTick = h.deadTick /\ k.ack = h.ack
      /\ k.flags = h.flags /\ k.made = h.made /\ k.postGame = h.postGame
  BY ONLY <1>1, h \in HubRecords, p \in Player, from \in Int, to \in Int, ProvidedFields
<1> HIDE DEF n
<1>3. StopsWithCause(h, k)  BY <1>1, ProvidedFields
<1>4. h.incomplete <= k.incomplete  BY <1>2, HubFields
<1> QED  BY <1>2, <1>3, <1>4, OnwardFlagsUntouched DEF k

\* send_packets.
LEMMA SentOnward ==
  ASSUME NEW h \in HubRecords
  PROVE  Onward(h, Sent(h))
<1> DEFINE k == Sent(h)
<1>1. /\ k.connected = h.connected /\ k.deadTick = h.deadTick /\ k.ack = h.ack
      /\ k.flags = h.flags /\ k.made = h.made /\ k.postGame = h.postGame
      /\ k.incomplete = h.incomplete
  BY DEF Sent, HubRecords
<1>2. StopsWithCause(h, k)
  <2>1. k.active = h.active  BY DEF Sent, HubRecords
  <2> QED  BY ONLY <2>1, Zenon DEF StopsWithCause
<1>3. k \in HubRecords  BY SentType
<1> HIDE DEF k
<1>4. h.incomplete <= k.incomplete  BY <1>1, HubFields
<1> QED  BY <1>1, <1>2, <1>3, <1>4, OnwardFlagsUntouched DEF k

\* make_up_flags_for_first_incomplete_tick makes flags up only where there
\* are none.
LEMMA MadeUpOnward ==
  ASSUME NEW h \in BoundedHubs, h.incomplete < h.disp.w
  PROVE  Onward(h, MadeUp(h))
<1> DEFINE k == MadeUp(h)
<1>1. k = MadeUp(h)  OBVIOUS
<1> HIDE DEF k
<1>2. /\ k \in HubRecords
      /\ k.connected = h.connected /\ k.deadTick = h.deadTick /\ k.ack = h.ack
      /\ k.postGame = h.postGame /\ k.incomplete = h.incomplete + 1
      /\ k.flags = FlagsExtended(h) /\ k.made = MadeMore(h)
  BY <1>1, MadeUpFields
<1>3. StopsWithCause(h, k)  BY <1>1, MadeUpFields
<1>4. /\ h.incomplete \in Int
      /\ \A q \in Player : h.flags[q].r \in Int /\ h.flags[q].w \in Int /\ h.ack[q] \in Int
  BY HubFields DEF BoundedHubs
<1>5. \A q \in Player :
        /\ k.flags[q].r = h.flags[q].r
        /\ k.flags[q].w = h.flags[q].w \/ k.flags[q].w = h.flags[q].w + 1
        /\ \A t : t < h.flags[q].w => (t \in h.made[q] <=> t \in k.made[q])
  <2> SUFFICES ASSUME NEW q \in Player
               PROVE  /\ k.flags[q].r = h.flags[q].r
                      /\ k.flags[q].w = h.flags[q].w \/ k.flags[q].w = h.flags[q].w + 1
                      /\ \A t : t < h.flags[q].w => (t \in h.made[q] <=> t \in k.made[q])
    OBVIOUS
  <2>1. CASE q \in Missing(h)
    <3>1. k.flags[q] = Grow(h.flags[q], 1) /\ k.made[q] = h.made[q] \cup {h.incomplete}
      BY <1>2, <2>1 DEF FlagsExtended, MadeMore
    <3>2. h.flags[q].w = h.incomplete  BY <2>1 DEF Missing
    <3> QED  BY <1>4, <3>1, <3>2 DEF Grow
  <2>2. CASE q \notin Missing(h)
    BY <1>2, <2>2 DEF FlagsExtended, MadeMore
  <2> QED  BY <2>1, <2>2
<1>6. FlagsOrdered(h) => FlagsOrdered(k)
  BY ONLY <1>4, <1>5 DEF FlagsOrdered
<1>7. \A q \in Player : FlagsKept(h, k, q)
  BY ONLY <1>4, <1>5 DEF FlagsKept
<1>8. \A q \in Player : PlayerKept(h, k, q)
  BY ONLY <1>2, <1>4 DEF PlayerKept
<1>9. h.incomplete <= k.incomplete  BY <1>2, <1>4
<1>10. Onward(h, k)  BY ONLY <1>2, <1>3, <1>6, <1>7, <1>8, <1>9 DEF Onward
<1> QED  BY <1>10 DEF k

\* The end of hub_tick.
LEMMA HeldUpOnward ==
  ASSUME NEW h \in BoundedHubs
  PROVE  Onward(h, HeldUp(h))
<1>1. h \in HubRecords  BY DEF BoundedHubs
<1>2. PICK k \in BoundedHubs :
        /\ SameBooks(h, k) /\ SameEnd(h, k)
        /\ HeldUp(h) \in {h, k} \/ (h.incomplete < h.disp.w /\ HeldUp(h) = MadeUp(k))
  BY HeldUpCases
<1>3. Onward(h, k)  BY <1>1, <1>2, OnwardSameBooks
<1>4. h.incomplete < h.disp.w => Onward(k, MadeUp(k))
  BY <1>2, MadeUpOnward DEF SameBooks
<1>5. h.incomplete < h.disp.w => Onward(h, MadeUp(k))
  BY <1>1, <1>3, <1>4, OnwardTransitive
<1> QED  BY <1>1, <1>2, <1>3, <1>5, OnwardReflexive

LEMMA FinishedOnward ==
  ASSUME NEW h \in BoundedHubs, NEW send \in BOOLEAN
  PROVE  Onward(h, Finished(h, send))
<1> DEFINE k == HeldUp(h)
<1>1. h \in HubRecords /\ k \in HubRecords  BY HeldUpType DEF BoundedHubs
<1>2. Finished(h, send) \in {h, Sent(h), Sent(k)}  BY DEF Finished
<1>3. Onward(h, k)  BY HeldUpOnward
<1> HIDE DEF k
<1>4. Onward(h, Sent(k))  BY <1>1, <1>3, SentOnward, OnwardTransitive
<1> QED  BY <1>1, <1>2, <1>4, SentOnward, OnwardReflexive

\* Flags that are entered follow those that are there.
LEMMA TakesFlagsOnward ==
  ASSUME NEW h \in HubRecords, NEW k, NEW p \in Player, NEW n \in Nat,
         TakesFlags(h, k, p, n), StopsWithCause(h, k)
  PROVE  Onward(h, k)
<1>1. /\ h.incomplete \in Int
      /\ \A q \in Player : h.flags[q].r \in Int /\ h.flags[q].w \in Int /\ h.ack[q] \in Int
  BY HubFields
<1>2. /\ k \in HubRecords
      /\ k.connected = h.connected /\ k.deadTick = h.deadTick /\ k.ack = h.ack
      /\ k.postGame = h.postGame /\ k.incomplete = h.incomplete /\ k.made = h.made
      /\ \A q \in Player : k.flags[q] = IF q = p THEN Grow(h.flags[p], n) ELSE h.flags[q]
  BY DEF TakesFlags
<1>3. \A q \in Player : k.flags[q].r = h.flags[q].r /\ h.flags[q].w <= k.flags[q].w
                        /\ k.flags[q].w \in Int
  BY <1>1, <1>2 DEF Grow
<1>4. FlagsOrdered(h) => FlagsOrdered(k)
  BY ONLY <1>1, <1>3 DEF FlagsOrdered
<1>5. \A q \in Player : FlagsKept(h, k, q)
  BY ONLY <1>1, <1>2, <1>3 DEF FlagsKept
<1>6. \A q \in Player : PlayerKept(h, k, q)
  BY ONLY <1>1, <1>2 DEF PlayerKept
<1>7. h.incomplete <= k.incomplete  BY <1>1, <1>2
<1> QED  BY ONLY <1>2, <1>4, <1>5, <1>6, <1>7, StopsWithCause(h, k) DEF Onward

\* The flags part of hub_received_game_data_packet_v1, and all of it.
LEMMA FlagsReceivedOnward ==
  ASSUME NEW h \in HubRecords, LateInStep(h), NEW p \in Player, NEW from \in Int,
         NEW to \in Int, NEW asked \in Int, from <= to
  PROVE  Onward(h, FlagsReceived(h, p, from, to, asked))
<1> DEFINE result == FlagsReceived(h, p, from, to, asked)
<1>1. h.flags[p].w \in Int  BY HubFields
<1> SUFFICES Onward(h, result)  OBVIOUS
<1>2. CASE result = h  BY <1>2, OnwardReflexive
<1>3. CASE result # h
  <2>1. PICK k \in HubRecords, n \in Nat :
          /\ TakesFlags(h, k, p, n) /\ StopsWithCause(h, k)
          /\ IF n = 0 THEN result = k
             ELSE result \in ProvidedFrom(k, p, h.flags[p].w, h.flags[p].w + n)
    BY <1>3, FlagsTaken
  <2> HIDE DEF result
  <2>2. Onward(h, k)  BY <2>1, TakesFlagsOnward
  <2>3. CASE n = 0  BY <2>1, <2>2, <2>3
  <2>4. CASE n # 0
    <3> DEFINE a == h.flags[p].w
               m == Provided(k, p, a, a + n)
    <3>1. result \in {m, Sent(m)}  BY <2>1, <2>4 DEF ProvidedFrom
    <3>2. a + n \in Int  BY <1>1
    <3> HIDE DEF a
    <3>3. Onward(k, m)  BY <1>1, <3>2, ProvidedOnward DEF a
    <3>4. m \in HubRecords  BY <3>3 DEF Onward
    <3> HIDE DEF m
    <3>5. Onward(h, m)  BY <2>2, <3>3, OnwardTransitive
    <3>6. Onward(h, Sent(m))  BY <3>4, <3>5, SentOnward, OnwardTransitive
    <3> QED  BY <3>1, <3>5, <3>6
  <2> QED  BY <2>3, <2>4
<1> QED  BY <1>2, <1>3

LEMMA GameDataOnward ==
  ASSUME NEW h \in HubRecords, LateInStep(h), NEW p \in Player, NEW ack \in Int,
         NEW from \in Int, NEW to \in Int, NEW asked \in Int, from <= to
  PROVE  Onward(h, GameData(h, p, ack, from, to, asked))
<1> DEFINE k == Acknowledged(h, p, ack)
<1>1. GameData(h, p, ack, from, to, asked) \in {h, k, FlagsReceived(k, p, from, to, asked)}
  BY DEF GameData
<1>2. k \in HubRecords /\ LateInStep(k)
  BY AcknowledgedType, AcknowledgedLate
<1>3. Onward(h, k)  BY AcknowledgedOnward
<1> HIDE DEF k
<1>4. Onward(k, FlagsReceived(k, p, from, to, asked))
  BY <1>2, FlagsReceivedOnward
<1>5. Onward(h, FlagsReceived(k, p, from, to, asked))
  BY <1>3, <1>4, OnwardTransitive
<1> QED  BY <1>1, <1>3, <1>5, OnwardReflexive

\* make_player_netdead: who dies is connected, and its flags end no earlier
\* than the complete ticks.
LEMMA MarkNetDeadOnward ==
  ASSUME NEW h \in HubRecords, NEW p \in h.connected
  PROVE  Onward(h, MarkNetDead(h, p))
<1> DEFINE k == MarkNetDead(h, p)
<1>0. p \in Player  BY HubFields
<1>1. k = MarkNetDead(h, p)  OBVIOUS
<1> HIDE DEF k
<1>2. /\ k \in HubRecords /\ k.connected = h.connected \ {p}
      /\ \A q \in Player : k.deadTick[q] = IF q = p THEN h.incomplete ELSE h.deadTick[q]
      /\ k.ack = h.ack /\ k.flags = h.flags /\ k.made = h.made
      /\ k.postGame = h.postGame /\ k.incomplete = h.incomplete
  BY <1>0, <1>1, MarkNetDeadFields
<1>3. StopsWithCause(h, k)  BY <1>0, <1>1, MarkNetDeadFields
<1>4. /\ h.incomplete \in Int
      /\ \A q \in Player : h.flags[q].r \in Int /\ h.flags[q].w \in Int /\ h.ack[q] \in Int
  BY HubFields
<1>5. \A q \in Player : FlagsKept(h, k, q)
  BY ONLY <1>2, <1>4 DEF FlagsKept
<1>6. FlagsOrdered(h) => FlagsOrdered(k)
  BY ONLY <1>2 DEF FlagsOrdered
<1>7. \A q \in Player : PlayerKept(h, k, q)
  BY ONLY <1>2, <1>4, p \in h.connected DEF PlayerKept
<1>8. h.incomplete <= k.incomplete  BY <1>2, <1>4
<1>9. Onward(h, k)  BY ONLY <1>2, <1>3, <1>5, <1>6, <1>7, <1>8 DEF Onward
<1> QED  BY <1>9 DEF k

LEMMA BuryOnward ==
  ASSUME NEW h \in HubRecords, NEW p \in Player
  PROVE  Onward(h, Bury(h, p))
<1> DEFINE k == Provided(h, p, h.flags[p].w, h.disp.w)
<1>1. h.flags[p].w \in Int /\ h.disp.w \in Int /\ h.incomplete \in Int
  BY HubFields
<1>2. Onward(h, k)  BY <1>1, ProvidedOnward
<1>3. k \in HubRecords  BY <1>2 DEF Onward
<1>4. Bury(h, p) = Acknowledged(k, p, h.incomplete)  BY DEF Bury
<1> HIDE DEF k
<1>5. Onward(k, Acknowledged(k, p, h.incomplete))
  BY <1>1, <1>3, AcknowledgedOnward
<1> QED  BY <1>2, <1>4, <1>5, OnwardTransitive

LEMMA NetDeadOnward ==
  ASSUME NEW h \in BoundedHubs, NEW p \in h.connected
  PROVE  Onward(h, NetDead(h, p))
<1> DEFINE m == MarkNetDead(h, p)
<1>1. h \in HubRecords /\ p \in Player  BY HubFields DEF BoundedHubs
<1>2. m \in HubRecords /\ Onward(h, m)
  BY <1>1, MarkNetDeadOnward DEF Onward
<1>3. \/ NetDead(h, p) = Bury(m, p)
      \/ \E last \in m.connected :
           NetDead(h, p) = Bury(Bury(MarkNetDead(m, last), last), p)
  BY <1>1, NetDeadCases
<1> HIDE DEF m
<1>4. CASE NetDead(h, p) = Bury(m, p)
  <2>1. Onward(m, Bury(m, p))  BY <1>1, <1>2, BuryOnward
  <2> QED  BY <1>1, <1>2, <1>4, <2>1, OnwardTransitive
<1>5. ASSUME NEW last \in m.connected,
             NetDead(h, p) = Bury(Bury(MarkNetDead(m, last), last), p)
      PROVE  Onward(h, NetDead(h, p))
  <2> DEFINE n == MarkNetDead(m, last)
             b == Bury(n, last)
  <2>1. last \in Player  BY <1>2, HubFields
  <2>2. n \in HubRecords /\ Onward(m, n)
    BY <1>2, MarkNetDeadOnward DEF Onward
  <2>3. NetDead(h, p) = Bury(b, p)  BY <1>5
  <2> HIDE DEF n
  <2>4. b \in HubRecords /\ Onward(n, b)
    BY <2>1, <2>2, BuryOnward DEF Onward
  <2> HIDE DEF b
  <2>5. Onward(b, Bury(b, p))  BY <1>1, <2>4, BuryOnward
  <2>6. Onward(h, n)  BY <1>1, <1>2, <2>2, OnwardTransitive
  <2>7. Onward(h, b)  BY <1>1, <2>4, <2>6, OnwardTransitive
  <2> QED  BY <1>1, <2>3, <2>5, <2>7, OnwardTransitive
<1> QED  BY <1>3, <1>4, <1>5
=============================================================================
