--------------------------- MODULE OwnFlagsProofs ---------------------------
(* Proofs about OwnFlags, for circular buffers of every size and ticks below *)
(* and above zero. A tick's place in the buffer is its remainder by the size *)
(* of the buffer, however the code arrives at it, and a window that is no    *)
(* longer than the buffer gives each of its ticks a place of its own. The    *)
(* inductive invariant says of every place which tick's flags lie there, and *)
(* what each thread may rely on between two of its steps.                    *)
EXTENDS OwnFlags, TLAPS

----------------------------------------------------------------------------
(* Remainders.                                                              *)

LEMMA Division ==
  ASSUME NEW a \in Int, NEW n \in Nat \ {0}
  PROVE  /\ a \div n \in Int /\ a % n \in 0 .. (n - 1)
         /\ a = (n * (a \div n)) + (a % n)
BY SMT

LEMMA RemainderOf ==
  ASSUME NEW n \in Nat \ {0}, NEW q \in Int, NEW m \in 0 .. (n - 1), NEW a \in Int,
         a = (n * q) + m
  PROVE  a % n = m
BY SMT

LEMMA NoMultipleBetween ==
  ASSUME NEW n \in Nat \ {0}, NEW q \in Int, NEW d \in Int, d = n * q, 0 < d, d < n
  PROVE  FALSE
<1>1. q > 0
  BY SMT
<1>2. n * q >= n
  BY <1>1, SMT
<1> QED
  BY <1>2

\* Two numbers that are closer to each other than n differ in their remainder.
LEMMA CloseDiffer ==
  ASSUME NEW n \in Nat \ {0}, NEW a \in Int, NEW b \in Int, a < b, b - a < n
  PROVE  a % n # b % n
<1> DEFINE qa == a \div n
           qb == b \div n
<1>1. qa \in Int /\ qb \in Int /\ a % n \in Int /\ b % n \in Int
  BY Division
<1> SUFFICES ASSUME a % n = b % n PROVE FALSE
  OBVIOUS
<1>2. a = (n * qa) + (a % n) /\ b = (n * qb) + (b % n)
  BY Division
<1> HIDE DEF qa, qb
<1>3. b - a = (n * qb) - (n * qa)
  BY <1>1, <1>2
<1>4. (n * qb) - (n * qa) = n * (qb - qa)
  BY <1>1, SMT
<1> QED
  BY <1>1, <1>3, <1>4, NoMultipleBetween

LEMMA RaisedOnce ==
  ASSUME NEW n \in Nat \ {0}, NEW a \in Int
  PROVE  (n + ((a - n) % n)) % n = a % n
<1> DEFINE q == a \div n
           m == a % n
<1>1. q \in Int /\ m \in 0 .. (n - 1) /\ a = (n * q) + m
  BY Division
<1> HIDE DEF q, m
<1>2. a - n = (n * (q - 1)) + m /\ a - n \in Int /\ q - 1 \in Int
  BY <1>1, SMT
<1>3. (a - n) % n = m
  BY <1>1, <1>2, RemainderOf
<1>4. n + m = (n * 1) + m /\ n + m \in Int
  BY <1>1, SMT
<1>5. (n + m) % n = m
  BY <1>1, <1>4, RemainderOf
<1> QED
  BY <1>3, <1>5 DEF m

----------------------------------------------------------------------------
(* The circular buffer.                                                     *)

LEMMA SizePositive == BufferSize \in Nat \ {0} /\ BufferSize = BufferCapacity + 1
BY BufferAssumption DEF BufferSize

\* The writer's loop and the reader's lead to the same place.
LEMMA SamePlace ==
  ASSUME NEW tick \in Int
  PROVE  /\ PlaceToRead(tick) = tick % BufferSize
         /\ PlaceToWrite(tick) = tick % BufferSize
         /\ tick % BufferSize \in Place
<1> DEFINE n == BufferSize
<1>0. n \in Nat \ {0}
  BY SizePositive
<1> HIDE DEF n
<1>1. tick % n \in 0 .. (n - 1)
  BY <1>0, Division
<1>2. PlaceToRead(tick) = tick % n
  <2>1. CASE tick >= 0
    BY <2>1, <1>0 DEF PlaceToRead, Raised, Remainder, n
  <2>2. CASE tick < 0
    <3>1. Raised(tick, 0) = tick % n
      BY <2>2, <1>0, <1>1 DEF Raised, n
    <3>2. (tick % n) % n = tick % n
      <4>1. tick % n = (n * 0) + (tick % n)
        BY <1>0, <1>1, SMT
      <4> QED
        BY <4>1, <1>0, <1>1, RemainderOf
    <3> QED
      BY <3>1, <3>2, <1>1, <1>0 DEF PlaceToRead, Remainder, n
  <2> QED
    BY <2>1, <2>2
<1>3. PlaceToWrite(tick) = tick % n
  <2>1. CASE tick >= n
    BY <2>1, <1>0 DEF PlaceToWrite, Raised, Remainder, n
  <2>2. CASE tick < n
    <3>1. (tick - n) % n \in 0 .. (n - 1)
      BY <1>0, Division
    <3>2. Raised(tick, n) = n + ((tick - n) % n)
      BY <2>2, <1>0 DEF Raised, n
    <3>3. Remainder(Raised(tick, n)) = (n + ((tick - n) % n)) % n
      BY <3>1, <3>2, <1>0 DEF Remainder, n
    <3> QED
      BY <3>3, <1>0, RaisedOnce DEF PlaceToWrite, n
  <2> QED
    BY <2>1, <2>2, <1>0
<1> QED
  BY <1>1, <1>2, <1>3 DEF Place, n

Flags == {"sampled", "garbage"} \X Int
Buffer == [r : Int, w : Int, buffer : [Place -> Flags]]

\* The flags of each tick of the window lie at its place.
Holds(q) == \A tick \in BufferTicks(q) : q.buffer[tick % BufferSize] = Sampled(tick)
Window(q) == q \in Buffer /\ q.r <= q.w /\ q.w - q.r <= BufferCapacity /\ Holds(q)

LEMMA SampledIsFlags == \A tick \in Int : Sampled(tick) \in Flags
BY DEF Sampled, Flags

LEMMA EmptyWindow ==
  ASSUME NEW tick \in Int
  PROVE  Window(BufferAt(tick)) /\ BufferAt(tick).r = tick /\ BufferAt(tick).w = tick
<1>1. Garbage \in Flags
  BY DEF Garbage, Flags
<1>2. BufferAt(tick) \in Buffer
  BY <1>1 DEF BufferAt, Buffer
<1> QED
  BY <1>2, BufferAssumption DEF BufferAt, Window, Holds, BufferTicks

LEMMA PeekHeld ==
  ASSUME NEW q \in Buffer, NEW tick \in Int, q.buffer[tick % BufferSize] = Sampled(tick)
  PROVE  Peek(q, tick) = Sampled(tick)
BY SamePlace DEF Peek

\* What is written when there is room lies where no tick of the window does.
LEMMA StoredApart ==
  ASSUME NEW q, Window(q), q.w - q.r < BufferCapacity
  PROVE  LET s == Stored(q, Sampled(q.w))
         IN Window(s) /\ s.r = q.r /\ s.w = q.w /\ s.buffer[q.w % BufferSize] = Sampled(q.w)
<1> DEFINE s == Stored(q, Sampled(q.w))
<1>1. q \in Buffer /\ q.w \in Int /\ q.r \in Int /\ Sampled(q.w) \in Flags
  BY SampledIsFlags DEF Window, Buffer
<1>2. PlaceToWrite(q.w) = q.w % BufferSize /\ q.w % BufferSize \in Place
  BY <1>1, SamePlace
<1>3. s = [q EXCEPT !.buffer[q.w % BufferSize] = Sampled(q.w)]
  BY <1>2 DEF Stored
<1>4. s.r = q.r /\ s.w = q.w
  BY <1>3, <1>1 DEF Buffer
<1>5. s.buffer = [q.buffer EXCEPT ![q.w % BufferSize] = Sampled(q.w)]
  BY <1>3, <1>1 DEF Buffer
<1>6. s \in Buffer
  BY <1>1, <1>2, <1>3 DEF Buffer
<1>7. s.buffer[q.w % BufferSize] = Sampled(q.w)
  BY <1>1, <1>2, <1>5 DEF Buffer
<1>8. ASSUME NEW tick \in BufferTicks(q) PROVE s.buffer[tick % BufferSize] = Sampled(tick)
  <2>1. tick \in Int /\ tick < q.w /\ q.w - tick < BufferSize
    BY <1>1, SizePositive, BufferAssumption DEF BufferTicks
  <2>2. tick % BufferSize # q.w % BufferSize
    BY <2>1, <1>1, SizePositive, CloseDiffer
  <2>3. tick % BufferSize \in Place
    BY <2>1, SamePlace
  <2>4. q.buffer[tick % BufferSize] = Sampled(tick)
    BY DEF Window, Holds
  <2> QED
    BY <2>2, <2>3, <2>4, <1>1, <1>5 DEF Buffer
<1>9. Holds(s)
  BY <1>4, <1>8 DEF Holds, BufferTicks
<1> QED
  BY <1>4, <1>6, <1>7, <1>9 DEF Window

LEMMA AdvancedWindow ==
  ASSUME NEW q, Window(q), q.w - q.r < BufferCapacity,
         q.buffer[q.w % BufferSize] = Sampled(q.w)
  PROVE  LET a == Advanced(q)
         IN Window(a) /\ a.r = q.r /\ a.w = q.w + 1 /\ a.buffer = q.buffer
<1> DEFINE a == Advanced(q)
<1>1. q \in Buffer /\ q.w \in Int /\ q.r \in Int
  BY DEF Window, Buffer
<1>2. a \in Buffer /\ a.r = q.r /\ a.w = q.w + 1 /\ a.buffer = q.buffer
  BY <1>1 DEF Advanced, Buffer
<1>3. \A tick \in BufferTicks(a) : tick \in BufferTicks(q) \/ tick = q.w
  BY <1>1, <1>2 DEF BufferTicks
<1>4. Holds(a)
  BY <1>2, <1>3 DEF Window, Holds
<1> QED
  BY <1>1, <1>2, <1>4, BufferAssumption DEF Window

LEMMA DequeuedWindow ==
  ASSUME NEW q, Window(q), NEW tick \in Int, q.r <= tick, tick <= q.w
  PROVE  LET d == DequeuedTo(q, tick)
         IN Window(d) /\ d.r = tick /\ d.w = q.w /\ d.buffer = q.buffer
<1> DEFINE d == DequeuedTo(q, tick)
<1>1. q \in Buffer /\ q.w \in Int /\ q.r \in Int
  BY DEF Window, Buffer
<1>2. d \in Buffer /\ d.r = tick /\ d.w = q.w /\ d.buffer = q.buffer
  BY <1>1 DEF DequeuedTo, Buffer
<1>3. BufferTicks(d) \subseteq BufferTicks(q)
  BY <1>1, <1>2 DEF BufferTicks
<1> QED
  BY <1>1, <1>2, <1>3, BufferAssumption DEF Window, Holds

----------------------------------------------------------------------------
(* The inductive invariant.                                                 *)

Types ==
  /\ online \in BOOLEAN /\ smallest \in Int /\ hand \in Int /\ predicted \in Nat
  /\ unreceived \in Int /\ alone \in BOOLEAN /\ hubTick \in Int
  /\ made \subseteq Int /\ packet \in [end : Int, reflects : BOOLEAN]
  /\ spoke \in {"idle", "stored", "reading", "confirming", "moving", "moved"}
  /\ game \in {"idle", "found", "counted"}

\* From the game's first tick on both queues are written for the same tick.
SameTick ==
  /\ FirstTick <= outgoing.w
  /\ spoke = "stored" => outgoing.w > RealTick
  /\ unconfirmed.w = IF spoke = "stored" THEN outgoing.w - 1
                     ELSE IF outgoing.w >= RealTick THEN outgoing.w ELSE RealTick

\* What the spoke relies on between two of its steps.
SpokeRelies ==
  /\ spoke = "stored" => /\ unconfirmed.w - unconfirmed.r < BufferCapacity
                         /\ unconfirmed.buffer[unconfirmed.w % BufferSize] = Sampled(unconfirmed.w)
  /\ spoke = "confirming" => smallest < unconfirmed.w
  /\ spoke = "moved" => unconfirmed.buffer[hand % BufferSize] = Sampled(hand)

\* What the game's thread relies on. It never drops what is unconfirmed.
GameRelies ==
  /\ unconfirmed.r <= smallest
  /\ game = "found" => unconfirmed.r < smallest /\ unconfirmed.r < unconfirmed.w
  /\ game = "counted" => unconfirmed.r + predicted < unconfirmed.w

\* The hub has heard what it did not make up.
HubHasAll ==
  /\ FirstTick <= hubTick
  /\ \A tick \in Int : FirstTick <= tick /\ tick < hubTick => tick \in made \/ tick < outgoing.w

\* A packet ends where the hub did at the time, and one that does not reflect
\* holds nothing made up; one that is alone uses none of these.
PacketSound ==
  /\ spoke \in {"reading", "confirming"} =>
       /\ online /\ packet.end <= hubTick
       /\ ~packet.reflects => /\ ~alone
                             /\ \A tick \in made : ~(unreceived <= tick /\ tick < packet.end)
  /\ spoke = "confirming" => RealTick <= unreceived /\ unreceived < packet.end

\* What was received is confirmed. In company it is all that is confirmed, and
\* no more than what the hub has decided.
Company == online /\ ~alone
InStep ==
  /\ RealTick <= smallest /\ FirstTick <= unreceived /\ FirstTick <= outgoing.r
  /\ online => unreceived <= smallest
  /\ Company => /\ smallest = IF unreceived > RealTick THEN unreceived ELSE RealTick
                /\ unreceived <= hubTick
                /\ spoke \notin {"moving", "moved"}

IInv ==
  /\ Types /\ Window(outgoing) /\ Window(unconfirmed)
  /\ SameTick /\ SpokeRelies /\ GameRelies
  /\ HubHasAll /\ PacketSound /\ InStep

LEMMA InitIInv == Init => IInv
<1> SUFFICES ASSUME Init PROVE IInv
  OBVIOUS
<1>1. Window(outgoing) /\ outgoing.w = FirstTick /\ outgoing.r = FirstTick
  BY OwnFlagsAssumption, EmptyWindow DEF Init
<1>2. Window(unconfirmed) /\ unconfirmed.r = RealTick /\ unconfirmed.w = RealTick
  BY OwnFlagsAssumption, EmptyWindow DEF Init
<1>3. Types
  BY OwnFlagsAssumption DEF Init, Types, NoPacket
<1>4. HubHasAll /\ PacketSound /\ InStep
  BY <1>1, OwnFlagsAssumption DEF Init, HubHasAll, PacketSound, InStep
<1> QED
  BY <1>1, <1>2, <1>3, <1>4, OwnFlagsAssumption
  DEF Init, IInv, SameTick, SpokeRelies, GameRelies

LEMMA Acknowledged ==
  ASSUME Window(outgoing), NEW ack \in Int, NEW reflects \in BOOLEAN, Acknowledge(ack, reflects)
  PROVE  Window(outgoing') /\ outgoing'.w = outgoing.w /\ outgoing.r <= outgoing'.r
<1>1. outgoing.r \in Int /\ outgoing.w \in Int
  BY DEF Window, Buffer
<1> DEFINE sent == Least(ack, outgoing.w)
<1>2. sent \in Int /\ sent <= outgoing.w
  BY <1>1 DEF Least
<1>3. outgoing' = IF outgoing.r < sent THEN DequeuedTo(outgoing, sent) ELSE outgoing
  BY DEF Acknowledge
<1> HIDE DEF sent
<1>4. CASE outgoing.r < sent
  <2>1. outgoing.r <= sent  BY <1>1, <1>2, <1>4
  <2> QED  BY <1>1, <1>2, <1>3, <1>4, <2>1, DequeuedWindow
<1>5. CASE ~(outgoing.r < sent)
  BY <1>1, <1>3, <1>5
<1> QED
  BY <1>4, <1>5

\* A packet that does not reflect reads the tick that is confirmed next, and
\* the spoke has sampled it.
LEMMA ReadsSampled ==
  ASSUME IInv, Reads, RealTick <= unreceived, ~packet.reflects
  PROVE  smallest = unreceived /\ smallest < unconfirmed.w
<1>1. /\ spoke = "reading" /\ unreceived < packet.end /\ unreceived \in Int
      /\ packet.end \in Int /\ hubTick \in Int /\ RealTick \in Int
      /\ outgoing.w \in Int /\ unconfirmed.w \in Int /\ smallest \in Int
  BY OwnFlagsAssumption DEF Reads, IInv, Types, Window, Buffer
<1>2. /\ online /\ ~alone /\ packet.end <= hubTick
      /\ \A tick \in made : ~(unreceived <= tick /\ tick < packet.end)
  BY <1>1 DEF IInv, PacketSound
<1>3. smallest = unreceived
  BY <1>1, <1>2 DEF IInv, InStep, Company
<1>4. FirstTick <= unreceived /\ unreceived < hubTick /\ unreceived \notin made
  BY <1>1, <1>2 DEF IInv, InStep
<1>5. unreceived < outgoing.w
  BY <1>1, <1>4 DEF IInv, HubHasAll
<1>6. unconfirmed.w = outgoing.w
  BY <1>1, <1>5 DEF IInv, SameTick
<1> QED
  BY <1>3, <1>5, <1>6

LEMMA NextIInv == IInv /\ [Next]_vars => IInv'
<1> SUFFICES ASSUME IInv, [Next]_vars PROVE IInv'
  OBVIOUS
<1> USE DEF IInv
<1>0. /\ outgoing \in Buffer /\ outgoing.r \in Int /\ outgoing.w \in Int
      /\ unconfirmed \in Buffer /\ unconfirmed.r \in Int /\ unconfirmed.w \in Int
      /\ RealTick \in Int /\ FirstTick \in Int /\ BufferCapacity \in Nat
      /\ smallest \in Int /\ unreceived \in Int /\ hubTick \in Int /\ packet.end \in Int
      /\ online \in BOOLEAN /\ alone \in BOOLEAN /\ packet.reflects \in BOOLEAN
      /\ made \subseteq Int
  BY OwnFlagsAssumption, BufferAssumption DEF Window, Buffer, Types
<1>1. CASE Provide
  <2> DEFINE s == Stored(outgoing, Sampled(outgoing.w))
  <2>1. outgoing.w - outgoing.r < BufferCapacity
    BY <1>0, <1>1 DEF Provide, HasRoom, Room
  <2>2. /\ Window(s) /\ s.r = outgoing.r /\ s.w = outgoing.w
        /\ s.buffer[outgoing.w % BufferSize] = Sampled(outgoing.w)
    BY <2>1, StoredApart
  <2>3. outgoing' = Advanced(s)
    BY <1>1 DEF Provide
  <2> HIDE DEF s
  <2>4. Window(outgoing') /\ outgoing'.r = outgoing.r /\ outgoing'.w = outgoing.w + 1
    BY <2>1, <2>2, <2>3, AdvancedWindow
  <2>5. /\ UNCHANGED <<online, smallest, unreceived, alone, packet, hubTick, made>>
        /\ spoke = "idle" /\ spoke' \in {"idle", "stored"}
    BY <1>1 DEF Provide, hubVars
  <2>6. HubHasAll'
    BY <1>0, <2>4, <2>5 DEF HubHasAll
  <2>7. PacketSound' /\ InStep'
    BY <2>4, <2>5 DEF PacketSound, InStep, Company
  <2>8. CASE GoesToBoth(outgoing.w)
    <3>1. outgoing.w >= RealTick /\ spoke = "idle" /\ unconfirmed.w = outgoing.w
      BY <1>0, <1>1, <2>8 DEF Provide, GoesToBoth, SameTick
    <3>2. unconfirmed.w - unconfirmed.r < BufferCapacity
      BY <1>0, <1>1, <2>8 DEF Provide, HasRoom, Room
    <3>3. unconfirmed' = Stored(unconfirmed, Sampled(unconfirmed.w)) /\ spoke' = "stored"
      BY <1>1, <2>8, <3>1 DEF Provide
    <3>4. /\ Window(unconfirmed') /\ unconfirmed'.r = unconfirmed.r
          /\ unconfirmed'.w = unconfirmed.w
          /\ unconfirmed'.buffer[unconfirmed.w % BufferSize] = Sampled(unconfirmed.w)
      BY <3>2, <3>3, StoredApart
    <3>5. Types'
      BY <1>1, <3>3 DEF Types, Provide, gameVars, hubVars
    <3>6. SameTick'
      BY <1>0, <2>4, <3>1, <3>3, <3>4 DEF SameTick
    <3>7. SpokeRelies'
      BY <1>0, <3>2, <3>3, <3>4 DEF SpokeRelies
    <3>8. GameRelies'
      BY <1>1, <3>4 DEF GameRelies, Provide, gameVars
    <3> QED
      BY <2>4, <2>6, <2>7, <3>4, <3>5, <3>6, <3>7, <3>8
  <2>9. CASE ~GoesToBoth(outgoing.w)
    <3>1. outgoing.w < RealTick /\ spoke = "idle" /\ spoke' = "idle" /\ unconfirmed' = unconfirmed
      BY <1>0, <1>1, <2>9 DEF Provide, GoesToBoth
    <3>2. Types'
      BY <1>1, <3>1 DEF Types, Provide, gameVars, hubVars
    <3>3. SameTick'
      BY <1>0, <2>4, <3>1 DEF SameTick
    <3>4. SpokeRelies' /\ GameRelies'
      BY <1>1, <3>1 DEF SpokeRelies, GameRelies, Provide, gameVars
    <3> QED
      BY <2>4, <2>6, <2>7, <3>1, <3>2, <3>3, <3>4
  <2> QED
    BY <2>8, <2>9
<1>2. CASE Advance
  <2>1. /\ Window(unconfirmed') /\ unconfirmed'.r = unconfirmed.r
        /\ unconfirmed'.w = unconfirmed.w + 1 /\ unconfirmed'.buffer = unconfirmed.buffer
    BY <1>2, AdvancedWindow DEF Advance, SpokeRelies
  <2>2. SameTick'
    BY <1>0, <1>2, <2>1 DEF Advance, SameTick
  <2>3. GameRelies'
    BY <1>0, <1>2, <2>1 DEF Advance, GameRelies, gameVars, Types
  <2>4. Types' /\ SpokeRelies'
    BY <1>2 DEF Advance, Types, SpokeRelies, gameVars, hubVars
  <2>5. HubHasAll' /\ PacketSound' /\ InStep'
    BY <1>2 DEF Advance, HubHasAll, PacketSound, InStep, Company, hubVars
  <2> QED
    BY <1>2, <2>1, <2>2, <2>3, <2>4, <2>5 DEF Advance
<1>3. CASE Receive
  <2>1. PICK ack \in FirstTick .. hubTick : \E end \in FirstTick .. ack : \E first \in FirstTick .. end :
          /\ Acknowledge(ack, Reflects(first, end))
          /\ IF OfUse(first, end, Reflects(first, end))
             THEN spoke' = "reading" /\ packet' = [end |-> end, reflects |-> Reflects(first, end)]
             ELSE UNCHANGED <<spoke, packet>>
    BY <1>3 DEF Receive
  <2>2. PICK end \in FirstTick .. ack : \E first \in FirstTick .. end :
          /\ Acknowledge(ack, Reflects(first, end))
          /\ IF OfUse(first, end, Reflects(first, end))
             THEN spoke' = "reading" /\ packet' = [end |-> end, reflects |-> Reflects(first, end)]
             ELSE UNCHANGED <<spoke, packet>>
    BY <2>1
  <2>3. PICK first \in FirstTick .. end :
          /\ Acknowledge(ack, Reflects(first, end))
          /\ IF OfUse(first, end, Reflects(first, end))
             THEN spoke' = "reading" /\ packet' = [end |-> end, reflects |-> Reflects(first, end)]
             ELSE UNCHANGED <<spoke, packet>>
    BY <2>2
  <2> DEFINE reflects == Reflects(first, end)
  <2>4. /\ ack \in Int /\ end \in Int /\ first \in Int /\ end <= hubTick
        /\ reflects \in BOOLEAN
        /\ ~reflects => \A tick \in made : ~(first <= tick /\ tick < end)
    BY <1>0, <2>1, <2>2, <2>3 DEF Reflects
  <2>5. /\ Acknowledge(ack, reflects)
        /\ \/ /\ first <= unreceived /\ (alone => reflects)
              /\ spoke' = "reading" /\ packet' = [end |-> end, reflects |-> reflects]
           \/ UNCHANGED <<spoke, packet>>
    BY <2>3 DEF OfUse
  <2>6. /\ UNCHANGED <<online, unconfirmed, smallest, unreceived, alone, hand, game, predicted,
                       hubTick, made>>
        /\ spoke = "idle" /\ online
    BY <1>3 DEF Receive, gameVars, hubVars
  <2> HIDE DEF reflects
  <2>7. Window(outgoing') /\ outgoing'.w = outgoing.w /\ outgoing.r <= outgoing'.r
    BY <2>4, <2>5, Acknowledged
  <2>8. outgoing'.r \in Int
    BY <2>7 DEF Window, Buffer
  <2>9. Types' /\ SameTick' /\ SpokeRelies' /\ GameRelies'
    BY <1>0, <2>4, <2>5, <2>6, <2>7 DEF Types, SameTick, SpokeRelies, GameRelies
  <2>10. HubHasAll'
    BY <2>6, <2>7 DEF HubHasAll
  <2>11. PacketSound'
    <3>1. CASE UNCHANGED <<spoke, packet>>
      BY <2>6, <3>1 DEF PacketSound
    <3>2. CASE ~UNCHANGED <<spoke, packet>>
      <4>1. /\ first <= unreceived /\ (alone => reflects) /\ spoke' = "reading"
            /\ packet'.end = end /\ packet'.reflects = reflects
        BY <2>5, <3>2
      <4>2. \A tick \in made : unreceived <= tick => first <= tick
        BY <1>0, <2>4, <4>1
      <4>3. ~reflects => \A tick \in made : ~(unreceived <= tick /\ tick < end)
        BY <2>4, <4>2
      <4> QED
        BY <2>4, <2>6, <4>1, <4>3 DEF PacketSound
    <3> QED
      BY <3>1, <3>2
  <2>12. InStep'
    BY <1>0, <2>5, <2>6, <2>7, <2>8 DEF InStep, Company
  <2> QED
    BY <2>6, <2>7, <2>9, <2>10, <2>11, <2>12
<1>4. CASE ReadPregame
  <2>1. Types' /\ SameTick' /\ SpokeRelies' /\ GameRelies'
    BY <1>0, <1>4
    DEF ReadPregame, Reads, Types, SameTick, SpokeRelies, GameRelies, gameVars, hubVars
  <2>2. HubHasAll' /\ PacketSound' /\ InStep'
    BY <1>0, <1>4
    DEF ReadPregame, Reads, HubHasAll, PacketSound, InStep, Company, gameVars, hubVars
  <2> QED
    BY <1>4, <2>1, <2>2 DEF ReadPregame, gameVars, hubVars
<1>5. CASE Confirm
  <2>1. smallest < unconfirmed.w
    BY <1>5, ReadsSampled DEF Confirm
  <2>2. Types' /\ SameTick' /\ SpokeRelies' /\ GameRelies'
    BY <1>5, <2>1
    DEF Confirm, Reads, Types, SameTick, SpokeRelies, GameRelies, gameVars, hubVars
  <2>3. HubHasAll' /\ PacketSound' /\ InStep'
    BY <1>5 DEF Confirm, Reads, HubHasAll, PacketSound, InStep, Company, hubVars
  <2> QED
    BY <1>5, <2>2, <2>3 DEF Confirm
<1>6. CASE Confirmed
  <2>1. Types' /\ SameTick' /\ SpokeRelies' /\ GameRelies'
    BY <1>0, <1>6 DEF Confirmed, Types, SameTick, SpokeRelies, GameRelies, gameVars, hubVars
  <2>2. HubHasAll' /\ PacketSound' /\ InStep'
    BY <1>0, <1>6 DEF Confirmed, HubHasAll, PacketSound, InStep, Company, gameVars, hubVars
  <2> QED
    BY <1>6, <2>1, <2>2 DEF Confirmed, gameVars, hubVars
<1>7. CASE Reflect
  <2>1. Types' /\ SameTick' /\ SpokeRelies' /\ GameRelies'
    BY <1>0, <1>7
    DEF Reflect, Reads, NextUnconfirmed, Types,
        SameTick, SpokeRelies, GameRelies, gameVars, hubVars
  <2>2. HubHasAll' /\ PacketSound' /\ InStep'
    BY <1>0, <1>7
    DEF Reflect, Reads, NextUnconfirmed, HubHasAll,
        PacketSound, InStep, Company, gameVars, hubVars
  <2> QED
    BY <1>7, <2>1, <2>2 DEF Reflect, gameVars, hubVars
<1>8. CASE StopReading
  <2>1. Types' /\ SameTick' /\ SpokeRelies' /\ GameRelies'
    BY <1>0, <1>8
    DEF StopReading, NoPacket, Types, SameTick, SpokeRelies, GameRelies, gameVars, hubVars
  <2>2. HubHasAll' /\ PacketSound' /\ InStep'
    BY <1>0, <1>8
    DEF StopReading, NoPacket, HubHasAll, PacketSound, InStep, Company, gameVars, hubVars
  <2> QED
    BY <1>8, <2>1, <2>2 DEF StopReading, gameVars, hubVars
<1>9. CASE WeAreAlone
  <2>1. PICK ack \in FirstTick .. hubTick : Acknowledge(ack, FALSE)
    BY <1>9 DEF WeAreAlone
  <2>2. Window(outgoing') /\ outgoing'.w = outgoing.w /\ outgoing.r <= outgoing'.r
    <3>1. ack \in Int /\ FALSE \in BOOLEAN  BY <1>0, <2>1
    <3> QED  BY ONLY <2>1, <3>1, Acknowledged, Window(outgoing)
  <2>3. outgoing'.r \in Int
    BY <2>2 DEF Window, Buffer
  <2>4. Types' /\ SameTick' /\ SpokeRelies' /\ GameRelies'
    BY <1>9, <2>2 DEF WeAreAlone, Types, SameTick, SpokeRelies, GameRelies, gameVars, hubVars
  <2>5. HubHasAll' /\ PacketSound' /\ InStep'
    BY <1>0, <1>9, <2>2, <2>3 DEF WeAreAlone, HubHasAll, PacketSound, InStep, Company, hubVars
  <2> QED
    BY <1>9, <2>2, <2>4, <2>5 DEF WeAreAlone
<1>10. CASE OfflineTick
  <2>1. Types' /\ SameTick' /\ SpokeRelies' /\ GameRelies'
    BY <1>0, <1>10 DEF OfflineTick, Types, SameTick, SpokeRelies, GameRelies, gameVars, hubVars
  <2>2. HubHasAll' /\ PacketSound' /\ InStep'
    BY <1>0, <1>10 DEF OfflineTick, HubHasAll, PacketSound, InStep, Company, gameVars, hubVars
  <2> QED
    BY <1>10, <2>1, <2>2 DEF OfflineTick, gameVars, hubVars
<1>11. CASE Move
  <2>1. smallest \in BufferTicks(unconfirmed)
    BY <1>0, <1>11 DEF Move, BufferTicks, GameRelies
  <2>2. unconfirmed.buffer[smallest % BufferSize] = Sampled(smallest)
    BY <2>1 DEF Window, Holds
  <2>3. Types' /\ SameTick' /\ SpokeRelies' /\ GameRelies'
    BY <1>0, <1>11, <2>2 DEF Move, Types, SameTick, SpokeRelies, GameRelies, gameVars, hubVars
  <2>4. HubHasAll' /\ PacketSound' /\ InStep'
    BY <1>0, <1>11 DEF Move, HubHasAll, PacketSound, InStep, Company, hubVars
  <2> QED
    BY <1>11, <2>3, <2>4 DEF Move
<1>12. CASE Moved
  <2>1. Types' /\ SameTick' /\ SpokeRelies' /\ GameRelies'
    BY <1>0, <1>12 DEF Moved, Types, SameTick, SpokeRelies, GameRelies, gameVars, hubVars
  <2>2. HubHasAll' /\ PacketSound' /\ InStep'
    BY <1>0, <1>12 DEF Moved, HubHasAll, PacketSound, InStep, Company, gameVars, hubVars
  <2> QED
    BY <1>12, <2>1, <2>2 DEF Moved, gameVars, hubVars
<1>13. CASE MovedAll
  <2>1. outgoing.w <= unconfirmed.w /\ unconfirmed.w <= smallest /\ outgoing.r <= outgoing.w
    BY <1>0, <1>13 DEF MovedAll, SameTick, Window
  <2>2. Types' /\ SameTick' /\ SpokeRelies' /\ GameRelies'
    BY <1>0, <1>13 DEF MovedAll, Types, SameTick, SpokeRelies, GameRelies, gameVars, hubVars
  <2>3. HubHasAll' /\ PacketSound' /\ InStep'
    BY <1>0, <1>13, <2>1 DEF MovedAll, HubHasAll, PacketSound, InStep, Company, hubVars
  <2> QED
    BY <1>13, <2>2, <2>3 DEF MovedAll
<1>14. CASE GiveUpHub
  <2>1. Types' /\ SameTick' /\ SpokeRelies' /\ GameRelies'
    BY <1>0, <1>14 DEF GiveUpHub, Types, SameTick, SpokeRelies, GameRelies, gameVars, hubVars
  <2>2. HubHasAll' /\ PacketSound' /\ InStep'
    BY <1>0, <1>14 DEF GiveUpHub, HubHasAll, PacketSound, InStep, Company, gameVars, hubVars
  <2> QED
    BY <1>14, <2>1, <2>2 DEF GiveUpHub, gameVars, hubVars
<1>15. CASE FindConfirmed
  <2>1. Types' /\ SameTick' /\ SpokeRelies' /\ GameRelies'
    BY <1>15 DEF FindConfirmed, Types, SameTick, SpokeRelies, GameRelies, spokeVars, hubVars
  <2>2. HubHasAll' /\ PacketSound' /\ InStep'
    BY <1>15 DEF FindConfirmed, HubHasAll, PacketSound, InStep, Company, spokeVars, hubVars
  <2> QED
    BY <1>15, <2>1, <2>2 DEF FindConfirmed, spokeVars
<1>16. CASE DropConfirmed
  <2>1. unconfirmed.r + 1 <= unconfirmed.w /\ unconfirmed.r + 1 <= smallest
    BY <1>0, <1>16 DEF DropConfirmed, GameRelies
  <2>2. /\ Window(unconfirmed') /\ unconfirmed'.r = unconfirmed.r + 1
        /\ unconfirmed'.w = unconfirmed.w /\ unconfirmed'.buffer = unconfirmed.buffer
    BY <1>0, <1>16, <2>1, DequeuedWindow DEF DropConfirmed
  <2>3. Types' /\ SameTick' /\ SpokeRelies' /\ GameRelies'
    BY <1>0, <1>16, <2>1, <2>2
    DEF DropConfirmed, Types, SameTick, SpokeRelies, GameRelies, spokeVars, hubVars
  <2>4. HubHasAll' /\ PacketSound' /\ InStep'
    BY <1>16 DEF DropConfirmed, HubHasAll, PacketSound, InStep, Company, spokeVars, hubVars
  <2> QED
    BY <1>16, <2>2, <2>3, <2>4 DEF DropConfirmed, spokeVars
<1>17. CASE CountUnconfirmed
  <2>1. Types' /\ SameTick' /\ SpokeRelies' /\ GameRelies'
    BY <1>0, <1>17
    DEF CountUnconfirmed, Types, SameTick, SpokeRelies, GameRelies, spokeVars, hubVars
  <2>2. HubHasAll' /\ PacketSound' /\ InStep'
    BY <1>0, <1>17
    DEF CountUnconfirmed, HubHasAll, PacketSound, InStep, Company, spokeVars, hubVars
  <2> QED
    BY <1>17, <2>1, <2>2 DEF CountUnconfirmed, spokeVars, hubVars
<1>18. CASE Predict
  <2>1. Types' /\ SameTick' /\ SpokeRelies' /\ GameRelies'
    BY <1>0, <1>18 DEF Predict, Types, SameTick, SpokeRelies, GameRelies, spokeVars, hubVars
  <2>2. HubHasAll' /\ PacketSound' /\ InStep'
    BY <1>0, <1>18 DEF Predict, HubHasAll, PacketSound, InStep, Company, spokeVars, hubVars
  <2> QED
    BY <1>18, <2>1, <2>2 DEF Predict, spokeVars, hubVars
<1>19. CASE LeavePrediction
  <2>1. Types' /\ SameTick' /\ SpokeRelies' /\ GameRelies'
    BY <1>0, <1>19
    DEF LeavePrediction, Types, SameTick, SpokeRelies, GameRelies, spokeVars, hubVars
  <2>2. HubHasAll' /\ PacketSound' /\ InStep'
    BY <1>0, <1>19
    DEF LeavePrediction, HubHasAll, PacketSound, InStep, Company, spokeVars, hubVars
  <2> QED
    BY <1>19, <2>1, <2>2 DEF LeavePrediction, spokeVars, hubVars
<1>20. CASE HubHears
  <2>1. Types' /\ SameTick' /\ SpokeRelies' /\ GameRelies'
    BY <1>0, <1>20 DEF HubHears, Types, SameTick, SpokeRelies, GameRelies, spokeVars, gameVars
  <2>2. HubHasAll' /\ PacketSound' /\ InStep'
    BY <1>0, <1>20 DEF HubHears, HubHasAll, PacketSound, InStep, Company, spokeVars, gameVars
  <2> QED
    BY <1>20, <2>1, <2>2 DEF HubHears, spokeVars, gameVars
<1>21. CASE HubMakesUp
  <2>1. Types' /\ SameTick' /\ SpokeRelies' /\ GameRelies'
    BY <1>0, <1>21
    DEF HubMakesUp, Types, SameTick, SpokeRelies, GameRelies, spokeVars, gameVars
  <2>2. HubHasAll' /\ PacketSound' /\ InStep'
    BY <1>0, <1>21 DEF HubMakesUp, HubHasAll, PacketSound, InStep, Company, spokeVars, gameVars
  <2> QED
    BY <1>21, <2>1, <2>2 DEF HubMakesUp, spokeVars, gameVars
<1>22. CASE UNCHANGED vars
  <2>1. Types' /\ SameTick' /\ SpokeRelies' /\ GameRelies'
    BY <1>22 DEF vars, Types, SameTick, SpokeRelies, GameRelies, hubVars
  <2>2. HubHasAll' /\ PacketSound' /\ InStep'
    BY <1>22 DEF vars, HubHasAll, PacketSound, InStep, Company, hubVars
  <2> QED
    BY <1>22, <2>1, <2>2 DEF vars
<1> QED
  BY <1>1, <1>2, <1>3, <1>4, <1>5, <1>6, <1>7, <1>8, <1>9, <1>10, <1>11, <1>12, <1>13,
     <1>14, <1>15, <1>16, <1>17, <1>18, <1>19, <1>20, <1>21, <1>22
  DEF Next, HubNext, SpokeNext, GameNext

LEMMA IInvPeeks == IInv => PeeksItsTick
<1> SUFFICES ASSUME IInv PROVE PeeksItsTick
  OBVIOUS
<1> USE DEF IInv
<1>0. /\ outgoing.r \in Int /\ outgoing.w \in Int
      /\ unconfirmed \in Buffer /\ unconfirmed.r \in Int /\ unconfirmed.w \in Int
  BY DEF Window, Buffer
<1>1. ASSUME NEW q \in {outgoing, unconfirmed}, NEW tick \in BufferTicks(q)
      PROVE  Peek(q, tick) = Sampled(tick)
  <2>1. Window(q) /\ q \in Buffer /\ tick \in Int
    BY <1>0 DEF Window, BufferTicks
  <2>2. q.buffer[tick % BufferSize] = Sampled(tick)
    BY <2>1 DEF Window, Holds
  <2> QED
    BY <2>1, <2>2, PeekHeld
<1>2. game = "found" => BufferTicks(unconfirmed) # {}
  BY <1>0 DEF GameRelies, BufferTicks
<1>3. game = "counted" => unconfirmed.r + predicted \in BufferTicks(unconfirmed)
  BY <1>0 DEF GameRelies, BufferTicks, Types
<1>4. spoke = "confirming" => smallest \in BufferTicks(unconfirmed)
  BY <1>0 DEF SpokeRelies, GameRelies, BufferTicks, Types
<1>5. spoke = "moved" => Peek(unconfirmed, hand) = Sampled(hand)
  BY <1>0, PeekHeld DEF SpokeRelies, Types
<1> QED
  BY <1>1, <1>2, <1>3, <1>4, <1>5 DEF PeeksItsTick

\* For every size of the buffers, whatever the first tick, and however the
\* game's thread and the spoke's interleave without a lock between them: each
\* tick reads as the flags that were sampled for it, and neither thread undoes
\* what the other has checked.
THEOREM EveryTickReadsItsFlags == Spec => []PeeksItsTick
<1>1. Init => IInv
  BY InitIInv
<1>2. IInv /\ [Next]_vars => IInv'
  BY NextIInv
<1>3. IInv => PeeksItsTick
  BY IInvPeeks
<1> QED
  BY <1>1, <1>2, <1>3, PTL DEF Spec

----------------------------------------------------------------------------
(* What enters the game.                                                    *)

\* The first tick whose flags have not been decided on. Between the two steps
\* that confirm a tick the spoke's counter is one behind or, when it moves all
\* that is unconfirmed, one ahead.
Decided ==
  IF spoke = "confirming" THEN smallest + 1
  ELSE IF spoke = "moved" THEN smallest - 1 ELSE smallest

Entry == {"sampled", "made up", "offline"} \X Int

\* Of the ticks below n each one's flags are on the tape s, or others that the
\* hub made up, for ticks of m, are in their place; nothing is there of the
\* other ticks, and nothing twice.
OnlyBelow(s, n) ==
  \A i \in DOMAIN s : s[i] \in {MadeUp, Offline} \/ \E t \in Int : t < n /\ s[i] = Sampled(t)
NoneTwice(s) ==
  \A i, j \in DOMAIN s : s[i] = s[j] /\ s[i] \notin {MadeUp, Offline} => i = j
AllBelow(s, n, m) ==
  \A tick \in RealTick .. (n - 1) :
    \/ \E i \in DOMAIN s : s[i] = Sampled(tick)
    \/ tick \in m /\ tick - RealTick + 1 \in DOMAIN s /\ s[tick - RealTick + 1] = MadeUp
Entered(s, n, m) == OnlyBelow(s, n) /\ NoneTwice(s) /\ AllBelow(s, n, m)

\* While there is a hub there is one entry for every tick that is decided, and
\* none is earlier than its tick; in company each is what the hub decided.
OnTime(s, n) ==
  /\ Len(s) = n - RealTick
  /\ \A i \in DOMAIN s : \/ s[i] = MadeUp
                        \/ \E t \in RealTick .. (RealTick + i - 1) : s[i] = Sampled(t)
AsDecided(s, m) ==
  \A i \in DOMAIN s :
    s[i] = IF RealTick + i - 1 \in m THEN MadeUp ELSE Sampled(RealTick + i - 1)

TapeSound(s, n, m) ==
  /\ ~alone => Entered(s, n, m)
  /\ online => OnTime(s, n)
  /\ Company => AsDecided(s, m)

TapeInv ==
  /\ IInv
  /\ spoke = "moved" => hand = smallest - 1
  /\ tape \in Seq(Entry) /\ TapeSound(tape, Decided, made)

LEMMA AppendedTo ==
  ASSUME NEW s \in Seq(Entry), NEW e \in Entry
  PROVE  /\ Append(s, e) \in Seq(Entry) /\ Len(Append(s, e)) = Len(s) + 1
         /\ DOMAIN s = 1 .. Len(s) /\ Len(s) \in Nat
         /\ DOMAIN Append(s, e) = 1 .. (Len(s) + 1)
         /\ Append(s, e)[Len(s) + 1] = e
         /\ \A i \in 1 .. Len(s) : Append(s, e)[i] = s[i]
OBVIOUS

LEMMA EntriesDiffer ==
  /\ MadeUp \in Entry /\ Offline \in Entry /\ MadeUp # Offline
  /\ \A t \in Int : Sampled(t) \in Entry /\ Sampled(t) \notin {MadeUp, Offline}
  /\ \A t, u \in Int : Sampled(t) = Sampled(u) => t = u
<1>1. MadeUp \in Entry /\ Offline \in Entry /\ \A t \in Int : Sampled(t) \in Entry
  <2>1. 0 \in Int  OBVIOUS
  <2>2. MadeUp \in Entry  BY ONLY <2>1, Zenon DEF MadeUp, Entry
  <2>3. Offline \in Entry  BY ONLY <2>1, Zenon DEF Offline, Entry
  <2>4. \A t \in Int : Sampled(t) \in Entry  BY DEF Sampled, Entry
  <2> QED  BY <2>2, <2>3, <2>4
<1>2. MadeUp[1] = "made up" /\ Offline[1] = "offline"
  BY DEF MadeUp, Offline
<1>3. \A t \in Int : Sampled(t)[1] = "sampled" /\ Sampled(t)[2] = t
  BY DEF Sampled
<1>4. "made up" # "offline" /\ "made up" # "sampled" /\ "offline" # "sampled"
  OBVIOUS
<1>5. MadeUp # Offline  BY ONLY <1>2, <1>4
<1>6. \A t \in Int : Sampled(t) \notin {MadeUp, Offline}
  BY ONLY <1>2, <1>3, <1>4
<1>7. \A t, u \in Int : Sampled(t) = Sampled(u) => t = u
  BY ONLY <1>3
<1> QED  BY ONLY <1>1, <1>5, <1>6, <1>7

\* The next tick's own flags enter.
LEMMA OwnFlagsEnter ==
  ASSUME NEW n \in Int, NEW m, NEW s \in Seq(Entry), Entered(s, n, m)
  PROVE  Entered(Append(s, Sampled(n)), n + 1, m)
<1> DEFINE a == Append(s, Sampled(n))
<1>1. /\ OnlyBelow(s, n) /\ NoneTwice(s) /\ AllBelow(s, n, m)
      /\ Sampled(n) \in Entry /\ RealTick \in Int
  BY EntriesDiffer, OwnFlagsAssumption DEF Entered
<1>2. /\ a \in Seq(Entry) /\ Len(a) = Len(s) + 1
      /\ DOMAIN s = 1 .. Len(s) /\ Len(s) \in Nat
      /\ DOMAIN a = 1 .. (Len(s) + 1)
      /\ a[Len(s) + 1] = Sampled(n)
      /\ \A i \in 1 .. Len(s) : a[i] = s[i]
  BY <1>1, AppendedTo
<1> HIDE DEF a
<1>3. OnlyBelow(a, n + 1)
  <2> SUFFICES ASSUME NEW i \in DOMAIN a
               PROVE  a[i] \in {MadeUp, Offline} \/ \E t \in Int : t < n + 1 /\ a[i] = Sampled(t)
    BY DEF OnlyBelow
  <2>1. CASE i \in DOMAIN s
    <3>1. s[i] \in {MadeUp, Offline} \/ \E t \in Int : t < n /\ s[i] = Sampled(t)
      BY <1>1, <2>1 DEF OnlyBelow
    <3>2. a[i] = s[i]  BY <1>2, <2>1
    <3>3. \A t \in Int : t < n => t < n + 1  OBVIOUS
    <3> QED  BY ONLY <3>1, <3>2, <3>3
  <2>2. CASE i = Len(s) + 1
    BY <1>2, <2>2
  <2> QED  BY <1>2, <2>1, <2>2
<1>4. \A i \in DOMAIN s : s[i] # Sampled(n)
  <2> SUFFICES ASSUME NEW i \in DOMAIN s, s[i] = Sampled(n)  PROVE FALSE
    OBVIOUS
  <2>1. s[i] \in {MadeUp, Offline} \/ \E t \in Int : t < n /\ s[i] = Sampled(t)
    BY <1>1 DEF OnlyBelow
  <2> QED  BY <2>1, EntriesDiffer
<1>5. NoneTwice(a)
  <2> SUFFICES ASSUME NEW i \in DOMAIN a, NEW j \in DOMAIN a, a[i] = a[j],
                      a[i] \notin {MadeUp, Offline}
               PROVE  i = j
    BY DEF NoneTwice
  <2>1. CASE i \in DOMAIN s /\ j \in DOMAIN s
    BY <1>1, <1>2, <2>1 DEF NoneTwice
  <2>2. CASE i \in DOMAIN s /\ j = Len(s) + 1
    BY <1>2, <1>4, <2>2
  <2>3. CASE i = Len(s) + 1 /\ j \in DOMAIN s
    BY <1>2, <1>4, <2>3
  <2> QED  BY <1>2, <2>1, <2>2, <2>3
<1>6. AllBelow(a, n + 1, m)
  <2> SUFFICES ASSUME NEW tick \in RealTick .. n
               PROVE  \/ \E i \in DOMAIN a : a[i] = Sampled(tick)
                      \/ tick \in m /\ tick - RealTick + 1 \in DOMAIN a /\ a[tick - RealTick + 1] = MadeUp
    BY <1>1 DEF AllBelow
  <2>1. CASE tick = n
    BY <1>2, <2>1
  <2>2. CASE tick # n
    <3>1. tick \in RealTick .. (n - 1)  BY <1>1, <2>2
    <3>2. \/ \E i \in DOMAIN s : s[i] = Sampled(tick)
          \/ tick \in m /\ tick - RealTick + 1 \in DOMAIN s /\ s[tick - RealTick + 1] = MadeUp
      BY <1>1, <3>1 DEF AllBelow
    <3>3. \A i \in DOMAIN s : i \in DOMAIN a /\ a[i] = s[i]  BY <1>2
    <3> QED  BY ONLY <3>2, <3>3
  <2> QED  BY <2>1, <2>2
<1> QED  BY <1>3, <1>5, <1>6 DEF Entered, a

\* What is not the player's own enters: the flags that the hub made up for the
\* next tick, and what was sampled without a hub.
LEMMA OthersEnter ==
  ASSUME NEW n \in Int, NEW u \in Int, NEW m, NEW s \in Seq(Entry), Entered(s, n, m),
         NEW e \in {MadeUp, Offline}, n <= u, AllBelow(Append(s, e), u, m)
  PROVE  Entered(Append(s, e), u, m)
<1> DEFINE a == Append(s, e)
<1>1. OnlyBelow(s, n) /\ NoneTwice(s) /\ e \in Entry
  BY EntriesDiffer DEF Entered
<1>2. /\ a \in Seq(Entry)
      /\ DOMAIN s = 1 .. Len(s) /\ Len(s) \in Nat
      /\ DOMAIN a = 1 .. (Len(s) + 1)
      /\ a[Len(s) + 1] = e
      /\ \A i \in 1 .. Len(s) : a[i] = s[i]
  BY <1>1, AppendedTo
<1>3. AllBelow(a, u, m)  OBVIOUS
<1> HIDE DEF a
<1>4. OnlyBelow(a, u)
  <2> SUFFICES ASSUME NEW i \in DOMAIN a
               PROVE  a[i] \in {MadeUp, Offline} \/ \E t \in Int : t < u /\ a[i] = Sampled(t)
    BY DEF OnlyBelow
  <2>1. CASE i \in DOMAIN s
    <3>1. s[i] \in {MadeUp, Offline} \/ \E t \in Int : t < n /\ s[i] = Sampled(t)
      BY <1>1, <2>1 DEF OnlyBelow
    <3>2. a[i] = s[i]  BY <1>2, <2>1
    <3>3. \A t \in Int : t < n => t < u  OBVIOUS
    <3> QED  BY ONLY <3>1, <3>2, <3>3
  <2>2. CASE i = Len(s) + 1
    BY <1>2, <2>2
  <2> QED  BY <1>2, <2>1, <2>2
<1>5. NoneTwice(a)
  <2> SUFFICES ASSUME NEW i \in DOMAIN a, NEW j \in DOMAIN a, a[i] = a[j],
                      a[i] \notin {MadeUp, Offline}
               PROVE  i = j
    BY DEF NoneTwice
  <2>1. i \in DOMAIN s /\ j \in DOMAIN s  BY <1>2
  <2> QED  BY <1>1, <1>2, <2>1 DEF NoneTwice
<1> QED  BY <1>2, <1>3, <1>4, <1>5 DEF Entered, a

\* Appending loses nothing.
LEMMA AllBelowKept ==
  ASSUME NEW n \in Int, NEW m, NEW s \in Seq(Entry), AllBelow(s, n, m), NEW e \in Entry
  PROVE  AllBelow(Append(s, e), n, m)
<1> DEFINE a == Append(s, e)
<1>1. \A i \in DOMAIN s : i \in DOMAIN a /\ a[i] = s[i]
  BY AppendedTo
<1> HIDE DEF a
<1> QED  BY <1>1 DEF AllBelow, a

LEMMA MadeUpEnters ==
  ASSUME NEW n \in Int, NEW m, NEW s \in Seq(Entry), Entered(s, n, m),
         Len(s) = n - RealTick, n \in m
  PROVE  Entered(Append(s, MadeUp), n + 1, m)
<1> DEFINE a == Append(s, MadeUp)
<1>1. AllBelow(s, n, m) /\ MadeUp \in Entry /\ RealTick \in Int
  BY EntriesDiffer, OwnFlagsAssumption DEF Entered
<1>2. /\ DOMAIN a = 1 .. (Len(s) + 1) /\ Len(s) \in Nat
      /\ a[Len(s) + 1] = MadeUp
  BY <1>1, AppendedTo
<1>3. AllBelow(a, n, m)  BY <1>1, AllBelowKept
<1> HIDE DEF a
<1>4. AllBelow(a, n + 1, m)
  <2> SUFFICES ASSUME NEW tick \in RealTick .. n
               PROVE  \/ \E i \in DOMAIN a : a[i] = Sampled(tick)
                      \/ /\ tick \in m /\ tick - RealTick + 1 \in DOMAIN a
                         /\ a[tick - RealTick + 1] = MadeUp
    BY <1>1 DEF AllBelow
  <2>1. CASE tick = n
    BY <1>1, <1>2, <2>1
  <2>2. CASE tick # n
    <3>1. tick \in RealTick .. (n - 1)  BY <1>1, <2>2
    <3> QED  BY <1>3, <3>1 DEF AllBelow
  <2> QED  BY <2>1, <2>2
<1>5. n + 1 \in Int /\ n <= n + 1 /\ MadeUp \in {MadeUp, Offline}  OBVIOUS
<1> QED  BY ONLY <1>4, <1>5, n \in Int, s \in Seq(Entry), Entered(s, n, m), OthersEnter DEF a

LEMMA OfflineEnters ==
  ASSUME NEW n \in Int, NEW m, NEW s \in Seq(Entry), Entered(s, n, m)
  PROVE  Entered(Append(s, Offline), n, m)
<1>1. AllBelow(s, n, m) /\ Offline \in Entry
  BY EntriesDiffer DEF Entered
<1>2. AllBelow(Append(s, Offline), n, m)  BY <1>1, AllBelowKept
<1>3. n <= n /\ Offline \in {MadeUp, Offline}  OBVIOUS
<1> QED  BY <1>2, <1>3, OthersEnter

\* What enters with a hub comes after one entry for each tick before.
LEMMA EntersOnTime ==
  ASSUME NEW n \in Int, NEW s \in Seq(Entry), OnTime(s, n), NEW e \in Entry,
         e = MadeUp \/ \E t \in RealTick .. n : e = Sampled(t)
  PROVE  OnTime(Append(s, e), n + 1)
<1> DEFINE a == Append(s, e)
<1>1. /\ Len(a) = Len(s) + 1 /\ DOMAIN s = 1 .. Len(s) /\ Len(s) \in Nat
      /\ DOMAIN a = 1 .. (Len(s) + 1) /\ a[Len(s) + 1] = e
      /\ \A i \in 1 .. Len(s) : a[i] = s[i]
  BY AppendedTo
<1>2. RealTick \in Int /\ Len(s) = n - RealTick
  BY OwnFlagsAssumption DEF OnTime
<1> HIDE DEF a
<1>3. Len(a) = (n + 1) - RealTick  BY <1>1, <1>2
<1>4. \A i \in DOMAIN a :
        a[i] = MadeUp \/ \E t \in RealTick .. (RealTick + i - 1) : a[i] = Sampled(t)
  <2> SUFFICES ASSUME NEW i \in DOMAIN a
      PROVE  a[i] = MadeUp \/ \E t \in RealTick .. (RealTick + i - 1) : a[i] = Sampled(t)
    OBVIOUS
  <2>1. CASE i \in DOMAIN s
    <3>1. a[i] = s[i]  BY <1>1, <2>1
    <3>2. s[i] = MadeUp \/ \E t \in RealTick .. (RealTick + i - 1) : s[i] = Sampled(t)
      BY <2>1 DEF OnTime
    <3> QED  BY ONLY <3>1, <3>2
  <2>2. CASE i = Len(s) + 1
    <3>1. a[i] = e /\ RealTick + i - 1 = n  BY <1>1, <1>2, <2>2
    <3>2. e = MadeUp \/ \E t \in RealTick .. (RealTick + i - 1) : e = Sampled(t)
      <4>1. RealTick .. (RealTick + i - 1) = RealTick .. n  BY <3>1
      <4>2. e = MadeUp \/ \E t \in RealTick .. n : e = Sampled(t)  OBVIOUS
      <4> QED  BY ONLY <4>1, <4>2
    <3> QED  BY ONLY <3>1, <3>2
  <2> QED  BY <1>1, <2>1, <2>2
<1>5. OnTime(a, n + 1)  BY ONLY <1>3, <1>4 DEF OnTime
<1> QED  BY <1>5 DEF a

LEMMA EntersAsDecided ==
  ASSUME NEW n \in Int, NEW m, NEW s \in Seq(Entry), OnTime(s, n), AsDecided(s, m),
         NEW e \in Entry, e = IF n \in m THEN MadeUp ELSE Sampled(n)
  PROVE  AsDecided(Append(s, e), m)
<1> DEFINE a == Append(s, e)
<1>1. /\ DOMAIN s = 1 .. Len(s) /\ Len(s) \in Nat
      /\ DOMAIN a = 1 .. (Len(s) + 1) /\ a[Len(s) + 1] = e
      /\ \A i \in 1 .. Len(s) : a[i] = s[i]
  BY AppendedTo
<1>2. RealTick \in Int /\ Len(s) = n - RealTick
  BY OwnFlagsAssumption DEF OnTime
<1> HIDE DEF a
<1>3. ASSUME NEW i \in DOMAIN a
      PROVE  a[i] = IF RealTick + i - 1 \in m THEN MadeUp ELSE Sampled(RealTick + i - 1)
  <2>1. CASE i \in DOMAIN s
    BY <1>1, <2>1 DEF AsDecided
  <2>2. CASE i = Len(s) + 1
    <3>1. a[i] = e /\ RealTick + i - 1 = n  BY <1>1, <1>2, <2>2
    <3> QED  BY <3>1
  <2> QED  BY <1>1, <2>1, <2>2
<1> QED  BY <1>3 DEF AsDecided, a

\* Ticks that the hub makes up later change nothing about those that entered.
LEMMA MakingUpLater ==
  ASSUME NEW n \in Int, NEW s \in Seq(Entry), NEW m, NEW tick \in Int
  PROVE  /\ Entered(s, n, m) => Entered(s, n, m \cup {tick})
         /\ OnTime(s, n) /\ AsDecided(s, m) /\ n <= tick => AsDecided(s, m \cup {tick})
<1>1. Entered(s, n, m) => Entered(s, n, m \cup {tick})
  BY DEF Entered, AllBelow
<1>2. ASSUME OnTime(s, n), AsDecided(s, m), n <= tick  PROVE AsDecided(s, m \cup {tick})
  <2>1. RealTick \in Int /\ DOMAIN s = 1 .. Len(s) /\ Len(s) = n - RealTick /\ Len(s) \in Nat
    BY <1>2, OwnFlagsAssumption DEF OnTime
  <2>2. \A i \in DOMAIN s : RealTick + i - 1 # tick
    BY <1>2, <2>1
  <2> QED  BY <1>2, <2>2 DEF AsDecided
<1> QED  BY <1>1, <1>2

LEMMA TapeInvInit == Init => TapeInv
<1> SUFFICES ASSUME Init PROVE TapeInv  OBVIOUS
<1>1. IInv  BY InitIInv
<1>2. /\ tape = <<>> /\ spoke = "idle" /\ smallest = RealTick /\ RealTick \in Int
  BY OwnFlagsAssumption DEF Init
<1>3. tape \in Seq(Entry) /\ DOMAIN tape = {} /\ Len(tape) = 0
  BY <1>2
<1>4. Decided = RealTick  BY <1>2 DEF Decided
<1>5. Entered(tape, Decided, made)
  BY <1>2, <1>3, <1>4 DEF Entered, OnlyBelow, NoneTwice, AllBelow
<1>6. OnTime(tape, Decided) /\ AsDecided(tape, made)
  BY <1>2, <1>3, <1>4 DEF OnTime, AsDecided
<1> QED  BY <1>1, <1>2, <1>3, <1>5, <1>6 DEF TapeInv, TapeSound

LEMMA TapeInvStep == TapeInv /\ [Next]_vars => TapeInv'
<1> SUFFICES ASSUME TapeInv, [Next]_vars PROVE TapeInv'  OBVIOUS
<1>1. /\ IInv /\ IInv' /\ PeeksItsTick /\ smallest \in Int /\ unreceived \in Int
      /\ online \in BOOLEAN /\ alone \in BOOLEAN /\ RealTick \in Int /\ hubTick \in Int
      /\ spoke \in {"idle", "stored", "reading", "confirming", "moving", "moved"}
  BY NextIInv, IInvPeeks, OwnFlagsAssumption DEF TapeInv, IInv, Types
<1>2. /\ spoke = "moved" => hand = smallest - 1
      /\ tape \in Seq(Entry) /\ Decided \in Int
      /\ ~alone => Entered(tape, Decided, made)
      /\ online => OnTime(tape, Decided)
      /\ Company => AsDecided(tape, made)
  BY <1>1 DEF TapeInv, TapeSound, Decided
<1> DEFINE Goal == /\ spoke' = "moved" => hand' = smallest' - 1
                   /\ tape' \in Seq(Entry)
                   /\ ~alone' => Entered(tape', Decided', made')
                   /\ online' => OnTime(tape', Decided')
                   /\ online' /\ ~alone' => AsDecided(tape', made')
<1> SUFFICES Goal
  BY <1>1, Zenon DEF TapeInv, TapeSound, Company, Entered, OnTime, AsDecided, OnlyBelow,
                     NoneTwice, AllBelow
<1>3. ASSUME UNCHANGED <<tape, smallest, hand, made>>, online' => online, alone => alone',
             spoke' = spoke \/ {spoke, spoke'} \subseteq {"idle", "stored", "reading", "moving"}
      PROVE  Goal
  <2>1. Decided' = Decided  BY <1>3 DEF Decided
  <2>2. tape' = tape /\ made' = made /\ (online' => online) /\ (alone => alone')
    BY <1>3
  <2>3. spoke' = "moved" => hand' = smallest' - 1  BY <1>2, <1>3
  <2> QED  BY ONLY <1>2, <2>1, <2>2, <2>3, Zenon DEF Company
\* The next tick enters, with what the hub decided for it.
<1>4. ASSUME NEW e \in Entry, tape' = Append(tape, e), Decided' = Decided + 1,
             UNCHANGED <<online, alone, made>>, spoke' # "moved",
             online => e = MadeUp \/ \E t \in RealTick .. Decided : e = Sampled(t),
             Company => e = IF Decided \in made THEN MadeUp ELSE Sampled(Decided),
             ~alone => e = Sampled(Decided) \/ Company
      PROVE  Goal
  <2>1. tape' \in Seq(Entry)  BY <1>2, <1>4, AppendedTo
  <2>2. online' => OnTime(tape', Decided')
    BY <1>2, <1>4, EntersOnTime
  <2>3. online' /\ ~alone' => AsDecided(tape', made')
    BY <1>2, <1>4, EntersAsDecided DEF Company
  <2>4. ASSUME ~alone  PROVE Entered(tape', Decided', made')
    <3>1. Entered(tape, Decided, made)  BY <1>2, <2>4
    <3>2. CASE e = Sampled(Decided)
      BY <1>2, <1>4, <3>1, <3>2, OwnFlagsEnter
    <3>3. CASE e # Sampled(Decided)
      <4>1. online /\ Decided \in made /\ e = MadeUp  BY <1>4, <2>4, <3>3 DEF Company
      <4>2. Len(tape) = Decided - RealTick  BY <1>2, <4>1 DEF OnTime
      <4> QED  BY <1>2, <1>4, <3>1, <4>1, <4>2, MadeUpEnters
    <3> QED  BY <3>2, <3>3
  <2> QED  BY <1>4, <2>1, <2>2, <2>3, <2>4
<1>5. CASE Confirm
  <2>1. /\ spoke = "reading" /\ spoke' = "confirming" /\ smallest' = smallest
        /\ UNCHANGED <<online, alone, made>>
        /\ tape' = Append(tape, Peek(unconfirmed, smallest))
        /\ Reads /\ RealTick <= unreceived /\ ~packet.reflects
    BY <1>5 DEF Confirm, Reads, hubVars
  <2>2. Decided = smallest /\ Decided' = smallest + 1  BY <2>1 DEF Decided
  <2>3. smallest = unreceived /\ smallest < unconfirmed.w
    BY <1>1, <2>1, ReadsSampled
  <2>4. Peek(unconfirmed, smallest) = Sampled(smallest)
    <3>1. unconfirmed.r \in Int /\ unconfirmed.w \in Int /\ unconfirmed.r <= smallest
      BY <1>1 DEF IInv, Window, Buffer, GameRelies
    <3>2. smallest \in BufferTicks(unconfirmed)
      BY <1>1, <2>3, <3>1 DEF BufferTicks
    <3> QED  BY <1>1, <3>2 DEF PeeksItsTick
  <2>5. unreceived \notin made
    BY <1>1, <2>1 DEF IInv, PacketSound, Reads
  <2>6. Sampled(Decided) \in Entry /\ Decided \in RealTick .. Decided /\ Decided \notin made
    BY <1>1, <2>1, <2>2, <2>3, <2>5, EntriesDiffer
  <2>7. tape' = Append(tape, Sampled(Decided)) /\ Decided' = Decided + 1
    BY <2>1, <2>2, <2>4
  <2> QED  BY <1>4, <2>1, <2>6, <2>7
<1>6. CASE Confirmed
  <2>1. /\ spoke = "confirming" /\ spoke' = "reading" /\ smallest' = smallest + 1
        /\ UNCHANGED <<tape, online, alone, made>>
    BY <1>6 DEF Confirmed, hubVars
  <2>2. Decided' = Decided  BY <2>1 DEF Decided
  <2> QED  BY ONLY <1>2, <2>1, <2>2, Zenon DEF Company
<1>7. CASE Reflect
  <2>1. /\ spoke = "reading" /\ spoke' = "reading" /\ smallest' = smallest + 1
        /\ UNCHANGED <<online, alone, made>> /\ RealTick <= unreceived
        /\ tape' = Append(tape, Decision(unreceived))
    BY <1>7 DEF Reflect, Reads, NextUnconfirmed, hubVars
  <2>2. Decided = smallest /\ Decided' = Decided + 1  BY <2>1 DEF Decided
  <2>3. online /\ unreceived <= smallest /\ (Company => unreceived = smallest)
    BY <1>1, <2>1 DEF IInv, PacketSound, InStep
  <2>4. Decision(unreceived) = MadeUp \/ Decision(unreceived) = Sampled(unreceived)
    BY DEF Decision
  <2>5. Decision(unreceived) \in Entry
    BY <1>1, <2>4, EntriesDiffer
  <2>6. unreceived \in RealTick .. Decided
    BY <1>1, <2>1, <2>2, <2>3
  <2>7. Company => Decision(unreceived) = IF Decided \in made THEN MadeUp ELSE Sampled(Decided)
    BY <2>2, <2>3 DEF Decision
  <2>8. ~alone => Company  BY <2>3 DEF Company
  <2> QED  BY <1>4, <2>1, <2>2, <2>4, <2>5, <2>6, <2>7, <2>8
<1>8. CASE OfflineTick
  <2>1. /\ spoke = "idle" /\ spoke' = "moving" /\ ~online /\ smallest' = smallest
        /\ UNCHANGED <<online, alone, made>> /\ tape' \in {tape, Append(tape, Offline)}
    BY <1>8 DEF OfflineTick, hubVars
  <2>2. Decided' = Decided  BY <2>1 DEF Decided
  <2>3. tape' \in Seq(Entry)  BY <1>2, <2>1, AppendedTo, EntriesDiffer
  <2>4. ~alone => Entered(tape', Decided', made')  BY <1>2, <2>1, <2>2, OfflineEnters
  <2> QED  BY <2>1, <2>3, <2>4
<1>9. CASE Move
  <2>1. /\ spoke = "moving" /\ spoke' = "moved" /\ hand' = smallest /\ smallest' = smallest + 1
        /\ UNCHANGED <<tape, online, alone, made>>
    BY <1>9 DEF Move, hubVars
  <2>2. Decided' = Decided /\ hand' = smallest' - 1  BY <1>1, <2>1 DEF Decided
  <2> QED  BY ONLY <1>2, <2>1, <2>2, Zenon DEF Company
<1>10. CASE Moved
  <2>1. /\ spoke = "moved" /\ spoke' = "moving" /\ smallest' = smallest
        /\ UNCHANGED <<online, alone, made>>
        /\ tape' = Append(tape, Peek(unconfirmed, hand))
    BY <1>10 DEF Moved, hubVars
  <2>2. Decided = hand /\ Decided' = Decided + 1
    BY <1>1, <1>2, <2>1 DEF Decided
  <2>3. tape' = Append(tape, Sampled(Decided))
    BY <1>1, <2>1, <2>2 DEF PeeksItsTick
  <2>4. ~Company
    BY <1>1, <2>1 DEF IInv, InStep
  <2>5. online => RealTick <= Decided
    <3>1. ASSUME online  PROVE RealTick <= Decided
      <4>1. Len(tape) \in Nat /\ Len(tape) = Decided - RealTick  BY <1>2, <3>1 DEF OnTime
      <4> QED  BY <1>1, <1>2, <4>1
    <3> QED  BY <3>1
  <2>6. Sampled(Decided) \in Entry /\ (online => Decided \in RealTick .. Decided)
    BY <1>1, <1>2, <2>5, EntriesDiffer
  <2> QED  BY <1>4, <2>1, <2>2, <2>3, <2>4, <2>6
<1>11. CASE HubMakesUp
  <2>1. /\ UNCHANGED <<tape, online, alone, spoke, smallest, hand>> /\ online
        /\ made' = made \cup {hubTick} /\ RealTick <= hubTick
    BY <1>11 DEF HubMakesUp, spokeVars
  <2>2. Decided' = Decided  BY <2>1 DEF Decided
  <2>3. ~alone => Decided <= hubTick
    BY <1>1, <2>1, <2>2 DEF IInv, InStep, PacketSound, Company, Decided, Types
  <2>4. ~alone => Entered(tape', Decided', made')
    BY <1>1, <1>2, <2>1, <2>2, MakingUpLater
  <2>5. ~alone => AsDecided(tape', made')
    BY <1>1, <1>2, <2>1, <2>2, <2>3, MakingUpLater DEF Company
  <2> QED  BY <1>2, <2>1, <2>2, <2>4, <2>5
<1>12. CASE Provide \/ Advance \/ Receive \/ ReadPregame \/ StopReading \/ WeAreAlone
              \/ MovedAll \/ GiveUpHub \/ HubHears
  <2> DEFINE Lets == /\ UNCHANGED <<tape, smallest, hand, made>>
                     /\ (online' => online) /\ (alone => alone')
                     /\ \/ spoke' = spoke
                        \/ {spoke, spoke'} \subseteq {"idle", "stored", "reading", "moving"}
  <2>1. ASSUME Provide  PROVE Lets
    BY <2>1 DEF Provide, hubVars
  <2>2. ASSUME Advance  PROVE Lets
    BY <2>2 DEF Advance, hubVars
  <2>3. ASSUME Receive  PROVE Lets
    <3>1. /\ UNCHANGED <<tape, smallest, hand, made, online, alone>> /\ spoke = "idle"
          /\ spoke' = "reading" \/ spoke' = spoke
      BY <2>3 DEF Receive, hubVars
    <3> QED  BY ONLY <3>1
  <2>4. ASSUME ReadPregame  PROVE Lets
    BY <2>4 DEF ReadPregame, Reads, hubVars
  <2>5. ASSUME StopReading  PROVE Lets
    BY <2>5 DEF StopReading, hubVars
  <2>6. ASSUME WeAreAlone  PROVE Lets
    BY <2>6 DEF WeAreAlone, hubVars
  <2>7. ASSUME MovedAll  PROVE Lets
    BY <2>7 DEF MovedAll, hubVars
  <2>8. ASSUME GiveUpHub  PROVE Lets
    BY <2>8 DEF GiveUpHub, hubVars
  <2>9. ASSUME HubHears  PROVE Lets
    BY <2>9 DEF HubHears, spokeVars
  <2> QED  BY <1>3, <1>12, <2>1, <2>2, <2>3, <2>4, <2>5, <2>6, <2>7, <2>8, <2>9
<1>13. CASE GameNext
  BY <1>3, <1>13 DEF GameNext, FindConfirmed, DropConfirmed, CountUnconfirmed, Predict,
                     LeavePrediction, spokeVars, hubVars
<1>14. CASE UNCHANGED vars
  BY <1>3, <1>14 DEF vars, hubVars
<1> QED
  BY <1>5, <1>6, <1>7, <1>8, <1>9, <1>10, <1>11, <1>12, <1>13, <1>14
  DEF Next, HubNext, SpokeNext

\* As long as the spoke has not taken itself for the only one left, each own
\* flag enters the game at most once and all that are confirmed do, unless the
\* hub made up others for their ticks, and while there is a hub each tick of
\* the game uses what the hub decided for it. To one that is alone nothing
\* enters before its tick.
THEOREM OwnFlagsEnterOnce == Spec => []OwnFlagsOnce
<1>1. TapeInv => OwnFlagsOnce
  <2> SUFFICES ASSUME TapeInv  PROVE OwnFlagsOnce  OBVIOUS
  <2>1. /\ spoke = "moved" => hand = smallest - 1
        /\ ~alone => NoneTwice(tape) /\ AllBelow(tape, Decided, made)
        /\ online => OnTime(tape, Decided)
        /\ Company => AsDecided(tape, made)
        /\ smallest \in Int /\ RealTick \in Int
    BY OwnFlagsAssumption DEF TapeInv, TapeSound, Entered, IInv, Types
  <2>2. ASSUME ~alone  PROVE InCompany
    <3>1. \A i, j \in DOMAIN tape :
            tape[i] = tape[j] /\ tape[i] \notin {MadeUp, Offline} => i = j
      BY <2>1, <2>2 DEF NoneTwice
    <3>2. ASSUME NEW tick \in RealTick .. (smallest - 1), ~(spoke = "moved" /\ tick = hand)
          PROVE  \/ \E i \in DOMAIN tape : tape[i] = Sampled(tick)
                 \/ tick \in made /\ tape[tick - RealTick + 1] = MadeUp
      <4>1. tick \in RealTick .. (Decided - 1)  BY <2>1, <3>2 DEF Decided
      <4> QED  BY <2>1, <2>2, <4>1 DEF AllBelow
    <3>3. online => \A i \in DOMAIN tape : tape[i] = Decision(RealTick + i - 1)
      BY <2>1, <2>2 DEF AsDecided, Company, Decision
    <3> QED  BY <3>1, <3>2, <3>3 DEF InCompany
  <2>3. online => NeverEarly
    BY <2>1 DEF OnTime, NeverEarly
  <2> QED  BY <2>2, <2>3 DEF OwnFlagsOnce
<1> QED  BY <1>1, TapeInvInit, TapeInvStep, PTL DEF Spec
==============================================================================
