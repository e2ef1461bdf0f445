--------------------------- MODULE ChannelProofs ----------------------------
(* Proofs about MessageChannel, for messages of every size and sockets that  *)
(* cut the bytes anywhere. Both ends are at a place in the bytes of all that *)
(* was enqueued, one after the other: the invariant says that the bytes      *)
(* under way are those between the two places.                               *)
EXTENDS MessageChannel, SequenceTheorems, TLAPS

----------------------------------------------------------------------------
(* The invariant.                                                           *)

Size(m) == HeaderSize + BodyLength[m]
Bytes == Message \X Nat

Typed ==
  /\ sender \in [connected : BOOLEAN, outgoing : Seq(Message),
                 headerPosition : Nat, messagePosition : Nat]
  /\ receiver \in [connected : BOOLEAN, header : Seq(Bytes), message : Message \cup {NoMessage},
                   body : Seq(Bytes), incoming : Seq(Message)]
  /\ link \in {"up", "down"}
  /\ wire \in Seq(Bytes)
  /\ sent \in Seq(Message) /\ handled \in Seq(Message)

\* Where each of the messages begins among the bytes of all of them, and where
\* the next one would.
Laid(start, msgs) ==
  /\ start \in [1 .. Len(msgs) + 1 -> Nat]
  /\ \A k \in 1 .. Len(msgs) : start[k + 1] = start[k] + Size(msgs[k])
  /\ \A k, l \in 1 .. Len(msgs) + 1 : k <= l => start[k] <= start[l]

\* The j-th of the bytes is byte i of message k, if it comes from there.
Carries(bytes, place, start, msgs) ==
  \A j \in 1 .. Len(bytes), k \in 1 .. Len(msgs) :
    \A i \in 1 .. Size(msgs[k]) :
      place + j = start[k] + i => bytes[j] = Byte(msgs[k], i)

\* The message that is sent, and how much of it has been.
Sending == Len(sent) - Len(sender.outgoing) + 1
Put == IF sender.headerPosition = HeaderSize THEN HeaderSize + sender.messagePosition
       ELSE sender.headerPosition

\* The message that is received, and how much of it has been.
Receiving == Len(handled) + Len(receiver.incoming) + 1
Got == Len(receiver.header) + Len(receiver.body)

SenderInStep ==
  link = "up" =>
    /\ Len(sender.outgoing) <= Len(sent)
    /\ \A i \in 1 .. Len(sender.outgoing) : sender.outgoing[i] = sent[Sending + i - 1]
    /\ sender.headerPosition <= HeaderSize
    /\ sender.outgoing = <<>> => sender.headerPosition = 0
    /\ sender.headerPosition = HeaderSize =>
         sender.messagePosition <= BodyLength[sent[Sending]]

ReceiverInStep ==
  /\ Receiving <= Len(sent) + 1
  /\ \A i \in 1 .. Len(receiver.incoming) : receiver.incoming[i] = sent[Len(handled) + i]
  /\ Got > 0 => Receiving <= Len(sent)
  /\ IF receiver.message = NoMessage
     THEN receiver.body = <<>> /\ Len(receiver.header) < HeaderSize
     ELSE /\ receiver.message = sent[Receiving]
          /\ Len(receiver.header) = HeaderSize
          /\ Len(receiver.body) <= BodyLength[receiver.message]
  /\ \A i \in 1 .. Len(receiver.header) : receiver.header[i] = Byte(sent[Receiving], i)
  /\ \A i \in 1 .. Len(receiver.body) :
       receiver.body[i] = Byte(sent[Receiving], HeaderSize + i)

\* The bytes under way are those between the two.
WireInStep(start) ==
  LET place == start[Receiving] + Got
  IN /\ place + Len(wire) <= start[Len(sent) + 1]
     /\ link = "up" => place + Len(wire) = start[Sending] + Put
     /\ Carries(wire, place, start, sent)

ChannelInv ==
  /\ Typed /\ SenderInStep /\ ReceiverInStep
  /\ \E start : Laid(start, sent) /\ WireInStep(start)

----------------------------------------------------------------------------
(* Bytes and their places.                                                  *)

LEMMA Constants ==
  /\ HeaderSize \in Nat /\ HeaderSize > 0 /\ SocketBuffer \in Nat
  /\ \A m \in Message : BodyLength[m] \in Nat /\ Size(m) \in Nat /\ Size(m) > 0
BY ChannelAssumption DEF Size

LEMMA FunctionsAreSequences ==
  ASSUME NEW S, NEW n \in Nat, NEW f \in [1 .. n -> S]
  PROVE  f \in Seq(S) /\ Len(f) = n
OBVIOUS

LEMMA BytesOfMessages ==
  ASSUME NEW m \in Message
  PROVE  /\ Header(m) \in Seq(Bytes) /\ Len(Header(m)) = HeaderSize
         /\ \A i \in 1 .. HeaderSize : Header(m)[i] = Byte(m, i)
         /\ Body(m) \in Seq(Bytes) /\ Len(Body(m)) = BodyLength[m]
         /\ \A i \in 1 .. BodyLength[m] : Body(m)[i] = Byte(m, HeaderSize + i)
<1>1. HeaderSize \in Nat /\ BodyLength[m] \in Nat BY Constants
<1>2. \A i \in Nat : Byte(m, i) \in Bytes BY DEF Byte, Bytes
<1>3. Header(m) \in [1 .. HeaderSize -> Bytes] BY <1>1, <1>2 DEF Header
<1>4. Body(m) \in [1 .. BodyLength[m] -> Bytes] BY <1>1, <1>2 DEF Body
<1>5. \A i \in 1 .. HeaderSize : Header(m)[i] = Byte(m, i) BY DEF Header
<1>6. \A i \in 1 .. BodyLength[m] : Body(m)[i] = Byte(m, HeaderSize + i) BY DEF Body
<1>7. Header(m) \in Seq(Bytes) /\ Len(Header(m)) = HeaderSize
  BY <1>1, <1>3, FunctionsAreSequences
<1>8. Body(m) \in Seq(Bytes) /\ Len(Body(m)) = BodyLength[m]
  BY <1>1, <1>4, FunctionsAreSequences
<1>9. QED BY <1>5, <1>6, <1>7, <1>8

\* A piece of a sequence.
LEMMA Piece ==
  ASSUME NEW S, NEW s \in Seq(S), NEW p \in Nat, NEW n \in Nat, p + n <= Len(s)
  PROVE  /\ SubSeq(s, p + 1, p + n) \in Seq(S) /\ Len(SubSeq(s, p + 1, p + n)) = n
         /\ \A t \in 1 .. n : SubSeq(s, p + 1, p + n)[t] = s[p + t]
<1>1. Len(s) \in Nat /\ \A i \in p + 1 .. p + n : s[i] \in S BY ElementOfSeq
<1>2. CASE n = 0
  <2>1. SubSeq(s, p + 1, p + n) = <<>> BY <1>2, SubSeqEmpty
  <2>2. QED BY <1>2, <2>1
<1>3. CASE n # 0
  <2>1. p + 1 \in Int /\ p + n \in Int /\ p + 1 <= p + n + 1 BY <1>3
  <2>2. /\ SubSeq(s, p + 1, p + n) \in Seq(S)
        /\ Len(SubSeq(s, p + 1, p + n)) = n
    BY <1>1, <1>3, <2>1, SubSeqProperties
  <2>3. \A t \in 1 .. n : SubSeq(s, p + 1, p + n)[t] = s[p + 1 + t - 1]
    BY <1>1, <1>3, <2>1, SubSeqProperties
  <2>4. \A t \in 1 .. n : p + 1 + t - 1 = p + t OBVIOUS
  <2>5. QED BY <2>2, <2>3, <2>4
<1>4. QED BY <1>2, <1>3

LEMMA FirstOnesGone ==
  ASSUME NEW w \in Seq(Bytes), NEW place \in Nat, NEW start, NEW msgs,
         Carries(w, place, start, msgs), NEW n \in 0 .. Len(w)
  PROVE  LET v == SubSeq(w, n + 1, Len(w))
         IN v \in Seq(Bytes) /\ Len(v) = Len(w) - n /\ Carries(v, place + n, start, msgs)
<1> DEFINE v == SubSeq(w, n + 1, Len(w))
           q == Len(w) - n
<1>1. n \in Nat /\ q \in Nat /\ n + q = Len(w) OBVIOUS
<1> HIDE DEF q
<1>2. v \in Seq(Bytes) /\ Len(v) = q /\ \A t \in 1 .. q : v[t] = w[n + t]
  <2>1. n + q <= Len(w) BY <1>1
  <2>2. LET u == SubSeq(w, n + 1, n + q)
        IN u \in Seq(Bytes) /\ Len(u) = q /\ \A t \in 1 .. q : u[t] = w[n + t]
    BY <1>1, <2>1, Piece
  <2>3. QED BY <1>1, <2>2
<1> HIDE DEF v
<1>3. \A t \in 1 .. q : n + t \in 1 .. Len(w) /\ place + (n + t) = place + n + t
  BY <1>1
<1>4. Carries(v, place + n, start, msgs) BY <1>2, <1>3 DEF Carries
<1>5. QED BY <1>2, <1>4 DEF v, q

LEMMA LastOnesGone ==
  ASSUME NEW w \in Seq(Bytes), NEW place \in Nat, NEW start, NEW msgs,
         Carries(w, place, start, msgs), NEW n \in 0 .. Len(w)
  PROVE  LET v == SubSeq(w, 1, n)
         IN v \in Seq(Bytes) /\ Len(v) = n /\ Carries(v, place, start, msgs)
<1> DEFINE v == SubSeq(w, 1, n)
<1>1. n \in Nat /\ 0 + n <= Len(w) /\ 0 + 1 = 1 /\ 0 + n = n OBVIOUS
<1>2. v \in Seq(Bytes) /\ Len(v) = n /\ \A t \in 1 .. n : v[t] = w[0 + t]
  BY <1>1, Piece
<1> HIDE DEF v
<1>3. \A t \in 1 .. n : t \in 1 .. Len(w) /\ 0 + t = t BY <1>1
<1>4. Carries(v, place, start, msgs) BY <1>2, <1>3 DEF Carries
<1>5. QED BY <1>2, <1>4 DEF v

LEMMA LaidSomewhere ==
  ASSUME NEW msgs \in Seq(Message), NEW start, Laid(start, msgs)
  PROVE  /\ \A k \in 1 .. Len(msgs) + 1 : start[k] \in Nat
         /\ \A k \in 1 .. Len(msgs) : start[k] \in Nat /\ start[k + 1] = start[k] + Size(msgs[k])
<1>1. Len(msgs) \in Nat OBVIOUS
<1>2. \A k \in 1 .. Len(msgs) : k \in 1 .. Len(msgs) + 1 BY ONLY <1>1
<1>3. QED BY <1>2 DEF Laid

LEMMA InOrderLaid ==
  ASSUME NEW msgs, NEW start, Laid(start, msgs),
         NEW k \in 1 .. Len(msgs) + 1, NEW l \in 1 .. Len(msgs) + 1, k <= l
  PROVE  start[k] <= start[l]
BY DEF Laid

\* The messages do not overlap.
LEMMA OnePlace ==
  ASSUME NEW msgs \in Seq(Message), NEW start, Laid(start, msgs),
         NEW k \in 1 .. Len(msgs), NEW i \in 1 .. Size(msgs[k]),
         NEW l \in 1 .. Len(msgs), NEW j \in 1 .. Size(msgs[l]),
         start[k] + i = start[l] + j
  PROVE  k = l /\ i = j
<1>1. msgs[k] \in Message /\ msgs[l] \in Message BY ElementOfSeq
<1>2. /\ Size(msgs[k]) \in Nat /\ Size(msgs[l]) \in Nat
      /\ k \in Int /\ l \in Int /\ Len(msgs) \in Nat
      /\ k \in 1 .. Len(msgs) + 1 /\ k + 1 \in 1 .. Len(msgs) + 1
      /\ l \in 1 .. Len(msgs) + 1 /\ l + 1 \in 1 .. Len(msgs) + 1
  BY <1>1, Constants
<1>3. /\ start[k] \in Nat /\ start[l] \in Nat
      /\ start[k + 1] = start[k] + Size(msgs[k]) /\ start[l + 1] = start[l] + Size(msgs[l])
  BY <1>2 DEF Laid
<1>4. k < l => start[k + 1] <= start[l]
  <2>1. k < l => k + 1 <= l BY <1>2
  <2>2. QED BY <1>2, <2>1, InOrderLaid
<1>5. l < k => start[l + 1] <= start[k]
  <2>1. l < k => l + 1 <= k BY <1>2
  <2>2. QED BY <1>2, <2>1, InOrderLaid
<1>6. i \in Int /\ 1 <= i /\ i <= Size(msgs[k]) /\ j \in Int /\ 1 <= j /\ j <= Size(msgs[l])
  BY <1>2
<1>7. ~(k < l) BY <1>2, <1>3, <1>4, <1>6
<1>8. ~(l < k) BY <1>2, <1>3, <1>5, <1>6
<1>9. k = l BY <1>2, <1>7, <1>8
<1>10. QED BY <1>3, <1>6, <1>9

\* Bytes of one message, put where the last ones under way ended.
LEMMA MoreBytes ==
  ASSUME NEW msgs \in Seq(Message), NEW start, Laid(start, msgs), NEW place \in Nat,
         NEW w \in Seq(Bytes), NEW b \in Seq(Bytes), Carries(w, place, start, msgs),
         NEW s \in 1 .. Len(msgs), NEW p \in Nat, place + Len(w) = start[s] + p,
         p + Len(b) <= Size(msgs[s]),
         \A t \in 1 .. Len(b) : b[t] = Byte(msgs[s], p + t)
  PROVE  Carries(w \o b, place, start, msgs)
<1>1. /\ Len(w) \in Nat /\ Len(b) \in Nat /\ Len(w \o b) = Len(w) + Len(b)
      /\ \A j \in 1 .. Len(w) : (w \o b)[j] = w[j]
      /\ \A j \in Len(w) + 1 .. Len(w) + Len(b) : (w \o b)[j] = b[j - Len(w)]
  BY ConcatProperties
<1>2. start[s] \in Nat /\ Size(msgs[s]) \in Nat
  <2>1. msgs[s] \in Message BY ElementOfSeq
  <2>2. Len(msgs) \in Nat /\ s \in 1 .. Len(msgs) + 1 OBVIOUS
  <2>3. QED BY <2>1, <2>2, Constants DEF Laid
<1>3. ASSUME NEW j \in 1 .. Len(w) + Len(b), NEW k \in 1 .. Len(msgs),
             NEW i \in 1 .. Size(msgs[k]), place + j = start[k] + i
      PROVE  (w \o b)[j] = Byte(msgs[k], i)
  <2>1. CASE j <= Len(w) BY <1>1, <1>3, <2>1 DEF Carries
  <2>2. CASE j > Len(w)
    <3> DEFINE t == j - Len(w)
    <3>1. t \in 1 .. Len(b) /\ (w \o b)[j] = b[t]
      <4>1. j \in Len(w) + 1 .. Len(w) + Len(b) BY <1>1, <2>2
      <4>2. QED BY <1>1, <4>1
    <3>2. j = Len(w) + t BY <1>1
    <3> HIDE DEF t
    <3>3. t \in Nat /\ 1 <= t /\ t <= Len(b) BY <1>1, <3>1
    <3>4. p + t \in 1 .. Size(msgs[s]) BY <1>1, <1>2, <3>3
    <3>5. start[s] + (p + t) = place + j
      <4> DEFINE length == Len(w)
                 first == start[s]
      <4>1. /\ place \in Int /\ p \in Int /\ t \in Int /\ length \in Int /\ first \in Int
            /\ place + length = first + p /\ j = length + t
        BY <1>1, <1>2, <3>2, <3>3
      <4> HIDE DEF length, first
      <4>2. first + (p + t) = place + j BY ONLY <4>1
      <4>3. QED BY <4>2 DEF length, first
    <3>6. k = s /\ i = p + t BY <1>3, <3>4, <3>5, OnePlace
    <3>7. QED BY <3>1, <3>6
  <2>3. QED BY <1>1, <2>1, <2>2
<1>4. QED BY <1>1, <1>3 DEF Carries

\* A message more is laid behind those before it.
LEMMA MoreMessages ==
  ASSUME NEW msgs \in Seq(Message), NEW start, Laid(start, msgs), NEW place \in Nat,
         NEW w \in Seq(Bytes), Carries(w, place, start, msgs),
         place + Len(w) <= start[Len(msgs) + 1], NEW m \in Message
  PROVE  \E longer : /\ Laid(longer, Append(msgs, m))
                     /\ \A k \in 1 .. Len(msgs) + 1 : longer[k] = start[k]
                     /\ longer[Len(msgs) + 2] = start[Len(msgs) + 1] + Size(m)
                     /\ Carries(w, place, longer, Append(msgs, m))
<1> DEFINE n == Len(msgs)
           more == Append(msgs, m)
           longer == [k \in 1 .. n + 2 |-> IF k = n + 2 THEN start[n + 1] + Size(m) ELSE start[k]]
<1>1. /\ n \in Nat /\ more \in Seq(Message) /\ Len(more) = n + 1
      /\ \A k \in 1 .. n : more[k] = msgs[k]
      /\ more[n + 1] = m
  OBVIOUS
<1>2. /\ \A k \in 1 .. n + 1 : start[k] \in Nat
      /\ \A k \in 1 .. n : start[k + 1] = start[k] + Size(msgs[k])
      /\ \A k, l \in 1 .. n + 1 : k <= l => start[k] <= start[l]
      /\ Size(m) \in Nat
  BY Constants DEF Laid
<1>3. place + Len(w) <= start[n + 1] OBVIOUS
<1> HIDE DEF n, more
<1>4. /\ longer \in [1 .. n + 2 -> Nat]
      /\ \A k \in 1 .. n + 1 : longer[k] = start[k]
      /\ longer[n + 2] = start[n + 1] + Size(m)
  BY <1>1, <1>2
<1> HIDE DEF longer
<1>5. Laid(longer, more)
  <2>1. ASSUME NEW k \in 1 .. n + 1 PROVE longer[k + 1] = longer[k] + Size(more[k])
    <3>1. CASE k = n + 1 BY <1>1, <1>4, <3>1
    <3>2. CASE k # n + 1 BY <1>1, <1>2, <1>4, <3>2
    <3>3. QED BY <3>1, <3>2
  <2>2. ASSUME NEW k \in 1 .. n + 2, NEW l \in 1 .. n + 2, k <= l
        PROVE  longer[k] <= longer[l]
    <3>1. CASE l = n + 2
      <4>1. k = n + 2 \/ (k \in 1 .. n + 1 /\ n + 1 \in 1 .. n + 1 /\ k <= n + 1) BY <1>1
      <4>2. QED BY <1>1, <1>2, <1>4, <3>1, <4>1
    <3>2. CASE l # n + 2
      <4>1. k \in 1 .. n + 1 /\ l \in 1 .. n + 1 BY <1>1, <2>2, <3>2
      <4>2. QED BY <1>2, <1>4, <2>2, <4>1
    <3>3. QED BY <3>1, <3>2
  <2>3. Len(more) + 1 = n + 2 BY <1>1
  <2>4. QED BY <1>1, <1>4, <2>1, <2>2, <2>3 DEF Laid
<1>6. ASSUME NEW j \in 1 .. Len(w), NEW k \in 1 .. n + 1,
             NEW i \in 1 .. Size(more[k]), place + j = longer[k] + i
      PROVE  w[j] = Byte(more[k], i)
  <2>1. CASE k = n + 1
    <3>1. longer[k] = start[n + 1] /\ more[k] = m BY <1>1, <1>4, <2>1
    <3>2. start[n + 1] \in Nat /\ Len(w) \in Nat BY <1>1, <1>2
    <3>3. FALSE BY <1>2, <1>3, <1>6, <3>1, <3>2
    <3>4. QED BY <3>3
  <2>2. CASE k # n + 1
    <3>1. k \in 1 .. n /\ k \in 1 .. n + 1 BY <1>1, <2>2
    <3>2. more[k] = msgs[k] /\ longer[k] = start[k] BY <1>1, <1>4, <3>1
    <3>3. k \in 1 .. Len(msgs) BY <3>1 DEF n
    <3>4. QED BY <1>6, <3>2, <3>3 DEF Carries
  <2>3. QED BY <2>1, <2>2
<1>7. Carries(w, place, longer, more) BY <1>1, <1>6 DEF Carries
<1>8. QED BY <1>4, <1>5, <1>7 DEF n, more

----------------------------------------------------------------------------
(* The invariant holds at first and is kept by every step.                  *)

\* What the invariant says of the numbers it speaks of.
LEMMA Numbers ==
  ASSUME Typed, ReceiverInStep
  PROVE  /\ Len(sent) \in Nat /\ Len(handled) \in Nat /\ Len(wire) \in Nat
         /\ Len(sender.outgoing) \in Nat /\ sender.headerPosition \in Nat
         /\ sender.messagePosition \in Nat /\ Sending \in Int /\ Put \in Nat
         /\ Len(receiver.incoming) \in Nat /\ Len(receiver.header) \in Nat
         /\ Len(receiver.body) \in Nat /\ Got \in Nat
         /\ Receiving \in 1 .. Len(sent) + 1
<1>1. /\ sender.outgoing \in Seq(Message) /\ receiver.incoming \in Seq(Message)
      /\ receiver.header \in Seq(Bytes) /\ receiver.body \in Seq(Bytes)
      /\ sender.headerPosition \in Nat /\ sender.messagePosition \in Nat
      /\ wire \in Seq(Bytes) /\ sent \in Seq(Message) /\ handled \in Seq(Message)
  BY DEF Typed
<1>2. /\ Len(sent) \in Nat /\ Len(handled) \in Nat /\ Len(wire) \in Nat
      /\ Len(sender.outgoing) \in Nat /\ Len(receiver.incoming) \in Nat
      /\ Len(receiver.header) \in Nat /\ Len(receiver.body) \in Nat
  BY <1>1
<1>3. HeaderSize \in Nat BY Constants
<1>4. Sending \in Int BY <1>2 DEF Sending
<1>5. Put \in Nat BY <1>1, <1>3 DEF Put
<1>6. Got \in Nat BY ONLY Typed, <1>2 DEF Typed, Got
<1>7. Receiving \in 1 .. Len(sent) + 1 BY <1>2 DEF Receiving, ReceiverInStep
<1>8. QED BY <1>1, <1>2, <1>4, <1>5, <1>6, <1>7

\* The fields that disconnecting leaves.
LEMMA Disconnecting ==
  ASSUME Typed
  PROVE  /\ LET s == SenderDisconnected(sender)
            IN /\ s \in [connected : BOOLEAN, outgoing : Seq(Message),
                         headerPosition : Nat, messagePosition : Nat]
               /\ s.outgoing = <<>> /\ s.headerPosition = 0 /\ s.messagePosition = 0
         /\ LET c == ReceiverDisconnected(receiver)
            IN /\ c \in [connected : BOOLEAN, header : Seq(Bytes),
                         message : Message \cup {NoMessage},
                         body : Seq(Bytes), incoming : Seq(Message)]
               /\ c.header = receiver.header /\ c.message = receiver.message
               /\ c.body = receiver.body /\ c.incoming = receiver.incoming
<1> DEFINE s == SenderDisconnected(sender)
           c == ReceiverDisconnected(receiver)
<1>1. <<>> \in Seq(Message) OBVIOUS
<1>2. s \in [connected : BOOLEAN, outgoing : Seq(Message),
             headerPosition : Nat, messagePosition : Nat]
  BY <1>1 DEF Typed, SenderDisconnected
<1>3. s.outgoing = <<>> /\ s.headerPosition = 0 /\ s.messagePosition = 0
  BY DEF Typed, SenderDisconnected
<1>4. c \in [connected : BOOLEAN, header : Seq(Bytes), message : Message \cup {NoMessage},
             body : Seq(Bytes), incoming : Seq(Message)]
  BY DEF Typed, ReceiverDisconnected
<1>5. /\ c.header = receiver.header /\ c.message = receiver.message
      /\ c.body = receiver.body /\ c.incoming = receiver.incoming
  BY DEF Typed, ReceiverDisconnected
<1>6. QED BY <1>2, <1>3, <1>4, <1>5

\* What the receiving side is in step with, when only its connected changes.
LEMMA SameReceiver ==
  ASSUME Typed, ReceiverInStep, UNCHANGED <<sent, handled>>,
         /\ receiver'.header = receiver.header /\ receiver'.message = receiver.message
         /\ receiver'.body = receiver.body /\ receiver'.incoming = receiver.incoming
  PROVE  ReceiverInStep' /\ Receiving' = Receiving /\ Got' = Got
<1>1. Receiving' = Receiving /\ Got' = Got BY DEF Receiving, Got
<1>2. QED BY <1>1 DEF ReceiverInStep

LEMMA ChannelStarts == ChannelInit => ChannelInv
<1> SUFFICES ASSUME ChannelInit PROVE ChannelInv
  OBVIOUS
<1> USE DEF ChannelInit
<1>1. Typed BY DEF Typed, Sender, Receiver
<1>2. SenderInStep BY DEF SenderInStep
<1>3. ReceiverInStep BY Constants DEF ReceiverInStep, Receiver, Receiving, Got
<1> DEFINE start == [k \in 1 .. 1 |-> 0]
<1>4. Laid(start, sent) BY DEF Laid
<1>5. WireInStep(start) BY DEF WireInStep, Receiving, Got, Receiver, Carries
<1>6. QED BY <1>1, <1>2, <1>3, <1>4, <1>5 DEF ChannelInv

LEMMA ConnectKeepsChannel ==
  ASSUME Typed, Connect(ReceiverDisconnected(receiver))
  PROVE  ChannelInv'
<1> USE DEF Connect
<1>1. /\ receiver' = [connected |-> TRUE, header |-> <<>>, message |-> NoMessage,
                      body |-> <<>>, incoming |-> <<>>]
      /\ sent' = <<>> /\ handled' = <<>> /\ wire' = <<>> /\ link' \in {"up", "down"}
  BY DEF Connected, Receiver
<1>2. /\ sender' \in [connected : BOOLEAN, outgoing : Seq(Message),
                      headerPosition : Nat, messagePosition : Nat]
      /\ sender'.outgoing = <<>> /\ sender'.headerPosition = 0 /\ sender'.messagePosition = 0
  <2> DEFINE s == SenderDisconnected(sender)
  <2>1. /\ s \in [connected : BOOLEAN, outgoing : Seq(Message),
                  headerPosition : Nat, messagePosition : Nat]
        /\ s.outgoing = <<>> /\ s.headerPosition = 0 /\ s.messagePosition = 0
    BY Disconnecting
  <2>2. sender' = [s EXCEPT !.connected = TRUE] OBVIOUS
  <2> HIDE DEF s
  <2>3. QED BY <2>1, <2>2
<1>3. Typed' BY <1>1, <1>2 DEF Typed
<1>4. SenderInStep' BY <1>1, <1>2, Constants DEF SenderInStep
<1>5. ReceiverInStep' BY <1>1, Constants DEF ReceiverInStep, Receiving, Got
<1> DEFINE start == [k \in 1 .. 1 |-> 0]
<1>6. Laid(start, sent') BY <1>1 DEF Laid
<1>7. Receiving' = 1 /\ Got' = 0 BY <1>1 DEF Receiving, Got
<1>8. Sending' = 1 /\ Put' = 0 BY <1>1, <1>2, Constants DEF Sending, Put
<1>9. Carries(wire', 0, start, sent') BY <1>1 DEF Carries
<1>10. WireInStep(start)' BY <1>1, <1>7, <1>8, <1>9 DEF WireInStep
<1>11. QED BY <1>3, <1>4, <1>5, <1>6, <1>10 DEF ChannelInv

LEMMA BreakKeepsChannel ==
  ASSUME ChannelInv, Break
  PROVE  ChannelInv'
<1> USE DEF Break
<1>1. Typed /\ ReceiverInStep BY DEF ChannelInv
<1>2. PICK start : Laid(start, sent) /\ WireInStep(start) BY DEF ChannelInv
<1>3. PICK n \in 0 .. Len(wire) : wire' = SubSeq(wire, 1, n) OBVIOUS
<1>4. /\ receiver'.header = receiver.header /\ receiver'.message = receiver.message
      /\ receiver'.body = receiver.body /\ receiver'.incoming = receiver.incoming
  BY <1>1, Disconnecting
<1>5. ReceiverInStep' /\ Receiving' = Receiving /\ Got' = Got
  BY <1>1, <1>4, SameReceiver
<1>6. start[Receiving] \in Nat BY <1>1, <1>2, Numbers DEF Laid
<1> DEFINE place == start[Receiving] + Got
<1>7. /\ place \in Nat /\ Carries(wire, place, start, sent)
      /\ place + Len(wire) <= start[Len(sent) + 1]
  <2>1. Got \in Nat BY <1>1, Numbers
  <2>2. place \in Nat BY <1>6, <2>1
  <2>3. QED BY <1>2, <2>2 DEF WireInStep
<1> HIDE DEF place
<1>8. wire' \in Seq(Bytes) /\ Len(wire') = n /\ Carries(wire', place, start, sent)
  BY <1>1, <1>3, <1>7, LastOnesGone DEF Typed
<1>9. Typed' BY <1>1, <1>8, Disconnecting DEF Typed
<1>10. start[Len(sent) + 1] \in Nat BY <1>1, <1>2, Numbers DEF Laid
<1>11. place + Len(wire') <= start[Len(sent) + 1]
  <2>1. Len(wire) \in Nat /\ n \in Nat /\ n <= Len(wire) BY <1>1, Numbers
  <2>2. QED BY <1>7, <1>8, <1>10, <2>1
<1>12. WireInStep(start)' BY <1>5, <1>8, <1>11 DEF WireInStep, place
<1>13. SenderInStep' BY DEF SenderInStep
<1>14. QED BY <1>2, <1>5, <1>9, <1>12, <1>13 DEF ChannelInv

LEMMA SendFailsKeepsChannel ==
  ASSUME ChannelInv, SendFails
  PROVE  ChannelInv'
<1> USE DEF SendFails
<1>1. Typed /\ ReceiverInStep BY DEF ChannelInv
<1>2. PICK start : Laid(start, sent) /\ WireInStep(start) BY DEF ChannelInv
<1>3. sender' \in [connected : BOOLEAN, outgoing : Seq(Message),
                   headerPosition : Nat, messagePosition : Nat]
  BY <1>1, Disconnecting
<1>4. Typed' BY <1>1, <1>3 DEF Typed
<1>5. SenderInStep' BY DEF SenderInStep
<1>6. ReceiverInStep' /\ Receiving' = Receiving /\ Got' = Got BY <1>1, SameReceiver
<1>7. WireInStep(start)' BY <1>2, <1>6 DEF WireInStep
<1>8. QED BY <1>2, <1>4, <1>5, <1>6, <1>7 DEF ChannelInv

LEMMA ReceiveFailsKeepsChannel ==
  ASSUME ChannelInv, ReceiveFails
  PROVE  ChannelInv'
<1> USE DEF ReceiveFails
<1>1. Typed /\ ReceiverInStep /\ SenderInStep BY DEF ChannelInv
<1>2. PICK start : Laid(start, sent) /\ WireInStep(start) BY DEF ChannelInv
<1>3. Typed' BY <1>1, Disconnecting DEF Typed
<1>4. SenderInStep' BY DEF SenderInStep
<1>5. ReceiverInStep' /\ Receiving' = Receiving /\ Got' = Got
  BY <1>1, Disconnecting, SameReceiver
<1>6. WireInStep(start)' BY <1>2, <1>5 DEF WireInStep
<1>7. QED BY <1>2, <1>3, <1>4, <1>5, <1>6 DEF ChannelInv

LEMMA DispatchKeepsChannel ==
  ASSUME ChannelInv, Dispatch
  PROVE  /\ ChannelInv'
         /\ Len(handled) < Len(sent) /\ handled' = Append(handled, sent[Len(handled) + 1])
<1> USE DEF Dispatch
<1>1. Typed /\ ReceiverInStep /\ SenderInStep BY DEF ChannelInv
<1>2. PICK start : Laid(start, sent) /\ WireInStep(start) BY DEF ChannelInv
<1> DEFINE in == receiver.incoming
<1>3. in \in Seq(Message) /\ in # <<>> /\ handled \in Seq(Message) BY <1>1 DEF Typed
<1>4. /\ Len(in) \in Nat /\ Len(in) > 0 /\ Tail(in) \in Seq(Message)
      /\ Len(Tail(in)) = Len(in) - 1 /\ Head(in) = in[1] /\ Head(in) \in Message
      /\ \A i \in 1 .. Len(in) - 1 : Tail(in)[i] = in[i + 1]
  BY <1>3
<1>5. /\ receiver'.incoming = Tail(in) /\ receiver'.header = receiver.header
      /\ receiver'.body = receiver.body /\ receiver'.message = receiver.message
      /\ receiver' \in [connected : BOOLEAN, header : Seq(Bytes),
                        message : Message \cup {NoMessage},
                        body : Seq(Bytes), incoming : Seq(Message)]
  BY <1>1, <1>4 DEF Typed
<1>6. handled' = Append(handled, in[1]) /\ handled' \in Seq(Message)
      /\ Len(handled') = Len(handled) + 1 /\ Len(handled) \in Nat
  BY <1>3, <1>4
<1>7. Typed' BY <1>1, <1>5, <1>6 DEF Typed
<1>8. Receiving' = Receiving /\ Got' = Got
  <2> DEFINE h == Len(handled)
             l == Len(in)
  <2>1. /\ h \in Nat /\ l \in Nat /\ Len(handled') = h + 1 /\ Len(receiver'.incoming) = l - 1
        /\ Receiving = h + l + 1
    BY <1>4, <1>5, <1>6 DEF Receiving
  <2> HIDE DEF h, l
  <2>2. (h + 1) + (l - 1) + 1 = h + l + 1 BY ONLY <2>1
  <2>3. Receiving' = (h + 1) + (l - 1) + 1 BY <2>1 DEF Receiving
  <2>4. Got' = Got BY <1>5 DEF Got
  <2>5. QED BY <2>1, <2>2, <2>3, <2>4
<1>9. \A i \in 1 .. Len(in) : in[i] = sent[Len(handled) + i] BY <1>1 DEF ReceiverInStep
<1>10. ReceiverInStep'
  <2>1. ASSUME NEW i \in 1 .. Len(receiver'.incoming)
        PROVE  receiver'.incoming[i] = sent[Len(handled') + i]
    <3>1. i \in 1 .. Len(in) - 1 BY <1>4, <1>5
    <3>2. i + 1 \in 1 .. Len(in) /\ Len(handled) + (i + 1) = Len(handled') + i
      <4> DEFINE h == Len(handled)
                 l == Len(in)
      <4>1. h \in Nat /\ l \in Nat /\ Len(handled') = h + 1 /\ i \in 1 .. l - 1
        BY <1>4, <1>6, <3>1
      <4> HIDE DEF h, l
      <4>2. i + 1 \in 1 .. l /\ h + (i + 1) = Len(handled') + i BY ONLY <4>1
      <4>3. QED BY <4>2 DEF h, l
    <3>3. receiver'.incoming[i] = in[i + 1] BY <1>4, <1>5, <3>1
    <3>4. QED BY <1>9, <3>2, <3>3
  <2>2. QED BY <1>1, <1>5, <1>8, <2>1 DEF ReceiverInStep
<1>11. WireInStep(start)' BY <1>2, <1>8 DEF WireInStep, Sending, Put
<1>12. SenderInStep' BY <1>1 DEF SenderInStep, Sending
<1>13. ChannelInv' BY <1>2, <1>7, <1>10, <1>11, <1>12 DEF ChannelInv
<1>14. Len(handled) < Len(sent)
  <2>1. Receiving <= Len(sent) + 1 /\ Receiving = Len(handled) + Len(in) + 1
    BY <1>1 DEF ReceiverInStep, Receiving
  <2>2. Len(sent) \in Nat BY <1>1, Numbers
  <2>3. QED BY <1>4, <1>6, <2>1, <2>2
<1>15. 1 \in 1 .. Len(in) BY <1>4
<1>16. QED BY <1>6, <1>9, <1>13, <1>14, <1>15

LEMMA EnqueueKeepsChannel ==
  ASSUME ChannelInv, NEW m \in Message, Enqueue(m)
  PROVE  ChannelInv'
<1> USE DEF Enqueue
<1>1. Typed /\ ReceiverInStep /\ SenderInStep BY DEF ChannelInv
<1>2. PICK start : Laid(start, sent) /\ WireInStep(start) BY DEF ChannelInv
<1> DEFINE out == sender.outgoing
<1>3. /\ sent' \in Seq(Message) /\ Len(sent') = Len(sent) + 1 /\ Len(sent) \in Nat
      /\ sent'[Len(sent) + 1] = m /\ \A k \in 1 .. Len(sent) : sent'[k] = sent[k]
  BY <1>1 DEF Typed
<1>4. /\ out \in Seq(Message) /\ Len(out) \in Nat
      /\ Append(out, m) \in Seq(Message) /\ Len(Append(out, m)) = Len(out) + 1
      /\ Append(out, m)[Len(out) + 1] = m
      /\ \A i \in 1 .. Len(out) : Append(out, m)[i] = out[i]
  BY <1>1 DEF Typed
<1>5. /\ sender'.outgoing = Append(out, m) /\ sender'.headerPosition = sender.headerPosition
      /\ sender'.messagePosition = sender.messagePosition
      /\ sender' \in [connected : BOOLEAN, outgoing : Seq(Message),
                      headerPosition : Nat, messagePosition : Nat]
  BY <1>1, <1>4 DEF Typed
<1>6. Typed' BY <1>1, <1>3, <1>5 DEF Typed
<1>7. Sending' = Sending /\ Put' = Put
  <2>1. Sending' = Sending BY <1>3, <1>4, <1>5 DEF Sending
  <2>2. Put' = Put BY <1>5 DEF Put
  <2>3. QED BY <2>1, <2>2
<1>8. Receiving' = Receiving /\ Got' = Got /\ receiver' = receiver BY DEF Receiving, Got
<1>9. SenderInStep'
  <2> SUFFICES ASSUME link = "up" PROVE SenderInStep'
    BY DEF SenderInStep
  <2>1. /\ Len(out) <= Len(sent) /\ Sending = Len(sent) - Len(out) + 1
        /\ \A i \in 1 .. Len(out) : out[i] = sent[Sending + i - 1]
    BY <1>1 DEF SenderInStep, Sending
  <2>2. ASSUME NEW i \in 1 .. Len(out) + 1
        PROVE  sender'.outgoing[i] = sent'[Sending + i - 1]
    <3>1. CASE i = Len(out) + 1
      <4>1. Sending + i - 1 = Len(sent) + 1 BY <1>3, <1>4, <2>1, <3>1
      <4>2. QED BY <1>3, <1>4, <1>5, <3>1, <4>1
    <3>2. CASE i # Len(out) + 1
      <4>1. i \in 1 .. Len(out) BY <1>4, <3>2
      <4>2. Sending + i - 1 \in 1 .. Len(sent)
        <5> DEFINE n == Len(sent)
                   l == Len(out)
        <5>1. /\ n \in Nat /\ l \in Nat /\ l <= n /\ Sending = n - l + 1 /\ i \in 1 .. l
          BY <1>3, <1>4, <2>1, <4>1
        <5> HIDE DEF n, l
        <5>2. Sending + i - 1 \in 1 .. n BY ONLY <5>1
        <5>3. QED BY <5>2 DEF n
      <4>3. QED BY <1>3, <1>4, <1>5, <2>1, <4>1, <4>2
    <3>3. QED BY <3>1, <3>2
  <2>3. Len(sender'.outgoing) = Len(out) + 1 BY <1>4, <1>5
  <2>4. Len(sender'.outgoing) <= Len(sent') BY <1>3, <1>4, <2>1, <2>3
  <2>5. sender'.outgoing # <<>> BY <1>4, <1>5
  <2>6. ASSUME sender'.headerPosition = HeaderSize
        PROVE  sender'.messagePosition <= BodyLength[sent'[Sending]]
    <3>1. out # <<>> BY <1>1, <1>5, <2>6, Constants DEF SenderInStep
    <3>2. Len(out) > 0 BY <1>4, <3>1
    <3>3. Sending \in 1 .. Len(sent) BY <1>3, <1>4, <2>1, <3>2
    <3>4. sent'[Sending] = sent[Sending] BY <1>3, <3>3
    <3>5. QED BY <1>1, <1>5, <2>6, <3>4 DEF SenderInStep
  <2>7. sender'.headerPosition <= HeaderSize BY <1>1, <1>5 DEF SenderInStep
  <2>8. QED BY <1>7, <2>2, <2>3, <2>4, <2>5, <2>6, <2>7 DEF SenderInStep
<1>10. ReceiverInStep'
  <2>1. Receiving \in Int /\ Receiving <= Len(sent') + 1
    BY <1>1, <1>3, Numbers
  <2>2. ASSUME NEW i \in 1 .. Len(receiver.incoming)
        PROVE  receiver.incoming[i] = sent'[Len(handled) + i]
    <3>1. /\ Len(receiver.incoming) \in Nat /\ Len(handled) \in Nat
          /\ Len(handled) + Len(receiver.incoming) + 1 <= Len(sent) + 1
      BY <1>1, Numbers DEF ReceiverInStep, Receiving
    <3>2. Len(handled) + i \in 1 .. Len(sent) BY <1>3, <3>1
    <3>3. receiver.incoming[i] = sent[Len(handled) + i] BY <1>1 DEF ReceiverInStep
    <3>4. QED BY <1>3, <3>2, <3>3
  <2>3. ASSUME Got > 0 PROVE Receiving <= Len(sent') /\ sent'[Receiving] = sent[Receiving]
    <3>1. Receiving <= Len(sent) BY <1>1, <2>3 DEF ReceiverInStep
    <3>2. Receiving \in 1 .. Len(sent) BY <1>1, <1>3, <3>1, Numbers
    <3>3. QED BY <1>3, <3>2
  <2>4. /\ (Len(receiver.header) = HeaderSize => Got > 0)
        /\ (1 .. Len(receiver.header) # {} \/ 1 .. Len(receiver.body) # {} => Got > 0)
    <3> DEFINE h == Len(receiver.header)
               b == Len(receiver.body)
    <3>1. h \in Nat /\ b \in Nat /\ HeaderSize \in Nat /\ HeaderSize > 0 /\ Got = h + b
      BY <1>1, Numbers, Constants DEF Got
    <3> HIDE DEF h, b
    <3>2. (h = HeaderSize => Got > 0) /\ (1 .. h # {} \/ 1 .. b # {} => Got > 0)
      BY ONLY <3>1
    <3>3. QED BY <3>2 DEF h, b
  <2>5. receiver.message # NoMessage => Got > 0 BY <1>1, <2>4 DEF ReceiverInStep
  <2>6. \A i \in 1 .. Len(receiver.header) : receiver.header[i] = Byte(sent'[Receiving], i)
    BY <1>1, <2>3, <2>4 DEF ReceiverInStep
  <2>7. \A i \in 1 .. Len(receiver.body) :
          receiver.body[i] = Byte(sent'[Receiving], HeaderSize + i)
    BY <1>1, <2>3, <2>4 DEF ReceiverInStep
  <2>8. IF receiver.message = NoMessage
        THEN receiver.body = <<>> /\ Len(receiver.header) < HeaderSize
        ELSE /\ receiver.message = sent'[Receiving]
             /\ Len(receiver.header) = HeaderSize
             /\ Len(receiver.body) <= BodyLength[receiver.message]
    BY <1>1, <2>3, <2>5 DEF ReceiverInStep
  <2>9. QED BY <1>8, <2>1, <2>2, <2>3, <2>6, <2>7, <2>8 DEF ReceiverInStep
<1>11. \E longer : Laid(longer, sent') /\ WireInStep(longer)'
  <2> DEFINE place == start[Receiving] + Got
  <2>1. start[Receiving] \in Nat /\ Got \in Nat BY <1>1, <1>2, Numbers DEF Laid
  <2>2. /\ place \in Nat /\ Carries(wire, place, start, sent)
        /\ place + Len(wire) <= start[Len(sent) + 1] /\ Len(wire) \in Nat
    <3>1. Len(wire) \in Nat BY <1>1, Numbers
    <3>2. place \in Nat BY ONLY <2>1
    <3>3. QED BY <1>2, <3>1, <3>2 DEF WireInStep
  <2> HIDE DEF place
  <2>3. PICK longer : /\ Laid(longer, Append(sent, m))
                      /\ \A k \in 1 .. Len(sent) + 1 : longer[k] = start[k]
                      /\ longer[Len(sent) + 2] = start[Len(sent) + 1] + Size(m)
                      /\ Carries(wire, place, longer, Append(sent, m))
    BY <1>1, <1>2, <2>2, MoreMessages DEF Typed
  <2>4. longer[Receiving] = start[Receiving] BY <1>1, <2>3, Numbers
  <2>5. place + Len(wire) <= longer[Len(sent') + 1]
    <3>1. Len(sent') + 1 = Len(sent) + 2 /\ Len(sent) + 1 \in 1 .. Len(sent) + 1
      BY <1>3
    <3>2. start[Len(sent) + 1] \in Nat /\ Size(m) \in Nat BY <1>2, <3>1, Constants DEF Laid
    <3>3. longer[Len(sent') + 1] = start[Len(sent) + 1] + Size(m) BY <2>3, <3>1
    <3>4. QED BY <2>2, <3>2, <3>3
  <2>6. link = "up" => longer[Sending] = start[Sending]
    <3>1. link = "up" => Sending \in 1 .. Len(sent) + 1
      <4> DEFINE n == Len(sent)
                 l == Len(out)
      <4>1. n \in Nat /\ l \in Nat /\ (link = "up" => l <= n) /\ Sending = n - l + 1
        BY <1>1, <1>3, <1>4 DEF SenderInStep, Sending
      <4> HIDE DEF n, l
      <4>2. link = "up" => Sending \in 1 .. n + 1 BY ONLY <4>1
      <4>3. QED BY <4>2 DEF n
    <3>2. QED BY <2>3, <3>1
  <2>7. WireInStep(longer)'
    BY <1>2, <1>7, <1>8, <2>3, <2>4, <2>5, <2>6 DEF WireInStep, place
  <2>8. QED BY <2>3, <2>7
<1>12. QED BY <1>6, <1>9, <1>10, <1>11 DEF ChannelInv

\* What the sending side puts on the wire: the next bytes of its first message.
LEMMA MoreOnTheWire ==
  ASSUME Typed, ReceiverInStep, NEW start, Laid(start, sent), WireInStep(start),
         link = "up", NEW b \in Seq(Bytes), Sending \in 1 .. Len(sent),
         Put + Len(b) <= Size(sent[Sending]),
         \A t \in 1 .. Len(b) : b[t] = Byte(sent[Sending], Put + t),
         wire' = wire \o b, UNCHANGED <<receiver, link, sent, handled>>
  PROVE  /\ wire' \in Seq(Bytes) /\ Len(b) \in Nat
         /\ start[Sending'] + Put' = start[Sending] + (Put + Len(b)) => WireInStep(start)'
<1> DEFINE place == start[Receiving] + Got
           s == Sending
           p == Put
           l == Len(wire)
           k == Len(b)
           top == start[Len(sent) + 1]
<1>1. /\ start[Receiving] \in Nat /\ Got \in Nat /\ l \in Nat /\ k \in Nat /\ p \in Nat
      /\ s \in 1 .. Len(sent) /\ Len(sent) \in Nat
  <2>1. /\ Receiving \in 1 .. Len(sent) + 1 /\ Got \in Nat /\ l \in Nat /\ p \in Nat
        /\ Len(sent) \in Nat
    BY Numbers
  <2>2. start[Receiving] \in Nat BY <2>1, LaidSomewhere DEF Typed
  <2>3. k \in Nat OBVIOUS
  <2>4. QED BY <2>1, <2>2, <2>3
<1>2. place \in Nat BY ONLY <1>1
<1>3. Carries(wire, place, start, sent) /\ place + l = start[s] + p BY DEF WireInStep
<1>4. sent \in Seq(Message) /\ wire \in Seq(Bytes) BY DEF Typed
<1>5. k + p = p + k /\ p + k <= Size(sent[s]) /\ \A t \in 1 .. k : b[t] = Byte(sent[s], p + t)
  BY <1>1
<1> HIDE DEF place, s, p
<1>6. Carries(wire', place, start, sent) BY <1>1, <1>2, <1>3, <1>4, <1>5, MoreBytes
<1>7. wire' \in Seq(Bytes) /\ Len(wire') = l + k BY <1>4, ConcatProperties
<1>8. Receiving' = Receiving /\ Got' = Got BY DEF Receiving, Got
<1>9. place + Len(wire') = start[s] + (p + k)
  <2> DEFINE first == start[s]
  <2>1. first \in Nat BY <1>1, <1>4, LaidSomewhere
  <2> HIDE DEF first, l, k
  <2>2. place + l = first + p BY <1>3 DEF first
  <2>3. place + (l + k) = first + (p + k) BY ONLY <1>1, <1>2, <2>1, <2>2
  <2>4. QED BY <1>7, <2>3 DEF first
<1>10. start[s] + (p + k) <= top
  <2> DEFINE first == start[s]
             size == Size(sent[s])
  <2>1. s + 1 \in 1 .. Len(sent) + 1 /\ Len(sent) + 1 \in 1 .. Len(sent) + 1 BY <1>1
  <2>2. sent[s] \in Message BY <1>1, <1>4, ElementOfSeq
  <2>3. first \in Nat /\ size \in Nat /\ top \in Nat /\ start[s + 1] = first + size
    <3>1. first \in Nat /\ start[s + 1] = first + size BY <1>1, <1>4, LaidSomewhere
    <3>2. top \in Nat BY <1>4, <2>1, LaidSomewhere
    <3>3. QED BY <2>2, <3>1, <3>2, Constants
  <2>4. start[s + 1] <= top BY <1>1, <2>1, InOrderLaid
  <2>5. first + size <= top /\ p + k <= size BY <1>5, <2>3, <2>4
  <2> HIDE DEF first, size, top, k
  <2>6. first + (p + k) <= top BY ONLY <1>1, <2>3, <2>5
  <2>7. QED BY <2>6 DEF first
<1>11. place + Len(wire') <= start[Len(sent) + 1] BY <1>9, <1>10
<1>12. place' = place BY <1>8 DEF place
<1>13. start[Sending'] + Put' = start[Sending] + (Put + Len(b)) => WireInStep(start)'
  BY <1>6, <1>8, <1>9, <1>11 DEF WireInStep, place, s, p
<1>14. QED BY <1>1, <1>7, <1>13

\* Which message is sent, when there is one.
LEMMA FirstOutgoing ==
  ASSUME Typed, SenderInStep, link = "up", sender.outgoing # <<>>
  PROVE  /\ Sending \in 1 .. Len(sent) /\ Head(sender.outgoing) = sent[Sending]
         /\ sent[Sending] \in Message
         /\ Sending = Len(sent) - Len(sender.outgoing) + 1
         /\ Len(sender.outgoing) \in Nat /\ Len(sender.outgoing) > 0 /\ Len(sent) \in Nat
<1> DEFINE out == sender.outgoing
           n == Len(sent)
           l == Len(out)
<1>1. out \in Seq(Message) /\ sent \in Seq(Message) BY DEF Typed
<1>2. l \in Nat /\ l > 0 /\ n \in Nat /\ Head(out) = out[1] BY <1>1
<1>3. l <= n /\ Sending = n - l + 1 /\ \A i \in 1 .. l : out[i] = sent[Sending + i - 1]
  BY DEF SenderInStep, Sending
<1>4. Sending \in 1 .. n /\ 1 \in 1 .. l /\ Sending + 1 - 1 = Sending
  <2> HIDE DEF n, l
  <2>1. QED BY ONLY <1>2, <1>3
<1>5. out[1] = sent[Sending] BY <1>3, <1>4
<1>6. sent[Sending] \in Message BY <1>1, <1>4, ElementOfSeq
<1>7. QED BY <1>2, <1>3, <1>4, <1>5, <1>6

LEMMA SendHeaderKeepsChannel ==
  ASSUME ChannelInv, SendHeader
  PROVE  ChannelInv'
<1> USE DEF SendHeader
<1>1. Typed /\ ReceiverInStep /\ SenderInStep BY DEF ChannelInv
<1>2. PICK start : Laid(start, sent) /\ WireInStep(start) BY DEF ChannelInv
<1> DEFINE m == sent[Sending]
           p == sender.headerPosition
<1>3. /\ Sending \in 1 .. Len(sent) /\ Head(sender.outgoing) = m /\ m \in Message
  BY <1>1, FirstOutgoing
<1>4. /\ Header(m) \in Seq(Bytes) /\ Len(Header(m)) = HeaderSize
      /\ \A i \in 1 .. HeaderSize : Header(m)[i] = Byte(m, i)
  BY <1>3, BytesOfMessages
<1> HIDE DEF m
<1>5. PICK n \in Taken(Header(m), p) :
        /\ SendSome(Header(m), p, n)
        /\ sender' = [sender EXCEPT
             !.headerPosition = @ + n,
             !.messagePosition = IF p + n = HeaderSize THEN 0 ELSE @]
  BY <1>3
<1>6. /\ p \in Nat /\ p < HeaderSize /\ HeaderSize \in Nat
      /\ BodyLength[m] \in Nat /\ Size(m) = HeaderSize + BodyLength[m]
  BY <1>1, <1>3, Constants DEF Typed, Size
<1>7. n \in Nat /\ p + n <= HeaderSize /\ p + n <= Size(m)
  <2>1. n \in 0 .. HeaderSize - p BY <1>4, <1>5 DEF Taken
  <2> HIDE DEF p
  <2>2. QED BY ONLY <1>6, <2>1
<1> DEFINE b == SubSeq(Header(m), p + 1, p + n)
<1>8. /\ b \in Seq(Bytes) /\ Len(b) = n /\ \A t \in 1 .. n : b[t] = Header(m)[p + t]
  <2>1. p + n <= Len(Header(m)) BY <1>4, <1>7
  <2> HIDE DEF p
  <2>2. QED BY ONLY <1>4, <1>6, <1>7, <2>1, Piece
<1>9. wire' = wire \o b BY <1>5 DEF SendSome
<1> HIDE DEF b
<1>10. Put = p BY <1>6 DEF Put
<1>11. \A t \in 1 .. Len(b) : b[t] = Byte(m, p + t)
  <2> HIDE DEF p
  <2>1. \A t \in 1 .. n : p + t \in 1 .. HeaderSize BY ONLY <1>6, <1>7
  <2>2. QED BY <1>4, <1>8, <2>1
<1>12. Put + Len(b) <= Size(m) BY <1>7, <1>8, <1>10
<1>13. /\ sender' \in [connected : BOOLEAN, outgoing : Seq(Message),
                       headerPosition : Nat, messagePosition : Nat]
       /\ sender'.outgoing = sender.outgoing /\ sender'.headerPosition = p + n
       /\ p + n = HeaderSize => sender'.messagePosition = 0
  <2>1. p + n \in Nat BY <1>6, <1>7
  <2>2. QED BY <1>1, <1>5, <2>1 DEF Typed
<1>14. Sending' = Sending /\ Put' = p + n
  <2>1. Sending' = Sending BY <1>13 DEF Sending
  <2>2. Put' = p + n
    <3>1. CASE p + n = HeaderSize
      <4>1. Put' = HeaderSize + 0 BY <1>13, <3>1 DEF Put
      <4>2. QED BY <1>6, <3>1, <4>1
    <3>2. CASE p + n # HeaderSize BY <1>13, <3>2 DEF Put
    <3>3. QED BY <3>1, <3>2
  <2>3. QED BY <2>1, <2>2
<1>15. wire' \in Seq(Bytes) /\ WireInStep(start)'
  <2>1. start[Sending'] + Put' = start[Sending] + (Put + Len(b))
    BY <1>8, <1>10, <1>14
  <2>2. QED BY <1>1, <1>2, <1>3, <1>8, <1>9, <1>10, <1>11, <1>12, <2>1, MoreOnTheWire DEF m
<1>16. Typed' BY <1>1, <1>13, <1>15 DEF Typed
<1>17. SenderInStep'
  BY <1>1, <1>3, <1>6, <1>7, <1>13, <1>14 DEF SenderInStep, m
<1>18. ReceiverInStep' BY <1>1, SameReceiver
<1>19. QED BY <1>2, <1>15, <1>16, <1>17, <1>18 DEF ChannelInv

LEMMA SendMessageKeepsChannel ==
  ASSUME ChannelInv, SendMessage
  PROVE  ChannelInv'
<1> USE DEF SendMessage
<1>1. Typed /\ ReceiverInStep /\ SenderInStep BY DEF ChannelInv
<1>2. PICK start : Laid(start, sent) /\ WireInStep(start) BY DEF ChannelInv
<1> DEFINE m == sent[Sending]
           q == sender.messagePosition
           out == sender.outgoing
<1>3. /\ Sending \in 1 .. Len(sent) /\ Head(out) = m /\ m \in Message
      /\ Sending = Len(sent) - Len(out) + 1
      /\ Len(out) \in Nat /\ Len(out) > 0 /\ Len(sent) \in Nat
  BY <1>1, FirstOutgoing
<1>4. /\ Body(m) \in Seq(Bytes) /\ Len(Body(m)) = BodyLength[m]
      /\ \A i \in 1 .. BodyLength[m] : Body(m)[i] = Byte(m, HeaderSize + i)
  BY <1>3, BytesOfMessages
<1>5. q <= BodyLength[m] BY <1>1 DEF SenderInStep
<1> HIDE DEF m
<1> DEFINE moved(n) == [sender EXCEPT !.messagePosition = @ + n]
<1>6. PICK n \in Taken(Body(m), q) :
        /\ SendSome(Body(m), q, n)
        /\ sender' = IF moved(n).messagePosition = Len(Body(m)) THEN NextOutgoing(moved(n))
                     ELSE moved(n)
  BY <1>3
<1>7. /\ q \in Nat /\ HeaderSize \in Nat /\ HeaderSize > 0
      /\ BodyLength[m] \in Nat /\ Size(m) = HeaderSize + BodyLength[m]
  BY <1>1, <1>3, Constants DEF Typed, Size
<1>8. n \in Nat /\ q + n <= BodyLength[m] /\ HeaderSize + q + n <= Size(m)
  <2>1. n \in 0 .. BodyLength[m] - q BY <1>4, <1>6 DEF Taken
  <2> HIDE DEF q
  <2>2. QED BY ONLY <1>5, <1>7, <2>1
<1> DEFINE b == SubSeq(Body(m), q + 1, q + n)
<1>9. /\ b \in Seq(Bytes) /\ Len(b) = n /\ \A t \in 1 .. n : b[t] = Body(m)[q + t]
  <2>1. q + n <= Len(Body(m)) BY <1>4, <1>8
  <2> HIDE DEF q
  <2>2. QED BY ONLY <1>4, <1>7, <1>8, <2>1, Piece
<1>10. wire' = wire \o b BY <1>6 DEF SendSome
<1> HIDE DEF b
<1>11. Put = HeaderSize + q BY DEF Put
<1>12. \A t \in 1 .. Len(b) : b[t] = Byte(m, Put + t)
  <2> HIDE DEF q
  <2>1. \A t \in 1 .. n : q + t \in 1 .. BodyLength[m] /\ HeaderSize + (q + t) = HeaderSize + q + t
    BY ONLY <1>7, <1>8
  <2>2. QED BY <1>4, <1>9, <1>11, <2>1
<1>13. Put + Len(b) <= Size(m) BY <1>8, <1>9, <1>11
<1>14. /\ moved(n) \in [connected : BOOLEAN, outgoing : Seq(Message),
                        headerPosition : Nat, messagePosition : Nat]
       /\ moved(n).outgoing = out /\ moved(n).headerPosition = HeaderSize
       /\ moved(n).messagePosition = q + n
  <2>1. q + n \in Nat BY <1>7, <1>8
  <2>2. QED BY <1>1, <2>1 DEF Typed
<1> HIDE DEF moved
<1>15. CASE q + n # BodyLength[m]
  <2>1. sender' = moved(n) BY <1>4, <1>6, <1>14, <1>15
  <2>2. Sending' = Sending /\ Put' = HeaderSize + (q + n)
    BY <1>14, <2>1 DEF Sending, Put
  <2>3. start[Sending'] + Put' = start[Sending] + (Put + Len(b))
    <3>1. HeaderSize + (q + n) = HeaderSize + q + n BY <1>7, <1>8
    <3>2. QED BY <1>9, <1>11, <2>2, <3>1
  <2>4. wire' \in Seq(Bytes) /\ WireInStep(start)'
    BY <1>1, <1>2, <1>3, <1>9, <1>10, <1>12, <1>13, <2>3, MoreOnTheWire DEF m
  <2>5. Typed' BY <1>1, <1>14, <2>1, <2>4 DEF Typed
  <2>6. SenderInStep'
    BY <1>1, <1>7, <1>8, <1>14, <2>1, <2>2 DEF SenderInStep, m
  <2>7. ReceiverInStep' BY <1>1, SameReceiver
  <2>8. QED BY <1>2, <2>4, <2>5, <2>6, <2>7 DEF ChannelInv
<1>16. CASE q + n = BodyLength[m]
  <2>1. sender' = NextOutgoing(moved(n)) BY <1>4, <1>6, <1>14, <1>16
  <2>2. /\ Tail(out) \in Seq(Message) /\ Len(Tail(out)) = Len(out) - 1
        /\ \A i \in 1 .. Len(out) - 1 : Tail(out)[i] = out[i + 1]
    BY <1>1 DEF Typed
  <2>3. /\ sender' \in [connected : BOOLEAN, outgoing : Seq(Message),
                        headerPosition : Nat, messagePosition : Nat]
        /\ sender'.outgoing = Tail(out) /\ sender'.headerPosition = 0
    BY <1>14, <2>1, <2>2 DEF NextOutgoing
  <2>4. Put' = 0 BY <1>7, <2>3 DEF Put
  <2>5. Sending' = Sending + 1
    <3> DEFINE l == Len(out)
               k == Len(sent)
    <3>1. l \in Nat /\ k \in Nat /\ Sending = k - l + 1 BY <1>3
    <3>2. Sending' = k - (l - 1) + 1 BY <2>2, <2>3 DEF Sending
    <3> HIDE DEF l, k
    <3>3. k - (l - 1) + 1 = (k - l + 1) + 1 BY ONLY <3>1
    <3>4. QED BY <3>1, <3>2, <3>3
  <2>6. start[Sending'] + Put' = start[Sending] + (Put + Len(b))
    <3> DEFINE first == start[Sending]
    <3>1. first \in Nat /\ start[Sending + 1] = first + Size(m)
      BY <1>1, <1>2, <1>3, LaidSomewhere DEF Typed, m
    <3> HIDE DEF first, q
    <3>2. (first + Size(m)) + 0 = first + ((HeaderSize + q) + n)
      BY ONLY <1>7, <1>8, <1>16, <3>1
    <3>3. QED BY <1>9, <1>11, <2>4, <2>5, <3>1, <3>2 DEF first
  <2>7. wire' \in Seq(Bytes) /\ WireInStep(start)'
    BY <1>1, <1>2, <1>3, <1>9, <1>10, <1>12, <1>13, <2>6, MoreOnTheWire DEF m
  <2>8. Typed' BY <1>1, <2>3, <2>7 DEF Typed
  <2>9. SenderInStep'
    <3>1. Len(out) <= Len(sent) /\ \A i \in 1 .. Len(out) : out[i] = sent[Sending + i - 1]
      BY <1>1 DEF SenderInStep
    <3>2. ASSUME NEW i \in 1 .. Len(out) - 1
          PROVE  Tail(out)[i] = sent[Sending + 1 + i - 1]
      <4> DEFINE l == Len(out)
      <4>1. l \in Nat /\ Sending \in Nat BY <1>3
      <4> HIDE DEF l
      <4>2. i \in 1 .. l - 1 BY DEF l
      <4>3. i + 1 \in 1 .. l /\ Sending + (i + 1) - 1 = Sending + 1 + i - 1
        BY ONLY <4>1, <4>2
      <4>4. out[i + 1] = sent[Sending + (i + 1) - 1] BY <3>1, <4>3 DEF l
      <4>5. QED BY <2>2, <4>3, <4>4
    <3>3. Len(Tail(out)) <= Len(sent) BY <1>3, <2>2, <3>1
    <3>4. \A i \in 1 .. Len(sender'.outgoing) : sender'.outgoing[i] = sent'[Sending' + i - 1]
      BY <2>2, <2>3, <2>5, <3>2
    <3>5. sender'.headerPosition <= HeaderSize /\ sender'.headerPosition # HeaderSize
      BY <1>7, <2>3
    <3>6. Len(sender'.outgoing) <= Len(sent') BY <2>3, <3>3
    <3>7. sender'.headerPosition = 0 BY <2>3
    <3>8. QED BY <3>4, <3>5, <3>6, <3>7 DEF SenderInStep
  <2>10. ReceiverInStep' BY <1>1, SameReceiver
  <2>11. QED BY <1>2, <2>7, <2>8, <2>9, <2>10 DEF ChannelInv
<1>17. QED BY <1>15, <1>16

\* More bytes of one message behind those of it that came.
From(m, offset, bytes) == \A i \in 1 .. Len(bytes) : bytes[i] = Byte(m, offset + i)

LEMMA MoreOfIt ==
  ASSUME NEW m, NEW offset \in Nat, NEW h \in Seq(Bytes), NEW v \in Seq(Bytes),
         From(m, offset, h), From(m, offset + Len(h), v)
  PROVE  /\ h \o v \in Seq(Bytes) /\ Len(h \o v) = Len(h) + Len(v)
         /\ From(m, offset, h \o v)
<1> DEFINE k == Len(h)
           n == Len(v)
           both == h \o v
<1>1. /\ both \in Seq(Bytes) /\ Len(both) = k + n /\ k \in Nat /\ n \in Nat
      /\ \A i \in 1 .. k : both[i] = h[i]
      /\ \A i \in k + 1 .. k + n : both[i] = v[i - k]
  BY ConcatProperties
<1> HIDE DEF both
<1>2. ASSUME NEW i \in 1 .. k + n PROVE both[i] = Byte(m, offset + i)
  <2> HIDE DEF k, n
  <2>1. CASE i <= k
    <3>1. i \in 1 .. k BY ONLY <1>1, <2>1
    <3>2. QED BY <1>1, <3>1 DEF From, k
  <2>2. CASE i > k
    <3>1. i \in k + 1 .. k + n /\ i - k \in 1 .. n /\ offset + k + (i - k) = offset + i
      BY ONLY <1>1, <2>2
    <3>2. both[i] = v[i - k] BY <1>1, <3>1
    <3>3. v[i - k] = Byte(m, offset + k + (i - k)) BY <3>1 DEF From, k, n
    <3>4. QED BY <3>1, <3>2, <3>3
  <2>3. QED BY ONLY <1>1, <2>1, <2>2
<1>3. QED BY <1>1, <1>2 DEF From, both

\* All of the bytes of a header, or of a body, are it.
LEMMA AllOfIt ==
  ASSUME NEW m \in Message, NEW s \in Seq(Bytes)
  PROVE  /\ Len(s) = HeaderSize /\ (\A i \in 1 .. HeaderSize : s[i] = Byte(m, i))
              => s = Header(m)
         /\ Len(s) = BodyLength[m]
            /\ (\A i \in 1 .. BodyLength[m] : s[i] = Byte(m, HeaderSize + i))
              => s = Body(m)
BY BytesOfMessages, SeqEqual

\* A header is that of one message.
LEMMA HeadersDiffer ==
  ASSUME NEW m \in Message, NEW x \in Message, Header(m) = Header(x)
  PROVE  m = x
<1>1. 1 \in 1 .. HeaderSize BY Constants
<1>2. Byte(m, 1) = Byte(x, 1) BY <1>1, BytesOfMessages
<1>3. QED BY <1>2 DEF Byte

\* What the receiving side takes off the wire: the next bytes of its message.
LEMMA FewerOnTheWire ==
  ASSUME Typed, ReceiverInStep, NEW start, Laid(start, sent), WireInStep(start),
         NEW n \in 0 .. Len(wire), ReceiveSome(n), n > 0 \/ Got > 0,
         \A m \in Message : m = sent[Receiving] => Got + n <= Size(m),
         UNCHANGED <<sender, sent>>
  PROVE  /\ Receiving \in 1 .. Len(sent) /\ sent[Receiving] \in Message
         /\ LET taken == SubSeq(wire, 1, n)
            IN /\ taken \in Seq(Bytes) /\ Len(taken) = n
               /\ \A t \in 1 .. n : taken[t] = Byte(sent[Receiving], Got + t)
         /\ wire' \in Seq(Bytes)
         /\ link' = link /\ start[Receiving'] + Got' = start[Receiving] + (Got + n)
              => WireInStep(start)'
<1> DEFINE r == Receiving
           g == Got
           l == Len(wire)
           k == Len(sent)
           first == start[r]
           top == start[k + 1]
<1>1. wire \in Seq(Bytes) /\ sent \in Seq(Message) BY DEF Typed
<1>2. r \in 1 .. k + 1 /\ g \in Nat /\ l \in Nat /\ k \in Nat BY Numbers
<1>3. first \in Nat /\ top \in Nat
  <2>1. k + 1 \in 1 .. k + 1 BY ONLY <1>2
  <2>2. QED BY <1>1, <1>2, <2>1, LaidSomewhere
<1> DEFINE place == first + g
<1>4. place \in Nat BY ONLY <1>2, <1>3
<1>5. /\ place + l <= top /\ Carries(wire, place, start, sent)
      /\ link = "up" => place + l = start[Sending] + Put
  BY DEF WireInStep
<1>6. r = k + 1 => g = 0 /\ first = top
  <2>1. g > 0 => r <= k BY DEF ReceiverInStep
  <2> HIDE DEF r, g, k
  <2>2. r = k + 1 => g = 0 BY ONLY <1>2, <2>1
  <2>3. QED BY <2>2
<1>7. r \in 1 .. k
  <2> HIDE DEF r, g, l, k, first, top
  <2>1. n \in 0 .. l /\ (n > 0 \/ g > 0) BY DEF l, g
  <2>2. first + g + l <= top BY <1>5
  <2>3. r = k + 1 => FALSE BY ONLY <1>2, <1>3, <1>6, <2>1, <2>2
  <2>4. QED BY ONLY <1>2, <2>3
<1>8. sent[r] \in Message /\ g + n <= Size(sent[r]) BY <1>1, <1>7, ElementOfSeq
<1> DEFINE taken == SubSeq(wire, 1, n)
<1>9. taken \in Seq(Bytes) /\ Len(taken) = n /\ \A t \in 1 .. n : taken[t] = wire[t]
  <2> HIDE DEF l, taken
  <2>1. n \in 0 .. l BY DEF l
  <2>2. n \in Nat /\ 0 + n <= l /\ 0 + 1 = 1 /\ 0 + n = n /\ \A t \in 1 .. n : 0 + t = t
    BY ONLY <1>2, <2>1
  <2>3. taken \in Seq(Bytes) /\ Len(taken) = n /\ \A t \in 1 .. n : taken[t] = wire[0 + t]
    BY <1>1, <2>2, Piece DEF l, taken
  <2>4. QED BY <2>2, <2>3
<1> HIDE DEF taken
<1>10. \A t \in 1 .. n : taken[t] = Byte(sent[r], g + t)
  <2> DEFINE size == Size(sent[r])
  <2>1. size \in Nat /\ g + n <= size /\ n \in 0 .. l BY <1>8, Constants
  <2> SUFFICES ASSUME NEW t \in 1 .. n PROVE wire[t] = Byte(sent[r], g + t)
    BY <1>9
  <2>2. t \in 1 .. l /\ g + t \in 1 .. size /\ place + t = first + (g + t)
    <3> HIDE DEF size, g, l, first
    <3>1. QED BY ONLY <1>2, <1>3, <2>1 DEF place
  <2>3. QED BY <1>5, <1>7, <2>2 DEF Carries
<1>11. /\ wire' \in Seq(Bytes) /\ Len(wire') = l - n
       /\ Carries(wire', place + n, start, sent)
  <2> HIDE DEF place
  <2>1. QED BY <1>1, <1>4, <1>5, FirstOnesGone DEF ReceiveSome
<1>12. ASSUME link' = link, start[Receiving'] + Got' = first + (g + n)
       PROVE  WireInStep(start)'
  <2>1. first + (g + n) = place + n /\ (place + n) + (l - n) = place + l
    <3>1. n \in 0 .. l OBVIOUS
    <3> HIDE DEF g, l, first
    <3>2. QED BY ONLY <1>2, <1>3, <3>1 DEF place
  <2>2. Sending' = Sending /\ Put' = Put BY DEF Sending, Put
  <2>3. start[Receiving'] + Got' = place + n BY <1>12, <2>1
  <2> HIDE DEF place
  <2>4. start[Receiving'] + Got' + Len(wire') = place + l BY <1>11, <2>1, <2>3
  <2>5. link' = "up" => start[Receiving'] + Got' + Len(wire') = start[Sending'] + Put'
    BY <1>5, <1>12, <2>2, <2>4
  <2>6. start[Receiving'] + Got' + Len(wire') <= start[Len(sent') + 1] BY <1>5, <2>4
  <2>7. Carries(wire', start[Receiving'] + Got', start, sent') BY <1>11, <2>3
  <2>8. QED BY <2>5, <2>6, <2>7 DEF WireInStep
<1>13. QED BY <1>7, <1>8, <1>9, <1>10, <1>11, <1>12 DEF taken

LEMMA ReceiveHeaderKeepsChannel ==
  ASSUME ChannelInv, ReceiveHeader
  PROVE  ChannelInv'
<1> USE DEF ReceiveHeader
<1>1. Typed /\ ReceiverInStep /\ SenderInStep BY DEF ChannelInv
<1>2. PICK start : Laid(start, sent) /\ WireInStep(start) BY DEF ChannelInv
<1> DEFINE h == receiver.header
           m == sent[Receiving]
           k == Len(h)
           Header2(n) == h \o SubSeq(wire, 1, n)
           got(n) == [receiver EXCEPT !.header = Header2(n)]
<1>3. PICK n \in Given(HeaderSize - k) :
        /\ ReceiveSome(n)
        /\ IF Len(Header2(n)) < HeaderSize THEN receiver' = got(n) /\ UNCHANGED link
           ELSE IF \E x \in Message : Header2(n) = Header(x)
           THEN /\ receiver' = Expects(got(n), CHOOSE x \in Message : Header2(n) = Header(x))
                /\ UNCHANGED link
           ELSE receiver' = ReceiverDisconnected(got(n)) /\ link' = "down"
  OBVIOUS
<1>4. /\ h \in Seq(Bytes) /\ k \in Nat /\ receiver.body = <<>> /\ k < HeaderSize
      /\ HeaderSize \in Nat /\ receiver.message = NoMessage
      /\ \A i \in 1 .. k : h[i] = Byte(m, i)
  BY <1>1, Constants DEF Typed, ReceiverInStep
<1>5. Got = k
  <2>1. Got = k + 0 BY <1>4 DEF Got
  <2>2. QED BY ONLY <1>4, <2>1
<1>6. n \in 0 .. Len(wire) /\ n \in Nat /\ n > 0 /\ k + n <= HeaderSize
  <2>1. /\ n \in 0 .. HeaderSize - k /\ n <= Len(wire) /\ (n > 0 \/ HeaderSize - k = 0)
        /\ Len(wire) \in Nat
    BY <1>1, <1>3, Numbers DEF Given
  <2> DEFINE l == Len(wire)
  <2> HIDE DEF k, l
  <2>2. n \in 0 .. HeaderSize - k /\ n <= l /\ (n > 0 \/ HeaderSize - k = 0) /\ l \in Nat
    BY <2>1 DEF l
  <2>3. n \in 0 .. l /\ n \in Nat /\ n > 0 /\ k + n <= HeaderSize BY ONLY <1>4, <2>2
  <2>4. QED BY <2>3 DEF l
<1> DEFINE taken == SubSeq(wire, 1, n)
           header == h \o taken
           got2 == [receiver EXCEPT !.header = header]
<1>7. IF Len(header) < HeaderSize THEN receiver' = got2 /\ UNCHANGED link
      ELSE IF \E x \in Message : header = Header(x)
      THEN /\ receiver' = Expects(got2, CHOOSE x \in Message : header = Header(x))
           /\ UNCHANGED link
      ELSE receiver' = ReceiverDisconnected(got2) /\ link' = "down"
  BY <1>3
\* The bytes are the message's: they are not another message's header.
<1>8. /\ Receiving \in 1 .. Len(sent) /\ m \in Message
      /\ taken \in Seq(Bytes) /\ Len(taken) = n /\ \A t \in 1 .. n : taken[t] = Byte(m, k + t)
      /\ wire' \in Seq(Bytes)
      /\ link' = link /\ start[Receiving'] + Got' = start[Receiving] + (k + n)
           => WireInStep(start)'
  <2>1. \A x \in Message : Got + n <= Size(x)
    <3>1. \A x \in Message : BodyLength[x] \in Nat /\ Size(x) = HeaderSize + BodyLength[x]
      BY Constants DEF Size
    <3>2. QED BY <1>4, <1>5, <1>6, <3>1
  <2>2. QED BY <1>1, <1>2, <1>3, <1>5, <1>6, <2>1, FewerOnTheWire
<1> HIDE DEF taken, got2
<1>9. /\ header \in Seq(Bytes) /\ Len(header) = k + n
      /\ \A i \in 1 .. k + n : header[i] = Byte(m, i)
  <2>1. From(m, 0, h)
    <3>1. \A i \in 1 .. k : 0 + i = i BY ONLY <1>4
    <3>2. QED BY <1>4, <3>1 DEF From
  <2>2. From(m, 0 + k, taken)
    <3>1. \A t \in 1 .. n : 0 + k + t = k + t BY ONLY <1>4, <1>6
    <3>2. QED BY <1>8, <3>1 DEF From
  <2>3. /\ header \in Seq(Bytes) /\ Len(header) = k + Len(taken)
        /\ From(m, 0, header)
    BY <1>4, <1>8, <2>1, <2>2, MoreOfIt
  <2>4. \A i \in 1 .. k + n : 0 + i = i BY ONLY <1>4, <1>6
  <2>5. QED BY <1>8, <2>3, <2>4 DEF From
<1> HIDE DEF header
<1>10. /\ got2 \in [connected : BOOLEAN, header : Seq(Bytes), message : Message \cup {NoMessage},
                    body : Seq(Bytes), incoming : Seq(Message)]
      /\ got2.header = header /\ got2.message = NoMessage /\ got2.body = <<>>
      /\ got2.incoming = receiver.incoming
  BY <1>1, <1>4, <1>9 DEF Typed, got2
<1>11. /\ Receiving = Len(handled) + Len(receiver.incoming) + 1
       /\ \A i \in 1 .. Len(receiver.incoming) : receiver.incoming[i] = sent[Len(handled) + i]
  BY <1>1 DEF ReceiverInStep, Receiving
<1>12. SenderInStep' \/ link' # link BY <1>1 DEF SenderInStep, Sending
<1>13. CASE k + n < HeaderSize
  <2>1. receiver' = got2 /\ UNCHANGED link BY <1>7, <1>9, <1>13
  <2>2. Receiving' = Receiving /\ Got' = k + n
    <3>1. Receiving' = Receiving BY <1>10, <2>1 DEF Receiving
    <3>2. Got' = k + n + 0 BY <1>9, <1>10, <2>1 DEF Got
    <3>3. QED BY <1>4, <1>6, <3>1, <3>2
  <2>3. WireInStep(start)' BY <1>8, <2>1, <2>2
  <2>4. Typed' BY <1>1, <1>8, <1>10, <2>1 DEF Typed
  <2>5. ReceiverInStep'
    <3>1. receiver'.message = NoMessage /\ receiver'.body = <<>> /\ receiver'.header = header
      BY <1>10, <2>1
    <3>2. Len(receiver'.header) < HeaderSize BY <1>9, <1>13, <3>1
    <3>3. Receiving' <= Len(sent') BY <1>1, <1>8, <2>2, Numbers
    <3>4. Receiving' <= Len(sent') + 1 BY <1>1, <1>8, <2>2, Numbers
    <3>5. \A i \in 1 .. Len(receiver'.header) :
            receiver'.header[i] = Byte(sent'[Receiving'], i)
      BY <1>9, <2>2, <3>1
    <3>6. \A i \in 1 .. Len(receiver'.body) :
            receiver'.body[i] = Byte(sent'[Receiving'], HeaderSize + i)
      BY <3>1
    <3>7. \A i \in 1 .. Len(receiver'.incoming) :
            receiver'.incoming[i] = sent'[Len(handled') + i]
      BY <1>10, <1>11, <2>1
    <3>8. QED BY <3>1, <3>2, <3>3, <3>4, <3>5, <3>6, <3>7 DEF ReceiverInStep
  <2>6. QED BY <1>2, <1>12, <2>1, <2>3, <2>4, <2>5 DEF ChannelInv
<1>14. CASE k + n = HeaderSize
  <2>1. header = Header(m) BY <1>8, <1>9, <1>14, AllOfIt
  <2>2. (CHOOSE x \in Message : header = Header(x)) = m BY <1>8, <2>1, HeadersDiffer
  <2>3. receiver' = Expects(got2, m) /\ UNCHANGED link
    <3>1. Len(header) = HeaderSize /\ ~(HeaderSize < HeaderSize) BY <1>4, <1>9, <1>14
    <3>2. QED BY ONLY <1>7, <1>8, <2>1, <2>2, <3>1
  <2>4. /\ receiver' \in [connected : BOOLEAN, header : Seq(Bytes),
                          message : Message \cup {NoMessage},
                          body : Seq(Bytes), incoming : Seq(Message)]
        /\ receiver'.header = header /\ receiver'.message = m /\ receiver'.body = <<>>
        /\ receiver'.incoming = receiver.incoming
    <3>1. <<>> \in Seq(Bytes) OBVIOUS
    <3>2. QED BY <1>8, <1>10, <2>3, <3>1 DEF Expects
  <2>5. Receiving' = Receiving /\ Got' = k + n
    <3>1. Receiving' = Receiving BY <2>4 DEF Receiving
    <3>2. Got' = k + n + 0 BY <1>9, <2>4 DEF Got
    <3>3. QED BY <1>4, <1>6, <3>1, <3>2
  <2>6. WireInStep(start)' BY <1>8, <2>3, <2>5
  <2>7. Typed' BY <1>1, <1>8, <2>3, <2>4 DEF Typed
  <2>8. m # NoMessage /\ BodyLength[m] \in Nat BY <1>8, NoMessageAssumption, Constants
  <2>9. ReceiverInStep'
    BY <1>1, <1>8, <1>9, <1>11, <1>14, <2>4, <2>5, <2>8 DEF ReceiverInStep
  <2>10. QED BY <1>2, <1>12, <2>3, <2>6, <2>7, <2>9 DEF ChannelInv
<1>15. QED
  <2> HIDE DEF k
  <2>1. k + n < HeaderSize \/ k + n = HeaderSize BY ONLY <1>4, <1>6
  <2>2. QED BY <1>13, <1>14, <2>1

LEMMA ReceiveMessageKeepsChannel ==
  ASSUME ChannelInv, ReceiveMessage
  PROVE  ChannelInv'
<1> USE DEF ReceiveMessage
<1>1. Typed /\ ReceiverInStep /\ SenderInStep BY DEF ChannelInv
<1>2. PICK start : Laid(start, sent) /\ WireInStep(start) BY DEF ChannelInv
<1> DEFINE h == receiver.header
           old == receiver.body
           in == receiver.incoming
           m == sent[Receiving]
           k == Len(old)
           length == BodyLength[m]
<1>3. /\ old \in Seq(Bytes) /\ k \in Nat /\ receiver.message = m /\ Len(h) = HeaderSize
      /\ HeaderSize \in Nat /\ HeaderSize > 0 /\ k <= length /\ m # NoMessage
      /\ m \in Message /\ length \in Nat /\ Size(m) = HeaderSize + length
      /\ \A i \in 1 .. k : old[i] = Byte(m, HeaderSize + i)
  <2>1. receiver.message # NoMessage /\ receiver.message \in Message BY <1>1 DEF Typed
  <2>2. /\ receiver.message = m /\ Len(h) = HeaderSize /\ k <= BodyLength[receiver.message]
        /\ \A i \in 1 .. k : old[i] = Byte(m, HeaderSize + i)
    BY <1>1, <2>1 DEF ReceiverInStep
  <2>3. length \in Nat /\ Size(m) = HeaderSize + length
    BY <2>1, <2>2, Constants DEF Size
  <2>4. old \in Seq(Bytes) /\ k \in Nat BY <1>1 DEF Typed
  <2>5. QED BY <2>1, <2>2, <2>3, <2>4, Constants
<1>4. Got = HeaderSize + k BY <1>3 DEF Got
<1> DEFINE body(n) == old \o SubSeq(wire, 1, n)
<1>5. PICK n \in Given(length - k) :
        /\ ReceiveSome(n)
        /\ receiver' = IF Len(body(n)) = length THEN Received(receiver, body(n))
                       ELSE [receiver EXCEPT !.body = body(n)]
  BY <1>3
<1>6. n \in 0 .. Len(wire) /\ n \in Nat /\ k + n <= length
  <2> DEFINE l == Len(wire)
  <2>1. n \in 0 .. length - k /\ n <= l /\ l \in Nat
    BY <1>1, <1>5, Numbers DEF Given
  <2> HIDE DEF k, l, length
  <2>2. n \in 0 .. l /\ n \in Nat /\ k + n <= length BY ONLY <1>3, <2>1
  <2>3. QED BY <2>2 DEF l
<1> DEFINE taken == SubSeq(wire, 1, n)
           body2 == old \o taken
<1>7. receiver' = IF Len(body2) = length THEN Received(receiver, body2)
                  ELSE [receiver EXCEPT !.body = body2]
  BY <1>5
<1>8. /\ Receiving \in 1 .. Len(sent)
      /\ taken \in Seq(Bytes) /\ Len(taken) = n
      /\ \A t \in 1 .. n : taken[t] = Byte(m, HeaderSize + k + t)
      /\ wire' \in Seq(Bytes)
      /\ link' = link /\ start[Receiving'] + Got' = start[Receiving] + (HeaderSize + k + n)
           => WireInStep(start)'
  <2>1. Got > 0 /\ Got + n <= Size(m)
    <3> HIDE DEF k, m, length
    <3>1. QED BY ONLY <1>3, <1>4, <1>6
  <2>2. \A x \in Message : x = m => Got + n <= Size(x) BY <2>1
  <2>3. QED BY <1>1, <1>2, <1>4, <1>5, <1>6, <2>1, <2>2, FewerOnTheWire
<1> HIDE DEF taken
<1>9. /\ body2 \in Seq(Bytes) /\ Len(body2) = k + n
      /\ \A i \in 1 .. k + n : body2[i] = Byte(m, HeaderSize + i)
  <2>1. From(m, HeaderSize, old) BY <1>3 DEF From
  <2>2. From(m, HeaderSize + k, taken) BY <1>8 DEF From
  <2>3. /\ body2 \in Seq(Bytes) /\ Len(body2) = k + Len(taken)
        /\ From(m, HeaderSize, body2)
    <3>1. HeaderSize \in Nat /\ old \in Seq(Bytes) /\ taken \in Seq(Bytes) BY <1>3, <1>8
    <3> HIDE DEF m, old
    <3>2. QED BY ONLY <2>1, <2>2, <3>1, MoreOfIt
  <2>4. QED BY <1>8, <2>3 DEF From
<1> HIDE DEF body2
<1>10. /\ Receiving = Len(handled) + Len(in) + 1
       /\ \A i \in 1 .. Len(in) : in[i] = sent[Len(handled) + i]
       /\ in \in Seq(Message) /\ Len(in) \in Nat /\ Len(handled) \in Nat /\ Len(sent) \in Nat
  BY <1>1, Numbers DEF ReceiverInStep, Receiving, Typed
<1>11. SenderInStep' BY <1>1 DEF SenderInStep, Sending
<1>12. CASE k + n # length
  <2>1. receiver' = [receiver EXCEPT !.body = body2] BY <1>7, <1>9, <1>12
  <2>2. /\ receiver' \in [connected : BOOLEAN, header : Seq(Bytes),
                          message : Message \cup {NoMessage},
                          body : Seq(Bytes), incoming : Seq(Message)]
        /\ receiver'.header = h /\ receiver'.message = m /\ receiver'.body = body2
        /\ receiver'.incoming = in
    BY <1>1, <1>3, <1>9, <2>1 DEF Typed
  <2>3. Receiving' = Receiving /\ Got' = HeaderSize + k + n
    <3>1. Receiving' = Receiving BY <2>2 DEF Receiving
    <3>2. Got' = HeaderSize + (k + n) BY <1>3, <1>9, <2>2 DEF Got
    <3> HIDE DEF k
    <3>3. QED BY <1>3, <1>6, <3>1, <3>2
  <2>4. WireInStep(start)' BY <1>8, <2>3
  <2>5. Typed' BY <1>1, <1>8, <2>2 DEF Typed
  <2>6. ReceiverInStep'
    <3>1. Receiving' <= Len(sent') /\ Receiving' <= Len(sent') + 1 BY <1>8, <1>10, <2>3
    <3>2. /\ receiver'.message = sent'[Receiving'] /\ receiver'.message # NoMessage
          /\ Len(receiver'.header) = HeaderSize
      BY <1>3, <2>2, <2>3
    <3>3. Len(receiver'.body) <= BodyLength[receiver'.message] BY <1>6, <1>9, <2>2
    <3>4. \A i \in 1 .. Len(receiver'.header) :
            receiver'.header[i] = Byte(sent'[Receiving'], i)
      BY <1>1, <2>2, <2>3 DEF ReceiverInStep
    <3>5. \A i \in 1 .. Len(receiver'.body) :
            receiver'.body[i] = Byte(sent'[Receiving'], HeaderSize + i)
      BY <1>9, <2>2, <2>3
    <3>6. \A i \in 1 .. Len(receiver'.incoming) :
            receiver'.incoming[i] = sent'[Len(handled') + i]
      BY <1>10, <2>2
    <3>7. QED BY <3>1, <3>2, <3>3, <3>4, <3>5, <3>6 DEF ReceiverInStep
  <2>7. QED BY <1>2, <1>11, <2>4, <2>5, <2>6 DEF ChannelInv
<1>13. CASE k + n = length
  <2>1. body2 = Body(m) BY <1>3, <1>9, <1>13, AllOfIt
  <2>2. Whole(receiver, body2) = m BY <1>3, <2>1 DEF Whole
  <2>3. /\ Append(in, m) \in Seq(Message) /\ Len(Append(in, m)) = Len(in) + 1
        /\ Append(in, m)[Len(in) + 1] = m
        /\ \A i \in 1 .. Len(in) : Append(in, m)[i] = in[i]
    BY <1>3, <1>10
  <2>4. receiver' = Received(receiver, body2) BY <1>7, <1>9, <1>13
  <2>5. /\ receiver' \in [connected : BOOLEAN, header : Seq(Bytes),
                          message : Message \cup {NoMessage},
                          body : Seq(Bytes), incoming : Seq(Message)]
        /\ receiver'.header = <<>> /\ receiver'.message = NoMessage /\ receiver'.body = <<>>
        /\ receiver'.incoming = Append(in, m)
    <3>1. <<>> \in Seq(Bytes) OBVIOUS
    <3>2. QED BY <1>1, <2>2, <2>3, <2>4, <3>1 DEF Received, Typed
  <2>6. Receiving' = Receiving + 1 /\ Got' = 0
    <3> DEFINE l == Len(in)
               d == Len(handled)
    <3>1. Receiving' = d + (l + 1) + 1 BY <2>3, <2>5 DEF Receiving
    <3>2. d + (l + 1) + 1 = (d + l + 1) + 1
      <4> HIDE DEF l, d
      <4>1. l \in Nat /\ d \in Nat BY <1>10 DEF l, d
      <4>2. QED BY ONLY <4>1
    <3>3. Got' = 0
      <4>1. Got' = Len(<<>>) + Len(<<>>) BY <2>5 DEF Got
      <4>2. QED BY ONLY <4>1
    <3>4. QED BY <1>10, <3>1, <3>2, <3>3
  <2>7. start[Receiving'] + Got' = start[Receiving] + (HeaderSize + k + n)
    <3> DEFINE first == start[Receiving]
    <3>1. first \in Nat /\ start[Receiving + 1] = first + Size(m)
      BY <1>1, <1>2, <1>8, LaidSomewhere DEF Typed
    <3> HIDE DEF first, k, m, length
    <3>2. (first + Size(m)) + 0 = first + (HeaderSize + k + n)
      BY ONLY <1>3, <1>6, <1>13, <3>1
    <3>3. QED BY <2>6, <3>1, <3>2 DEF first
  <2>8. WireInStep(start)' BY <1>8, <2>7
  <2>9. Typed' BY <1>1, <1>8, <2>5 DEF Typed
  <2>10. ReceiverInStep'
    <3>1. Receiving' <= Len(sent') + 1 BY <1>8, <1>10, <2>6
    <3>2. Len(receiver'.header) < HeaderSize BY <1>3, <2>5
    <3>3. ASSUME NEW i \in 1 .. Len(in) + 1
          PROVE  receiver'.incoming[i] = sent[Len(handled) + i]
      <4>1. CASE i = Len(in) + 1
        <5>1. Len(handled) + i = Receiving BY <1>10, <4>1
        <5>2. QED BY <2>3, <2>5, <4>1, <5>1
      <4>2. CASE i # Len(in) + 1
        <5>1. i \in 1 .. Len(in) BY <1>10, <4>2
        <5>2. QED BY <1>10, <2>3, <2>5, <5>1
      <4>3. QED BY <4>1, <4>2
    <3>4. \A i \in 1 .. Len(receiver'.incoming) :
            receiver'.incoming[i] = sent'[Len(handled') + i]
      BY <2>3, <2>5, <3>3
    <3>5. \A i \in 1 .. Len(receiver'.header) :
            receiver'.header[i] = Byte(sent'[Receiving'], i)
      <4>1. Len(receiver'.header) = Len(<<>>) BY <2>5
      <4>2. Len(receiver'.header) = 0 BY ONLY <4>1
      <4>3. QED BY ONLY <4>2
    <3>6. \A i \in 1 .. Len(receiver'.body) :
            receiver'.body[i] = Byte(sent'[Receiving'], HeaderSize + i)
      <4>1. Len(receiver'.body) = Len(<<>>) BY <2>5
      <4>2. Len(receiver'.body) = 0 BY ONLY <4>1
      <4>3. QED BY ONLY <4>2
    <3>7. ~(Got' > 0) BY <2>6
    <3>8. QED BY <2>5, <3>1, <3>2, <3>4, <3>5, <3>6, <3>7 DEF ReceiverInStep
  <2>11. QED BY <1>2, <1>11, <2>8, <2>9, <2>10 DEF ChannelInv
<1>14. QED BY <1>12, <1>13

----------------------------------------------------------------------------
(* The channel implements the queue.                                        *)

LEMMA UnchangedKeepsChannel ==
  ASSUME ChannelInv, UNCHANGED channelVars
  PROVE  ChannelInv'
<1> USE DEF channelVars
<1>1. Typed' /\ SenderInStep' /\ ReceiverInStep'
  BY DEF ChannelInv, Typed, SenderInStep, ReceiverInStep, Sending, Receiving, Got
<1>2. PICK start : Laid(start, sent) /\ WireInStep(start) BY DEF ChannelInv
<1>3. WireInStep(start)' BY <1>2 DEF WireInStep, Sending, Put, Receiving, Got
<1>4. QED BY <1>1, <1>2, <1>3 DEF ChannelInv

LEMMA StepKeepsChannel ==
  ASSUME ChannelInv, [ChannelNext]_channelVars
  PROVE  ChannelInv'
<1>1. CASE Connect(ReceiverDisconnected(receiver))
  BY <1>1, ConnectKeepsChannel DEF ChannelInv
<1>2. CASE Break BY <1>2, BreakKeepsChannel
<1>3. CASE \E m \in Message : Enqueue(m) BY <1>3, EnqueueKeepsChannel
<1>4. CASE SendHeader BY <1>4, SendHeaderKeepsChannel
<1>5. CASE SendMessage BY <1>5, SendMessageKeepsChannel
<1>6. CASE SendFails BY <1>6, SendFailsKeepsChannel
<1>7. CASE ReceiveHeader BY <1>7, ReceiveHeaderKeepsChannel
<1>8. CASE ReceiveMessage BY <1>8, ReceiveMessageKeepsChannel
<1>9. CASE ReceiveFails BY <1>9, ReceiveFailsKeepsChannel
<1>10. CASE Dispatch BY <1>10, DispatchKeepsChannel
<1>11. CASE UNCHANGED channelVars BY <1>11, UnchangedKeepsChannel
<1>12. QED
  BY <1>1, <1>2, <1>3, <1>4, <1>5, <1>6, <1>7, <1>8, <1>9, <1>10, <1>11
     DEF ChannelNext, SenderPumps, ReceiverPumps

\* Every step gives, takes, starts or stops the queue, or leaves it as it is.
LEMMA StepKeepsOrder ==
  ASSUME ChannelInv, [ChannelNext]_channelVars
  PROVE  [InOrder!Next]_(InOrder!fifoVars)
<1> DEFINE Kept == UNCHANGED <<sent, handled, link>>
<1>1. CASE Connect(ReceiverDisconnected(receiver))
  <2>1. sent' = <<>> /\ handled' = <<>> /\ (link' = "down") \in BOOLEAN
    BY <1>1 DEF Connect
  <2>2. InOrder!Start BY <2>1 DEF InOrder!Start
  <2>3. QED BY <2>2 DEF InOrder!Next
<1>2. ASSUME link' = "down", UNCHANGED <<sent, handled>>
      PROVE  [InOrder!Next]_(InOrder!fifoVars)
  <2>1. InOrder!Stop BY <1>2 DEF InOrder!Stop
  <2>2. QED BY <2>1 DEF InOrder!Next
<1>3. ASSUME Kept PROVE [InOrder!Next]_(InOrder!fifoVars)
  BY <1>3 DEF InOrder!fifoVars
<1>4. CASE Break BY <1>2, <1>4 DEF Break
<1>5. CASE \E m \in Message : Enqueue(m)
  <2>1. PICK m \in Message : Enqueue(m) BY <1>5
  <2>2. InOrder!Give(m) BY <2>1 DEF InOrder!Give, Enqueue
  <2>3. QED BY <2>2 DEF InOrder!Next
<1>6. CASE SenderPumps
  BY <1>3, <1>6 DEF SenderPumps, SendHeader, SendMessage, SendFails
<1>7. CASE ReceiveHeader
  <2>1. UNCHANGED <<sent, handled>> /\ (link' = link \/ link' = "down")
    BY <1>7 DEF ReceiveHeader
  <2>2. QED BY <1>2, <1>3, <2>1
<1>8. CASE ReceiveMessage \/ ReceiveFails
  BY <1>3, <1>8 DEF ReceiveMessage, ReceiveFails
<1>9. CASE Dispatch
  <2>1. Len(handled) < Len(sent) /\ handled' = Append(handled, sent[Len(handled) + 1])
    BY <1>9, DispatchKeepsChannel
  <2>2. UNCHANGED <<sent, link>> BY <1>9 DEF Dispatch
  <2>3. InOrder!Take BY <2>1, <2>2 DEF InOrder!Take
  <2>4. QED BY <2>3 DEF InOrder!Next
<1>10. CASE UNCHANGED channelVars BY <1>3, <1>10 DEF channelVars
<1>11. QED
  BY <1>1, <1>4, <1>5, <1>6, <1>7, <1>8, <1>9, <1>10 DEF ChannelNext, ReceiverPumps

\* However the socket cuts the bytes (CommunicationsChannel::pump), whenever
\* the connection ends and whether or not the channel is connected anew in the
\* middle of a message: what is handled are the messages of this connection,
\* whole, each once and in order. That all of them are stays with the runs.
THEOREM MessagesArriveInOrder == ChannelSpec => InOrder!Order
<1>1. ChannelInit => ChannelInv BY ChannelStarts
<1>2. ChannelInv /\ [ChannelNext]_channelVars => ChannelInv' BY StepKeepsChannel
<1>3. ChannelInit => InOrder!Init BY DEF ChannelInit, InOrder!Init
<1>4. ChannelInv /\ [ChannelNext]_channelVars => [InOrder!Next]_(InOrder!fifoVars)
  BY StepKeepsOrder
<1>5. QED BY <1>1, <1>2, <1>3, <1>4, PTL DEF ChannelSpec, InOrder!Order
=============================================================================
