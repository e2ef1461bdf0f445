--------------------------- MODULE MessageChannel ---------------------------
(* Messages over a TCP connection (TCPMess/CommunicationsChannel.cpp). Each  *)
(* end's pump sends what it can of the first outgoing message, a header and  *)
(* then a body, and receives what it can of the next, all on a non-blocking  *)
(* socket that takes or gives any number of bytes. The two directions are    *)
(* alike; modelled is the one from the server's channel to the client's,     *)
(* whose owner may connect it anew after the connection has ended, as        *)
(* MetaserverClient does.                                                    *)
(*                                                                           *)
(* A byte is named by the message it comes from and its place in it, and a   *)
(* header that is not one message's fails as a wrong magic number would.     *)
(* Inflating, the timeouts of receiveMessage and of flushing are left out.   *)
EXTENDS Integers, Sequences

CONSTANTS
  Message,
  BodyLength,       \* by message; may be 0
  HeaderSize,       \* kHeaderPackedSize
  SocketBuffer,     \* model bound: bytes under way
  MaxMessages,      \* model bound: messages enqueued on a connection
  MaxConnections    \* model bound

ASSUME ChannelAssumption ==
  /\ BodyLength \in [Message -> Nat]
  /\ HeaderSize \in Nat \ {0} /\ SocketBuffer \in Nat \ {0}
  /\ MaxMessages \in Nat /\ MaxConnections \in Nat

VARIABLES
  sender,           \* the server's channel: its sending side
  receiver,         \* the client's channel: its receiving side
  link,             \* the connection: "up" or "down"
  wire,             \* the bytes under way
  sent, handled,    \* what was enqueued and handled on this connection
  connections       \* what the bound counts

channelVars == <<sender, receiver, link, wire, sent, handled, connections>>

Byte(m, i) == <<m, i>>
Header(m) == [i \in 1 .. HeaderSize |-> Byte(m, i)]
Body(m) == [i \in 1 .. BodyLength[m] |-> Byte(m, HeaderSize + i)]

NoMessage == "none"
Garbled == "garbled"

ASSUME NoMessageAssumption == NoMessage \notin Message

\* A channel without a socket.
Sender == [connected |-> FALSE, outgoing |-> <<>>, headerPosition |-> 0, messagePosition |-> 0]
Receiver == [connected |-> FALSE, header |-> <<>>, message |-> NoMessage, body |-> <<>>,
             incoming |-> <<>>]

ChannelInit ==
  /\ sender = Sender /\ receiver = Receiver
  /\ link = "down" /\ wire = <<>>
  /\ sent = <<>> /\ handled = <<>>
  /\ connections = 0

----------------------------------------------------------------------------
(* Connecting and disconnecting.                                            *)

\* disconnect: what is outgoing is discarded, what is incoming is kept.
\* (Mutant: the positions of what is outgoing stay where they are.)
SenderDisconnectedMidway(c) == [c EXCEPT !.connected = FALSE, !.outgoing = <<>>]
SenderDisconnected(c) == [c EXCEPT !.connected = FALSE, !.outgoing = <<>>,
                                   !.headerPosition = 0, !.messagePosition = 0]
ReceiverDisconnected(c) == [c EXCEPT !.connected = FALSE]

\* connect: what is incoming is discarded.
Connected(c) == [Receiver EXCEPT !.connected = TRUE]

\* c is connected, to a server that has accepted the connection and may have
\* closed it since. What was outgoing was discarded by disconnect: a channel
\* that is connected anew is one that sends, too.
Connect(c) ==
  /\ connections < MaxConnections /\ connections' = connections + 1
  /\ receiver' = Connected(c)
  /\ sender' = [SenderDisconnected(sender) EXCEPT !.connected = TRUE]
  /\ link' \in {"up", "down"} /\ wire' = <<>>
  /\ sent' = <<>> /\ handled' = <<>>

\* The owner disconnects the channel or its program ends, at either end, or
\* the network fails. What is under way may still arrive.
Break ==
  /\ link = "up" /\ link' = "down"
  /\ \E n \in 0 .. Len(wire) : wire' = SubSeq(wire, 1, n)
  /\ \/ sender' = SenderDisconnected(sender) /\ UNCHANGED receiver
     \/ receiver' = ReceiverDisconnected(receiver) /\ UNCHANGED sender
     \/ UNCHANGED <<sender, receiver>>
  /\ UNCHANGED <<sent, handled, connections>>

\* send_some and receive_some of a socket that reports an error or the end of
\* the connection. The client's channel may have something to send too, and as
\* pump sends before it receives may fail with bytes left to receive.
SendFails ==
  /\ link = "down" /\ sender.connected /\ sender.outgoing # <<>>
  /\ sender' = SenderDisconnected(sender)
  /\ UNCHANGED <<receiver, link, wire, sent, handled, connections>>
ReceiveFails ==
  /\ link = "down" /\ receiver.connected
  /\ receiver' = ReceiverDisconnected(receiver)
  /\ UNCHANGED <<sender, link, wire, sent, handled, connections>>

----------------------------------------------------------------------------
(* The sending side.                                                        *)

Enqueue(m) ==
  /\ Len(sent) < MaxMessages
  /\ sender.connected
  /\ sender' = [sender EXCEPT !.outgoing = Append(@, m)]
  /\ sent' = Append(sent, m)
  /\ UNCHANGED <<receiver, link, wire, handled, connections>>

\* What a socket takes of the bytes that are left.
Taken(bytes, position) ==
  LET left == Len(bytes) - position
      room == SocketBuffer - Len(wire)
  IN {n \in 0 .. left : n <= room /\ (n > 0 \/ left = 0)}

SendSome(bytes, position, n) == wire' = wire \o SubSeq(bytes, position + 1, position + n)

SendHeader ==
  /\ link = "up" /\ sender.connected /\ sender.outgoing # <<>>
  /\ sender.headerPosition < HeaderSize
  /\ LET header == Header(Head(sender.outgoing))
     IN \E n \in Taken(header, sender.headerPosition) :
          /\ SendSome(header, sender.headerPosition, n)
          /\ sender' = [sender EXCEPT
               !.headerPosition = @ + n,
               !.messagePosition = IF sender.headerPosition + n = HeaderSize THEN 0 ELSE @]
  /\ UNCHANGED <<receiver, link, sent, handled, connections>>

\* The message is sent completely: the next header is up.
NextOutgoing(c) == [c EXCEPT !.outgoing = Tail(@), !.headerPosition = 0]

SendMessage ==
  /\ link = "up" /\ sender.connected /\ sender.outgoing # <<>>
  /\ sender.headerPosition = HeaderSize
  /\ LET body == Body(Head(sender.outgoing))
     IN \E n \in Taken(body, sender.messagePosition) :
          /\ SendSome(body, sender.messagePosition, n)
          /\ LET moved == [sender EXCEPT !.messagePosition = @ + n]
             IN sender' = IF moved.messagePosition = Len(body) THEN NextOutgoing(moved)
                          ELSE moved
  /\ UNCHANGED <<receiver, link, sent, handled, connections>>

----------------------------------------------------------------------------
(* The receiving side.                                                      *)

Given(left) == {n \in 0 .. left : n <= Len(wire) /\ (n > 0 \/ left = 0)}
ReceiveSome(n) == wire' = SubSeq(wire, n + 1, Len(wire))

Expects(c, m) == [c EXCEPT !.message = m, !.body = <<>>]

ReceiveHeader ==
  /\ receiver.connected /\ receiver.message = NoMessage
  /\ \E n \in Given(HeaderSize - Len(receiver.header)) :
       LET header == receiver.header \o SubSeq(wire, 1, n)
           got    == [receiver EXCEPT !.header = header]
       IN /\ ReceiveSome(n)
          /\ IF Len(header) < HeaderSize THEN receiver' = got /\ UNCHANGED link
             ELSE IF \E m \in Message : header = Header(m)
             THEN /\ receiver' = Expects(got, CHOOSE m \in Message : header = Header(m))
                  /\ UNCHANGED link
             ELSE receiver' = ReceiverDisconnected(got) /\ link' = "down"
  /\ UNCHANGED <<sender, sent, handled, connections>>

Whole(c, body) == IF body = Body(c.message) THEN c.message ELSE Garbled
Received(c, body) == [c EXCEPT !.incoming = Append(@, Whole(c, body)),
                               !.message = NoMessage, !.header = <<>>, !.body = <<>>]

ReceiveMessage ==
  /\ receiver.connected /\ receiver.message # NoMessage
  /\ LET length == BodyLength[receiver.message]
     IN \E n \in Given(length - Len(receiver.body)) :
          LET body == receiver.body \o SubSeq(wire, 1, n)
          IN /\ ReceiveSome(n)
             /\ receiver' = IF Len(body) = length THEN Received(receiver, body)
                            ELSE [receiver EXCEPT !.body = body]
  /\ UNCHANGED <<sender, link, sent, handled, connections>>

\* dispatchOneIncomingMessage, or receiveMessage and the handling of what it
\* returns: possible after the connection has ended.
Dispatch ==
  /\ receiver.incoming # <<>>
  /\ handled' = Append(handled, Head(receiver.incoming))
  /\ receiver' = [receiver EXCEPT !.incoming = Tail(@)]
  /\ UNCHANGED <<sender, link, wire, sent, connections>>

----------------------------------------------------------------------------
SenderPumps == SendHeader \/ SendMessage \/ SendFails
ReceiverPumps == ReceiveHeader \/ ReceiveMessage \/ ReceiveFails

ChannelNext ==
  \/ Connect(ReceiverDisconnected(receiver))
  \/ Break \/ (\E m \in Message : Enqueue(m)) \/ SenderPumps \/ ReceiverPumps \/ Dispatch

ChannelFairness ==
  WF_channelVars(SenderPumps) /\ WF_channelVars(ReceiverPumps) /\ WF_channelVars(Dispatch)

ChannelSpec == ChannelInit /\ [][ChannelNext]_channelVars /\ ChannelFairness

----------------------------------------------------------------------------
(* Properties.                                                              *)

\* However the socket cuts the bytes, whenever the connection ends and when the
\* channel is connected anew in the middle of a message: what is handled are
\* the messages of this connection, whole and in order, and while it lasts all
\* of them are.
InOrder == INSTANCE Fifo WITH
  Value <- Message, given <- sent, taken <- handled, stopped <- link = "down"
ImplementsFifo == InOrder!Spec
=============================================================================
