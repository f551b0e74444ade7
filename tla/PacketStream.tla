---------------------------- MODULE PacketStream ----------------------------
(***************************************************************************)
(* From bytes to handlers: the MQTT framing of one stream, over WebSocket  *)
(* frames that respect no packet boundary (mqtt_codec.py take_packet and    *)
(* split_packets; mqtt.py connect, _read_packet, _listen_loop,             *)
(* _drain_buffer).                                                         *)
(*                                                                         *)
(* Bytes are scaled down: a varint digit counts to Base instead of 128, and *)
(* a varint has MaxDigits digits instead of 4.  A packet is its type byte,  *)
(* the varint of its length, its body.                                     *)
(***************************************************************************)
EXTENDS Integers, FiniteSetsExt, SequencesExt

CONSTANTS
  Base,        \* 128 in MQTT: a byte from Base on says "another digit follows"
  MaxDigits,   \* 4 in MQTT
  EventBodies, \* the bodies of the PUBLISH packets a broker may send
  MaxPackets   \* bound: packets the broker sends in one session

Byte == 0 .. 2 * Base - 1

\* What is left of a length after each `length >>= 7`, at most MaxDigits of them.
Shifted(n) ==
  LET after[i \in 0..MaxDigits] == IF i = 0 THEN n ELSE after[i - 1] \div Base
  IN  after

\* A length that MaxDigits digits can carry.
Fits(n) == \E d \in 1..MaxDigits : Shifted(n)[d] = 0

ASSUME ScaleAssumption ==
  /\ Base \in Nat /\ Base > 2   \* a CONNACK's length, 2, is one digit
  /\ MaxDigits \in Nat \ {0}
  /\ MaxPackets \in Nat
  /\ EventBodies \subseteq Seq(Byte)
  /\ \A b \in EventBodies : Fits(Len(b))

VARIABLES
  phase,    \* "down", or where connect() or the listen loop is
  written,  \* the packets the broker has sent in this session
  wire,     \* their bytes that receive() has not returned yet
  rx,       \* _rx_buffer
  batch,    \* packets split off by _drain_buffer, waiting for their handlers
  taken     \* packets the client is done with, the handshake's among them

framing == <<phase, written, wire, rx, batch, taken>>

\* The type bytes that matter, scaled down with the rest.
CONNACK == 1
SUBACK  == 2
PUBLISH == 3

----------------------------------------------------------------------------
(* mqtt_codec.py.                                                          *)

\* Mutant: the digit keeps the bits the next ones carry.
Unmasked(n) == Base + n

\* A digit with its continuation bit set.
Continued(n) == Base + (n % Base)

\* The turns of _encode_remaining_length's loop, which ends when nothing is left.
Digits(n) == Min({d \in 1..MaxDigits : Shifted(n)[d] = 0})

\* _encode_remaining_length, least significant digit first.
EncodeLength(n) ==
  [i \in 1..Digits(n) |->
     LET left == Shifted(n)[i - 1] IN IF left < Base THEN left ELSE Continued(left)]

Packet(type, body) == <<type>> \o EncodeLength(Len(body)) \o body

\* The positions a varint that starts at the second byte can end at.
VarintEnds(buffer) ==
  {i \in 2..Len(buffer) : buffer[i] < Base \/ i = MaxDigits + 1}

\* What a varint that ends at position `last` says, from its last digit on.
DecodeLength(buffer, last) ==
  LET value[i \in 0..(last - 1)] ==
        IF i = 0 THEN 0
        ELSE (buffer[last - i + 1] % Base) + (Base * value[i - 1])
  IN  value[last - 1]

\* Mutant: the varint is taken for one byte, whatever its length.
ShortHeader(buffer) == 2

LastOfHeader(buffer) == Min(VarintEnds(buffer))

\* take_packet: the last position of the packet at the front of the buffer, 0
\* while its header or its body is incomplete.
PacketEnd(buffer) ==
  IF VarintEnds(buffer) = {} THEN 0
  ELSE LET header == LastOfHeader(buffer)
           end    == header + DecodeLength(buffer, header)
       IN  IF end > Len(buffer) THEN 0 ELSE end

Complete(buffer) == PacketEnd(buffer) # 0
First(buffer)    == SubSeq(buffer, 1, PacketEnd(buffer))
Rest(buffer)     == SubSeq(buffer, PacketEnd(buffer) + 1, Len(buffer))

\* One turn of the loop of split_packets; one that finds no complete packet is
\* the last.
TakeOne ==
  [state \in [packets : Seq(Seq(Byte)), rest : Seq(Byte)] |->
     IF Complete(state.rest)
     THEN [packets |-> Append(state.packets, First(state.rest)),
           rest    |-> Rest(state.rest)]
     ELSE state]

\* split_packets.  A packet has a byte at least: no more turns than bytes.
SplitPackets(buffer) ==
  LET after[i \in 0..Len(buffer)] ==
        IF i = 0 THEN [packets |-> <<>>, rest |-> buffer] ELSE TakeOne[after[i - 1]]
  IN  after[Len(buffer)]

----------------------------------------------------------------------------
IsEvent(packet) == packet[1] = PUBLISH

\* A CONNACK that accepts, one that refuses, the SUBACK, and the events.
Packets ==
  {Packet(CONNACK, <<0, rc>>) : rc \in {0, 1}}
    \union {Packet(SUBACK, <<0>>)}
    \union {Packet(PUBLISH, b) : b \in EventBodies}

FramingTypeOK ==
  /\ phase \in {"down", "connack", "suback", "flush", "listening"}
  /\ written \in Seq(Packets)
  /\ wire \in Seq(Byte)
  /\ rx \in Seq(Byte)
  /\ batch \in Seq(Seq(Byte))
  /\ taken \in Seq(Seq(Byte))

FramingInit ==
  /\ phase = "down"
  /\ written = <<>>
  /\ wire = <<>>
  /\ rx = <<>>
  /\ batch = <<>>
  /\ taken = <<>>

----------------------------------------------------------------------------
(* The broker and the network.                                             *)

\* A broker answers CONNECT first and SUBSCRIBE once; events may race ahead of
\* the SUBACK.
MaySend(packet) ==
  \/ packet[1] = CONNACK /\ written = <<>>
  \/ packet[1] = SUBACK /\ phase = "suback" /\ \A i \in DOMAIN written : written[i][1] # SUBACK
  \/ IsEvent(packet) /\ written # <<>>

BrokerSends(packet) ==
  /\ phase # "down"
  /\ Len(written) < MaxPackets
  /\ MaySend(packet)
  /\ written' = Append(written, packet)
  /\ wire' = wire \o packet
  /\ UNCHANGED <<phase, rx, batch, taken>>

----------------------------------------------------------------------------
(* The client.                                                             *)

\* Mutant: the buffer survives from one session to the next.
BufferKept == rx

\* "A reconnect must start framing from a clean slate."
BufferAtConnect == <<>>

StartSession ==
  /\ phase = "down"
  /\ phase' = "connack"
  /\ rx' = BufferAtConnect
  /\ written' = <<>>
  /\ wire' = <<>>
  /\ batch' = <<>>
  /\ taken' = <<>>

\* receive() returns a frame of n bytes to the handshake, which asks for one
\* only when the buffer holds no complete packet.
ReceiveInHandshake(n) ==
  /\ phase \in {"connack", "suback"}
  /\ ~Complete(rx)
  /\ rx' = rx \o SubSeq(wire, 1, n)
  /\ wire' = SubSeq(wire, n + 1, Len(wire))
  /\ UNCHANGED <<phase, written, batch, taken>>

\* parse_connack reads the fourth byte; anything but 0 ends the attempt.
ReadConnack ==
  /\ phase = "connack"
  /\ Complete(rx)
  /\ LET accepted == Len(First(rx)) >= 4 /\ First(rx)[4] = 0 IN
     phase' = IF accepted THEN "suback" ELSE "down"
  /\ taken' = Append(taken, First(rx))
  /\ rx' = Rest(rx)
  /\ UNCHANGED <<written, wire, batch>>

\* Until the SUBACK, whatever comes is dispatched on the spot.
ReadSuback ==
  /\ phase = "suback"
  /\ Complete(rx)
  /\ phase' = IF First(rx)[1] = SUBACK THEN "flush" ELSE "suback"
  /\ taken' = Append(taken, First(rx))
  /\ rx' = Rest(rx)
  /\ UNCHANGED <<written, wire, batch>>

\* Mutant: the packets split off are not cut from the buffer.
NotCut(buffer) == [packets |-> SplitPackets(buffer).packets, rest |-> buffer]

\* Mutant: the listen loop blocks before it looks at the buffer.
NoFlush(buffer) == [packets |-> <<>>, rest |-> buffer]

\* What the handshake left behind.
Leftover(buffer) == SplitPackets(buffer)

\* The first thing the listen loop does.
Flush ==
  /\ phase = "flush"
  /\ phase' = "listening"
  /\ batch' = Leftover(rx).packets
  /\ rx' = Leftover(rx).rest
  /\ UNCHANGED <<written, wire, taken>>

Receive(n) ==
  /\ phase = "listening"
  /\ batch = <<>>
  /\ LET split == SplitPackets(rx \o SubSeq(wire, 1, n)) IN
     /\ batch' = split.packets
     /\ rx' = split.rest
  /\ wire' = SubSeq(wire, n + 1, Len(wire))
  /\ UNCHANGED <<phase, written, taken>>

\* Mutant: a batch is left after its first packet.
BatchDropped == <<>>

BatchAfterDispatch == Tail(batch)

\* The handlers of the next packet are awaited, their exceptions logged.
Dispatch ==
  /\ phase = "listening"
  /\ batch # <<>>
  /\ taken' = Append(taken, Head(batch))
  /\ batch' = BatchAfterDispatch
  /\ UNCHANGED <<phase, written, wire, rx>>

\* The socket closes, or disconnect() cancels the loop at an await.
Drop ==
  /\ phase # "down"
  /\ phase' = "down"
  /\ UNCHANGED <<written, wire, rx, batch, taken>>

----------------------------------------------------------------------------
Frame == \E n \in 1..Len(wire) : ReceiveInHandshake(n) \/ Receive(n)

FramingNext ==
  \/ \E p \in Packets : BrokerSends(p)
  \/ StartSession
  \/ Frame
  \/ ReadConnack
  \/ ReadSuback
  \/ Flush
  \/ Dispatch
  \/ Drop

FramingSpec == FramingInit /\ [][FramingNext]_framing

\* Bytes sent arrive or the socket closes, and the client's coroutine goes on.
FairFraming ==
  /\ FramingSpec
  /\ WF_framing(Frame)
  /\ WF_framing(ReadConnack \/ ReadSuback \/ Flush \/ Dispatch)

----------------------------------------------------------------------------
(* Properties.                                                             *)

\* Every byte the broker sent is, in its place and once, in a packet taken, in
\* a packet waiting for its handler, in the buffer or on the wire, and every
\* packet taken is one that was sent: framing never slips, wherever the frames
\* cut (issue #13).
FramingHolds ==
  LET ours == taken \o batch IN
  phase # "down" =>
    /\ FlattenSeq(ours) \o rx \o wire = FlattenSeq(written)
    /\ IsPrefix(ours, written)

\* While the listen loop is blocked in receive() the buffer holds no complete
\* packet: an event that came in the SUBACK's frame does not wait for the next
\* frame, which on a quiet account may be minutes away.
NothingHeldBack == phase = "listening" /\ batch = <<>> => ~Complete(rx)

\* The events among some packets, in order.
EventsOf(packets) ==
  LET upto[i \in 0..Len(packets)] ==
        IF i = 0 THEN <<>>
        ELSE IF IsEvent(packets[i]) THEN Append(upto[i - 1], packets[i])
        ELSE upto[i - 1]
  IN  upto[Len(packets)]

Sent    == EventsOf(written)
Handled == EventsOf(taken)

Channel == INSTANCE EventChannel WITH
  Events  <- {Packet(PUBLISH, b) : b \in EventBodies},
  sent    <- Sent,
  handled <- Handled

\* The stream is an EventChannel: every event handled once, in order, events
\* that race ahead of the SUBACK included.
DeliversInOrder == Channel!Spec

\* An event that was sent is handled, unless the stream goes down.
EventsArrive == (Len(Handled) < Len(Sent)) ~> (phase = "down" \/ Handled = Sent)
=============================================================================
