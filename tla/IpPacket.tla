------------------------------ MODULE IpPacket ------------------------------
(***************************************************************************)
(* class Packet (Packet.{h,cpp}): what create() makes of the bytes of one  *)
(* packet, in the 16-bit arithmetic of its fields.                         *)
(***************************************************************************)
EXTENDS Integers, Sequences

CONSTANTS
  Words,       \* the number of values of a uint16_t
  RawPackets,  \* the packets: bytes from offset 0
  StrayBytes   \* what memory that was never written, or is past the packet, may hold

Byte == 0 .. 255
Word == 0 .. Words - 1

ASSUME PacketAssumption ==
  /\ Words \in Nat
  /\ \A b, c \in Byte : 256 * b + c < Words
  /\ RawPackets \subseteq Seq(Byte)
  /\ StrayBytes \subseteq Byte

VARIABLES
  raw_pkt,             \* the packet, or << >> for a null pointer
  ETHERNET_HEADER_SIZE,
  ip_header_length,
  packet_length,
  trans_header_length,
  payload_length,
  dst_ip,
  state                \* "new", "parsed", or what was thrown

fields == <<ip_header_length, packet_length, trans_header_length, payload_length, dst_ip>>
parserVars == <<raw_pkt, ETHERNET_HEADER_SIZE, fields, state>>

-----------------------------------------------------------------------------
\* The byte at an offset; one past the end of the packet is whatever memory holds.
At(pkt, offset) == IF offset < Len(pkt) THEN {pkt[offset + 1]} ELSE StrayBytes

\* The fields of IP_header, from its first byte on, and of TCP_header.
Ihl(pkt, ip) == {b % 16 : b \in At(pkt, ip)}
TotalLength(pkt, ip) == {256 * b + c : b \in At(pkt, ip + 2), c \in At(pkt, ip + 3)}
Protocol(pkt, ip) == At(pkt, ip + 9)
DstAddr(pkt, ip) == {<<a, b, c, d>> : a \in At(pkt, ip + 16), b \in At(pkt, ip + 17),
                                      c \in At(pkt, ip + 18), d \in At(pkt, ip + 19)}
Offset(pkt, tcp) == {b \div 16 : b \in At(pkt, tcp + 12)}

\* ip_header_length and packet_length are computed in int and kept in 16 bits.
HeaderLength(ihl) == ihl * 4

PacketLength(total) == (total + 14) % Words

\* payload_length: a difference that may be negative, kept in 16 bits.
PayloadLength(length, eth, ip, trans) == (length + 3 * Words - (eth + ip + trans)) % Words

\* Mutant: the data offset is not scaled.
TransportLengthsUnscaled(pkt, ip, protocol, ihl) ==
  IF protocol = 6 THEN Offset(pkt, ip + HeaderLength(ihl))
  ELSE IF protocol = 17 THEN {8} ELSE {256 * b + c : b \in StrayBytes, c \in StrayBytes}

\* TCP gives its own length, UDP has 8 bytes; for others the field is never written.
TransportLengths(pkt, ip, protocol, ihl) ==
  IF protocol = 6 THEN {o * 4 : o \in Offset(pkt, ip + HeaderLength(ihl))}
  ELSE IF protocol = 17 THEN {8} ELSE {256 * b + c : b \in StrayBytes, c \in StrayBytes}

\* The constructor, create(ETHERNET_FRAME).
Create(eth) ==
  /\ state = "new"
  /\ ETHERNET_HEADER_SIZE' = 14 * eth
  /\ IF raw_pkt = << >>
     THEN state' = "null" /\ UNCHANGED fields
     ELSE \E ihl \in Ihl(raw_pkt, 14 * eth), total \in TotalLength(raw_pkt, 14 * eth),
             protocol \in Protocol(raw_pkt, 14 * eth) :
            /\ ip_header_length' = HeaderLength(ihl)
            /\ packet_length' = PacketLength(total)
            /\ IF packet_length' < ip_header_length'
               THEN /\ state' = "invalid"
                    /\ UNCHANGED <<trans_header_length, payload_length, dst_ip>>
               ELSE /\ trans_header_length' \in
                         TransportLengths(raw_pkt, 14 * eth, protocol, ihl)
                    /\ payload_length' = PayloadLength(packet_length', 14 * eth,
                                           ip_header_length', trans_header_length')
                    /\ dst_ip' \in DstAddr(raw_pkt, 14 * eth)
                    /\ state' = "parsed"
  /\ UNCHANGED raw_pkt

\* callbackLitentToInterface parses what the adapter read, which has no link header.
ParseFromAdapter == Create(0)

\* The default of the constructor, for captured frames.
ParseFrame == Create(1)

ParserInit ==
  /\ raw_pkt \in RawPackets \cup {<< >>}
  /\ ETHERNET_HEADER_SIZE = 0
  /\ ip_header_length = 0
  /\ packet_length = 0
  /\ trans_header_length = 0
  /\ payload_length = 0
  /\ dst_ip = << >>
  /\ state = "new"

ParserNext == ParseFromAdapter \/ ParseFrame

ParserSpec == ParserInit /\ [][ParserNext]_parserVars

-----------------------------------------------------------------------------
(* Properties.                                                             *)

\* Every field keeps its width.
FieldsOK ==
  /\ raw_pkt \in Seq(Byte)
  /\ ETHERNET_HEADER_SIZE \in {0, 14}
  /\ ip_header_length \in 0 .. 60
  /\ packet_length \in Word
  /\ trans_header_length \in Word
  /\ payload_length \in Word
  /\ state \in {"new", "parsed", "null", "invalid"}

\* The IP packet in the buffer, as its sender wrote it.
Ip == ETHERNET_HEADER_SIZE
IpTotal == 256 * raw_pkt[Ip + 3] + raw_pkt[Ip + 4]
IpHeader == 4 * (raw_pkt[Ip + 1] % 16)
IpProtocol == raw_pkt[Ip + 10]
TransportHeader == IF IpProtocol = 6 THEN 4 * (raw_pkt[Ip + IpHeader + 13] \div 16) ELSE 8

\* A whole TCP or UDP packet: the buffer holds what the lengths say.
WholePacket ==
  /\ Len(raw_pkt) > Ip + 20
  /\ IpHeader >= 20
  /\ IpTotal >= IpHeader
  /\ Len(raw_pkt) >= Ip + IpHeader + 20
  /\ IpProtocol \in {6, 17}
  /\ IpTotal >= IpHeader + TransportHeader

\* Of a whole TCP or UDP packet of at most 65521 bytes, the payload found begins behind
\* its headers, and no length wraps on the way to its end (Packet.cpp:18-38).  That end
\* is the packet's only when there is a link header in front.  Without one, which is the
\* program's only call (functions.cpp:18), it lies 14 bytes PAST the end of the packet:
\* Packet.cpp:18 adds 14 whether there is such a header or not.
PayloadFound ==
  (state = "parsed" /\ WholePacket /\ IpTotal + 14 < Words)
    => /\ ip_header_length + trans_header_length = IpHeader + TransportHeader
       /\ ip_header_length + trans_header_length + payload_length = IpTotal + 14 - Ip
=============================================================================
