------------------------------- MODULE Parser -------------------------------
(***************************************************************************)
(* parse_packet of src/src/parser.c: layer after layer, each checked       *)
(* against what was captured before it is read.  A packet is the fields    *)
(* the parser decides on; which of its bytes exist is captured alone, so a *)
(* field beyond it is what the parser would find if it read too far.       *)
(***************************************************************************)
EXTENDS Integers, FiniteSets

CONSTANT Packets  \* the packets that may be captured

EtherTypes == {"arp", "ipv4", "ipv6", "other"}
Protocols == {"icmp", "tcp", "udp", "other"}
Nibble == 0..15
Word == 0..(2^16 - 1)
FragmentOffsets == 0..(2^13 - 1)

(* Lengths on the wire as the headers give them: ihl and dataOffset count  *)
(* words of four bytes, totalLength and udpLength bytes.                   *)
PacketType ==
  [captured : Nat, etherType : EtherTypes, arpForIpv4 : BOOLEAN,
   version : Nibble, ihl : Nibble, totalLength : Word, protocol : Protocols,
   fragmentOffset : FragmentOffsets, moreFragments : BOOLEAN,
   dataOffset : Nibble, udpLength : Word,
   echo : BOOLEAN, toSsh : BOOLEAN, syn : BOOLEAN, ack : BOOLEAN]

ASSUME ParserAssumption == Packets \subseteq PacketType

VARIABLES
  packet,   \* what capture_loop hands over
  stage,    \* the layer parsed next, or "done"
  offset,   \* where its buffer begins in the packet
  info,     \* the flags of PacketInfo that are true
  touched   \* history: bytes read, up to the furthest one

vars == <<packet, stage, offset, info, touched>>

Stages == {"ethernet", "arp", "ipv4", "icmp", "tcp", "udp", "done"}
Flags ==
  {"has_ethernet", "is_ipv6_observed", "has_arp", "has_ipv4", "ipv4_fragmented",
   "ipv4_l4_header_available", "has_icmp", "has_ports", "has_tcp", "has_udp",
   "malformed", "truncated"}

TypeOK ==
  /\ packet \in Packets /\ stage \in Stages /\ offset \in Nat
  /\ info \subseteq Flags /\ touched \in Nat

-----------------------------------------------------------------------------
(* Sizes of the fixed headers, in bytes.                                   *)
EtherHeader == 14
ArpHeader == 8
ArpPayload == 20
IpHeader == 20
IcmpHeader == 8
TcpHeader == 20
UdpHeader == 8

available == packet.captured - offset

IhlBytes == 4 * packet.ihl
TcpBytes == 4 * packet.dataOffset

(* The parser reads the first n bytes of the current layer.                *)
Reads(n) == touched' = IF offset + n > touched THEN offset + n ELSE touched

Finish(flags) == info' = info \cup flags /\ stage' = "done" /\ UNCHANGED offset

Refuse(flag) == Finish({flag})

Descend(layer, header, flags) ==
  info' = info \cup flags /\ stage' = layer /\ offset' = offset + header

-----------------------------------------------------------------------------
Init ==
  /\ packet \in Packets
  /\ stage = "ethernet" /\ offset = 0
  /\ info = {} /\ touched = 0

ParseEthernet ==
  /\ stage = "ethernet"
  /\ \/ available < EtherHeader /\ Refuse("truncated") /\ UNCHANGED touched
     \/ /\ available >= EtherHeader
        /\ Reads(EtherHeader)
        /\ CASE packet.etherType \in {"arp", "ipv4"} ->
                  Descend(packet.etherType, EtherHeader, {"has_ethernet"})
             [] packet.etherType = "ipv6" -> Finish({"has_ethernet", "is_ipv6_observed"})
             [] OTHER -> Finish({"has_ethernet"})
  /\ UNCHANGED packet

ParseArp ==
  /\ stage = "arp"
  /\ \/ available < ArpHeader /\ Refuse("truncated") /\ UNCHANGED touched
     \/ /\ available >= ArpHeader /\ ~packet.arpForIpv4
        /\ Reads(ArpHeader) /\ Refuse("malformed")
     \/ /\ available >= ArpHeader /\ packet.arpForIpv4
        /\ available < ArpHeader + ArpPayload
        /\ Reads(ArpHeader) /\ Refuse("truncated")
     \/ /\ available >= ArpHeader + ArpPayload /\ packet.arpForIpv4
        /\ Reads(ArpHeader + ArpPayload) /\ Finish({"has_arp"})
  /\ UNCHANGED packet

FragmentFlags ==
  (IF packet.moreFragments \/ packet.fragmentOffset # 0 THEN {"ipv4_fragmented"} ELSE {})
    \cup (IF packet.fragmentOffset = 0 THEN {"ipv4_l4_header_available"} ELSE {})

IhlTooShortAllowed == packet.version # 4
IpHeaderBad == packet.version # 4 \/ IhlBytes < IpHeader

IhlCapturedUnchecked == TRUE
IhlCaptured == available >= IhlBytes

ParseIpv4 ==
  /\ stage = "ipv4"
  /\ \/ available < IpHeader /\ Refuse("truncated") /\ UNCHANGED touched
     \/ /\ available >= IpHeader
        /\ Reads(IpHeader)
        /\ \/ IpHeaderBad /\ Refuse("malformed")
           \/ ~IpHeaderBad /\ ~IhlCaptured /\ Refuse("truncated")
           \/ /\ ~IpHeaderBad /\ IhlCaptured /\ packet.totalLength < IhlBytes
              /\ Finish({"has_ipv4", "malformed"})
           \/ /\ ~IpHeaderBad /\ IhlCaptured /\ packet.totalLength >= IhlBytes
              /\ IF packet.fragmentOffset = 0 /\ packet.protocol # "other"
                 THEN Descend(packet.protocol, IhlBytes, {"has_ipv4"} \cup FragmentFlags)
                 ELSE Finish({"has_ipv4"} \cup FragmentFlags)
  /\ UNCHANGED packet

ParseIcmp ==
  /\ stage = "icmp"
  /\ \/ available < IcmpHeader /\ Refuse("truncated") /\ UNCHANGED touched
     \/ available >= IcmpHeader /\ Reads(2) /\ Finish({"has_icmp"})
  /\ UNCHANGED packet

TcpFlagsEarly == {"has_ports", "has_tcp", "truncated"}
TcpCutShort == {"truncated"}

(* tcp_flags is the fourteenth byte, the last one read.                    *)
ParseTcp ==
  /\ stage = "tcp"
  /\ \/ available < TcpHeader /\ Refuse("truncated") /\ UNCHANGED touched
     \/ /\ available >= TcpHeader /\ TcpBytes < TcpHeader
        /\ Reads(13) /\ Refuse("malformed")
     \/ /\ available >= TcpHeader /\ TcpBytes >= TcpHeader /\ available < TcpBytes
        /\ Reads(13) /\ Finish(TcpCutShort)
     \/ /\ available >= TcpHeader /\ TcpBytes >= TcpHeader /\ available >= TcpBytes
        /\ Reads(14) /\ Finish({"has_ports", "has_tcp"})
  /\ UNCHANGED packet

ParseUdp ==
  /\ stage = "udp"
  /\ \/ available < UdpHeader /\ Refuse("truncated") /\ UNCHANGED touched
     \/ /\ available >= UdpHeader /\ Reads(6)
        /\ IF packet.udpLength < UdpHeader
           THEN Refuse("malformed")
           ELSE Finish({"has_ports", "has_udp"})
  /\ UNCHANGED packet

Done == stage = "done" /\ UNCHANGED vars

Next == ParseEthernet \/ ParseArp \/ ParseIpv4 \/ ParseIcmp \/ ParseTcp \/ ParseUdp \/ Done

Spec == Init /\ [][Next]_vars

-----------------------------------------------------------------------------
(* What rules_evaluate_packet makes of the flags: the class RulesEngine    *)
(* takes the packet for.                                                   *)
Class ==
  IF info \cap {"malformed", "truncated"} # {} THEN "broken"
  ELSE IF "has_arp" \in info THEN "arp"
  ELSE IF "is_ipv6_observed" \in info THEN "ipv6"
  ELSE IF "has_icmp" \in info THEN IF packet.echo THEN "icmp_echo" ELSE "icmp"
  ELSE IF "has_tcp" \in info THEN
         IF packet.toSsh /\ packet.syn /\ ~packet.ack THEN "ssh" ELSE "tcp"
  ELSE IF "has_udp" \in info THEN "udp"
  ELSE IF "has_ipv4" \in info THEN "ipv4"
  ELSE "other"

(* What scan_detector_observe counts: it does not ask for broken packets.  *)
Counted ==
  {"has_ipv4", "has_tcp", "has_ports"} \subseteq info /\ packet.syn /\ ~packet.ack
=============================================================================
