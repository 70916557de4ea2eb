-------------------------- MODULE ParserProperties --------------------------
(* What the rest of netmon may rely on when a packet has been parsed.      *)
EXTENDS Parser

(* No byte beyond the captured ones is read, whatever the header lengths   *)
(* claim, and no layer begins beyond them: captured_length - offset, an    *)
(* unsigned subtraction, never wraps (parser.c:231,271).                   *)
NoOverread == touched <= packet.captured /\ offset <= packet.captured

(* Where the headers of the packet end, by its own length fields.          *)
Ipv4End == EtherHeader + IhlBytes
TransportEnd ==
  Ipv4End + CASE packet.protocol = "icmp" -> IcmpHeader
              [] packet.protocol = "tcp" -> TcpBytes
              [] packet.protocol = "udp" -> UdpHeader
              [] OTHER -> 0

ValidIpv4 == packet.etherType = "ipv4" /\ packet.version = 4 /\ packet.ihl >= 5

ValidTransport ==
  /\ ValidIpv4 /\ packet.totalLength >= IhlBytes /\ packet.fragmentOffset = 0
  /\ packet.protocol = "tcp" => packet.dataOffset >= 5
  /\ packet.protocol = "udp" => packet.udpLength >= UdpHeader

TransportPresent(protocol) ==
  packet.protocol = protocol /\ ValidTransport /\ packet.captured >= TransportEnd

(* The flags a packet should get, header by header: present is what lies   *)
(* whole in the captured bytes and is valid itself and below.              *)
Present(flag) ==
  CASE flag = "has_ethernet" -> packet.captured >= EtherHeader
    [] flag = "has_arp" -> /\ packet.etherType = "arp" /\ packet.arpForIpv4
                           /\ packet.captured >= EtherHeader + ArpHeader + ArpPayload
    [] flag = "is_ipv6_observed" -> packet.etherType = "ipv6" /\ packet.captured >= EtherHeader
    [] flag = "has_ipv4" -> ValidIpv4 /\ packet.captured >= Ipv4End
    [] flag = "has_icmp" -> TransportPresent("icmp")
    [] flag = "has_tcp" -> TransportPresent("tcp")
    [] flag = "has_udp" -> TransportPresent("udp")

Layers == {"has_ethernet", "has_arp", "is_ipv6_observed", "has_ipv4",
           "has_icmp", "has_tcp", "has_udp"}

(* A layer is reported exactly when its whole header, options included,    *)
(* was captured and is valid, and so are the layers below: nothing is      *)
(* decoded from half a header, and nothing that is there is refused.       *)
LayersExact == stage = "done" => \A layer \in Layers : layer \in info <=> Present(layer)

(* The detector does not look at malformed and truncated, the rules do:    *)
(* still no SYN counts towards a scan that the rules did not report as a   *)
(* TCP event.                                                              *)
CountedIsReported == stage = "done" /\ Counted => Class \in {"tcp", "ssh"}
=============================================================================
