---------------------------- MODULE ParserProofs ----------------------------
(***************************************************************************)
(* What the parser reads and reports, for every packet: any captured       *)
(* length and any values of the header fields.                             *)
(***************************************************************************)
EXTENDS ParserProperties, TLAPS

(* Where the parser is and what it has established about the layers below. *)
LayerInv ==
  /\ stage = "ethernet" => offset = 0 /\ info = {}
  /\ stage \in {"arp", "ipv4"} =>
       packet.etherType = stage /\ offset = EtherHeader /\ info = {"has_ethernet"}
  /\ stage \in {"icmp", "tcp", "udp"} =>
       /\ packet.protocol = stage /\ ValidIpv4
       /\ packet.totalLength >= IhlBytes /\ packet.fragmentOffset = 0
       /\ offset = Ipv4End
       /\ info = {"has_ethernet", "has_ipv4"} \cup FragmentFlags

(* A TCP header is not reported of a broken packet.                        *)
Clean(S) == "has_tcp" \in S => S \cap {"malformed", "truncated"} = {}

ParserInv == TypeOK /\ NoOverread /\ LayerInv /\ LayersExact /\ Clean(info)

USE DEF EtherHeader, ArpHeader, ArpPayload, IpHeader, IcmpHeader, TcpHeader, UdpHeader

-----------------------------------------------------------------------------
(* The fields of a packet have their types.                                *)
LEMMA PacketFields ==
  ASSUME TypeOK
  PROVE  /\ packet.captured \in Nat /\ packet.etherType \in EtherTypes
         /\ packet.arpForIpv4 \in BOOLEAN /\ packet.version \in Nat /\ packet.ihl \in Nat
         /\ packet.totalLength \in Nat /\ packet.protocol \in Protocols
         /\ packet.fragmentOffset \in Nat /\ packet.dataOffset \in Nat
         /\ packet.udpLength \in Nat /\ IhlBytes \in Nat /\ TcpBytes \in Nat
         /\ offset \in Nat /\ touched \in Nat /\ info \subseteq Flags
<1>1. packet \in PacketType
  BY ParserAssumption DEF TypeOK
<1>2. packet.version \in Nibble /\ packet.ihl \in Nibble /\ packet.dataOffset \in Nibble
  BY <1>1, SMT DEF PacketType
<1>3. packet.totalLength \in Word /\ packet.udpLength \in Word
  BY <1>1, SMT DEF PacketType
<1>4. packet.fragmentOffset \in FragmentOffsets /\ packet.captured \in Nat
  BY <1>1, SMT DEF PacketType
<1>5. packet.etherType \in EtherTypes /\ packet.protocol \in Protocols
  BY <1>1, SMT DEF PacketType
<1>6. packet.arpForIpv4 \in BOOLEAN
  BY <1>1, SMT DEF PacketType
<1>7. /\ packet.version \in Nat /\ packet.ihl \in Nat /\ packet.dataOffset \in Nat
      /\ packet.totalLength \in Nat /\ packet.udpLength \in Nat
      /\ packet.fragmentOffset \in Nat
  BY <1>2, <1>3, <1>4 DEF Nibble, Word, FragmentOffsets
<1>8. IhlBytes \in Nat /\ TcpBytes \in Nat
  BY <1>7, SMT DEF IhlBytes, TcpBytes
<1> QED
  BY <1>4, <1>5, <1>6, <1>7, <1>8 DEF TypeOK

(* FragmentFlags holds flags of fragments only.                            *)
LEMMA FragmentFlagsOnly ==
  /\ FragmentFlags \subseteq Flags
  /\ FragmentFlags \cap Layers = {}
  /\ FragmentFlags \cap {"malformed", "truncated"} = {}
BY DEF FragmentFlags, Flags, Layers

LEMMA InitInv == Init => ParserInv
<1> SUFFICES ASSUME Init PROVE ParserInv
  OBVIOUS
<1>1. TypeOK
  BY DEF Init, TypeOK, Stages, Flags
<1>2. NoOverread
  BY <1>1, PacketFields DEF Init, NoOverread
<1> QED
  BY <1>1, <1>2 DEF Init, ParserInv, LayerInv, LayersExact, Clean

-----------------------------------------------------------------------------
(* What should be reported, layer by layer, of the set of flags S.         *)
ExactIn(S) ==
  /\ "has_ethernet" \in S <=> packet.captured >= EtherHeader
  /\ "has_arp" \in S <=> /\ packet.etherType = "arp" /\ packet.arpForIpv4
                         /\ packet.captured >= EtherHeader + ArpHeader + ArpPayload
  /\ "is_ipv6_observed" \in S <=> packet.etherType = "ipv6" /\ packet.captured >= EtherHeader
  /\ "has_ipv4" \in S <=> ValidIpv4 /\ packet.captured >= Ipv4End
  /\ "has_icmp" \in S <=> TransportPresent("icmp")
  /\ "has_tcp" \in S <=> TransportPresent("tcp")
  /\ "has_udp" \in S <=> TransportPresent("udp")

LEMMA ExactMeansPresent ==
  ASSUME NEW S, ExactIn(S)
  PROVE  \A layer \in Layers : layer \in S <=> Present(layer)
BY DEF ExactIn, Present, Layers

(* A step that ends the parse with an exact set of flags.                  *)
LEMMA Finished ==
  ASSUME ParserInv, packet' = packet, stage' = "done", offset' = offset,
         touched' \in Nat, touched' <= packet.captured, info' \subseteq Flags,
         ExactIn(info'), Clean(info')
  PROVE  ParserInv'
<1>1. TypeOK' /\ NoOverread'
  BY DEF ParserInv, TypeOK, NoOverread, Stages
<1>2. LayerInv'
  BY DEF LayerInv
<1>3. \A layer \in Layers : layer \in info' <=> Present(layer)
  BY ExactMeansPresent
<1>4. \A layer \in Layers : Present(layer)' <=> Present(layer)
  BY DEF Present, TransportPresent, ValidIpv4, ValidTransport, TransportEnd, Ipv4End,
         IhlBytes, TcpBytes
<1>5. LayersExact'
  BY <1>3, <1>4 DEF LayersExact
<1> QED
  BY <1>1, <1>2, <1>5 DEF ParserInv, Clean

(* A step to the next layer, which begins within the captured bytes.       *)
LEMMA Descended ==
  ASSUME ParserInv, packet' = packet, stage' \in Stages \ {"done"},
         offset' \in Nat, offset' <= packet.captured,
         touched' \in Nat, touched' <= packet.captured, info' \subseteq Flags,
         LayerInv', Clean(info')
  PROVE  ParserInv'
<1>1. TypeOK' /\ NoOverread' /\ LayersExact'
  BY DEF ParserInv, TypeOK, NoOverread, LayersExact
<1> QED
  BY <1>1 DEF ParserInv, Clean

(* Reading what is available stays within the captured bytes.              *)
LEMMA ReadsWithin ==
  ASSUME ParserInv, NEW n \in Nat, Reads(n), available >= n
  PROVE  touched' \in Nat /\ touched' <= packet.captured
<1>1. packet.captured \in Nat /\ offset \in Nat /\ touched \in Nat
  BY PacketFields DEF ParserInv
<1> QED
  BY <1>1 DEF ParserInv, NoOverread, Reads, available

-----------------------------------------------------------------------------
(* One lemma for each layer.                                               *)
LEMMA EthernetStep ==
  ASSUME ParserInv, ParseEthernet
  PROVE  ParserInv'
<1>1. /\ stage = "ethernet" /\ offset = 0 /\ info = {} /\ packet' = packet
      /\ packet.captured \in Nat /\ touched \in Nat /\ touched <= packet.captured
      /\ packet.etherType \in EtherTypes
  BY PacketFields DEF ParserInv, NoOverread, LayerInv, ParseEthernet
<1>2. CASE packet.captured < EtherHeader
  <2>1. stage' = "done" /\ offset' = offset /\ info' = {"truncated"} /\ touched' = touched
    BY <1>1, <1>2 DEF ParseEthernet, Refuse, Finish, available
  <2>2. ~(packet.captured >= Ipv4End /\ ValidIpv4)
    BY <1>1, <1>2, PacketFields DEF Ipv4End, ParserInv
  <2>3. \A p : ~TransportPresent(p)
    BY <1>1, <1>2, PacketFields DEF TransportPresent, TransportEnd, Ipv4End, ParserInv, Protocols
  <2>4. ExactIn(info')
    BY <1>1, <1>2, <2>1, <2>2, <2>3 DEF ExactIn
  <2> QED
    BY <1>1, <2>1, <2>4, Finished DEF Flags, Clean
<1>3. CASE packet.captured >= EtherHeader
  <2>1. Reads(EtherHeader) /\ available >= EtherHeader
    BY <1>1, <1>3 DEF ParseEthernet, available
  <2>2. touched' \in Nat /\ touched' <= packet.captured
    BY <2>1, ReadsWithin
  <2>3. CASE packet.etherType \in {"arp", "ipv4"}
    <3>1. /\ stage' = packet.etherType /\ offset' = EtherHeader /\ info' = {"has_ethernet"}
      BY <1>1, <1>3, <2>3 DEF ParseEthernet, Descend, available
    <3>2. LayerInv'
      BY <1>1, <2>3, <3>1 DEF LayerInv
    <3> QED
      BY <1>1, <1>3, <2>2, <2>3, <3>1, <3>2, Descended DEF Stages, Flags, Clean
  <2>4. CASE packet.etherType \notin {"arp", "ipv4"}
    <3>1. /\ stage' = "done" /\ offset' = offset
          /\ info' = IF packet.etherType = "ipv6" THEN {"has_ethernet", "is_ipv6_observed"}
                     ELSE {"has_ethernet"}
      BY <1>1, <1>3, <2>4 DEF ParseEthernet, Finish, available
    <3>2. ExactIn(info')
      BY <1>1, <1>3, <2>4, <3>1 DEF ExactIn, TransportPresent, ValidTransport, ValidIpv4
    <3> QED
      BY <1>1, <2>2, <3>1, <3>2, Finished DEF Flags, Clean
  <2> QED
    BY <2>3, <2>4
<1> QED
  BY <1>1, <1>2, <1>3

LEMMA ArpStep ==
  ASSUME ParserInv, ParseArp
  PROVE  ParserInv'
<1>1. /\ packet.etherType = "arp" /\ offset = EtherHeader /\ info = {"has_ethernet"}
      /\ packet' = packet /\ offset' = offset /\ stage' = "done"
      /\ packet.captured \in Nat /\ touched \in Nat /\ touched <= packet.captured
      /\ EtherHeader <= packet.captured
  BY PacketFields DEF ParserInv, NoOverread, LayerInv, ParseArp, Refuse, Finish
<1>2. touched' \in Nat /\ touched' <= packet.captured
  BY <1>1, ReadsWithin DEF ParseArp, available
<1>3. info' \subseteq Flags
  BY <1>1 DEF ParseArp, Refuse, Finish, Flags
<1>4. "has_arp" \in info' <=> /\ packet.arpForIpv4
                             /\ packet.captured >= EtherHeader + ArpHeader + ArpPayload
  BY <1>1 DEF ParseArp, Refuse, Finish, available
<1>5. info' \cap Layers \subseteq {"has_ethernet", "has_arp"} /\ "has_ethernet" \in info'
  BY <1>1 DEF ParseArp, Refuse, Finish, Layers
<1>6. ExactIn(info')
  BY <1>1, <1>4, <1>5 DEF ExactIn, TransportPresent, ValidTransport, ValidIpv4, Layers
<1> QED
  BY <1>1, <1>2, <1>3, <1>5, <1>6, Finished DEF Clean, Layers

LEMMA Ipv4Step ==
  ASSUME ParserInv, ParseIpv4
  PROVE  ParserInv'
<1>1. /\ packet.etherType = "ipv4" /\ offset = EtherHeader /\ info = {"has_ethernet"}
      /\ packet' = packet
      /\ packet.captured \in Nat /\ touched \in Nat /\ touched <= packet.captured
      /\ EtherHeader <= packet.captured /\ packet.ihl \in Nat /\ IhlBytes \in Nat
      /\ packet.totalLength \in Nat /\ packet.protocol \in Protocols
  BY PacketFields DEF ParserInv, NoOverread, LayerInv, ParseIpv4
<1>2. touched' \in Nat /\ touched' <= packet.captured
  BY <1>1, ReadsWithin DEF ParseIpv4
<1>3. (packet.ihl >= 5 <=> IhlBytes >= IpHeader) /\ Ipv4End \in Nat
  BY <1>1 DEF IhlBytes, Ipv4End
<1>4. ASSUME ~ValidIpv4 \/ packet.captured < Ipv4End
      PROVE  ParserInv'
  <2>1. \A p : ~TransportPresent(p)
    BY <1>1, <1>4, PacketFields
    DEF TransportPresent, ValidTransport, TransportEnd, Ipv4End, ParserInv, Protocols
  <2>2. \E flag \in {"truncated", "malformed"} : Refuse(flag)
    BY <1>1, <1>3, <1>4
    DEF ParseIpv4, IpHeaderBad, IhlCaptured, available, Ipv4End, ValidIpv4
  <2>3. stage' = "done" /\ offset' = offset /\ info' \subseteq Flags
    BY <1>1, <2>2 DEF Refuse, Finish, Flags
  <2>4. \A flag \in Layers : flag \in info' <=> flag = "has_ethernet"
    BY <1>1, <2>2 DEF Refuse, Finish, Layers
  <2>5. ExactIn(info')
    BY <1>1, <1>3, <1>4, <2>1, <2>4 DEF ExactIn, Layers
  <2> QED
    BY <1>1, <1>2, <2>3, <2>4, <2>5, Finished DEF Clean, Layers
<1>5. ASSUME ValidIpv4, packet.captured >= Ipv4End,
             \/ packet.totalLength < IhlBytes
             \/ packet.fragmentOffset # 0
             \/ packet.protocol = "other"
      PROVE  ParserInv'
  <2>1. /\ ~IpHeaderBad /\ IhlCaptured /\ available >= IpHeader /\ available \in Int
    BY <1>1, <1>3, <1>5 DEF IpHeaderBad, IhlCaptured, available, Ipv4End, ValidIpv4
  <2>2. Finish({"has_ipv4", "malformed"}) \/ Finish({"has_ipv4"} \cup FragmentFlags)
    BY <1>1, <1>5, <2>1 DEF ParseIpv4
  <2>3. stage' = "done" /\ offset' = offset /\ info' \subseteq Flags
    BY <1>1, <2>2, FragmentFlagsOnly DEF Finish, Flags
  <2>4. info' \cap Layers = {"has_ethernet", "has_ipv4"}
    BY <1>1, <2>2, FragmentFlagsOnly DEF Finish, Layers
  <2>5. \A p \in {"icmp", "tcp", "udp"} : ~TransportPresent(p)
    BY <1>1, <1>5 DEF TransportPresent, ValidTransport
  <2>6. ExactIn(info')
    BY <1>1, <1>5, <2>4, <2>5 DEF ExactIn, Layers
  <2> QED
    BY <1>1, <1>2, <2>3, <2>4, <2>6, Finished DEF Clean, Layers
<1>6. ASSUME ValidIpv4, packet.captured >= Ipv4End, packet.totalLength >= IhlBytes,
             packet.fragmentOffset = 0, packet.protocol # "other"
      PROVE  ParserInv'
  <2>1. /\ ~IpHeaderBad /\ IhlCaptured /\ available >= IpHeader /\ available \in Int
    BY <1>1, <1>3, <1>6 DEF IpHeaderBad, IhlCaptured, available, Ipv4End, ValidIpv4
  <2>2. Descend(packet.protocol, IhlBytes, {"has_ipv4"} \cup FragmentFlags)
    BY <1>1, <1>6, <2>1 DEF ParseIpv4
  <2>3. /\ stage' = packet.protocol /\ offset' = Ipv4End
        /\ info' = {"has_ethernet", "has_ipv4"} \cup FragmentFlags
    BY <1>1, <2>2 DEF Descend, Ipv4End
  <2>4. stage' \in {"icmp", "tcp", "udp"}
    BY <1>1, <1>6, <2>3 DEF Protocols
  <2>5. /\ ValidIpv4' /\ IhlBytes' = IhlBytes /\ Ipv4End' = Ipv4End
        /\ FragmentFlags' = FragmentFlags
    BY <1>1, <1>6 DEF ValidIpv4, IhlBytes, Ipv4End, FragmentFlags
  <2>6. LayerInv'
    BY <1>1, <1>6, <2>3, <2>4, <2>5 DEF LayerInv
  <2>7. offset' \in Nat /\ offset' <= packet.captured /\ info' \subseteq Flags /\ Clean(info')
    BY <1>1, <1>6, <2>3, FragmentFlagsOnly DEF Ipv4End, Flags, Clean, Layers
  <2> QED
    BY <1>1, <1>2, <2>4, <2>6, <2>7, Descended DEF Stages
<1> QED
  BY <1>1, <1>3, <1>4, <1>5, <1>6

(* What is known when a transport header is parsed.                        *)
LEMMA AtTransport ==
  ASSUME ParserInv, stage \in {"icmp", "tcp", "udp"}
  PROVE  /\ packet.protocol = stage /\ ValidIpv4 /\ offset = Ipv4End
         /\ packet.totalLength >= IhlBytes /\ packet.fragmentOffset = 0
         /\ info \subseteq Flags /\ info \cap Layers = {"has_ethernet", "has_ipv4"}
         /\ packet.captured \in Nat /\ offset \in Nat /\ offset <= packet.captured
         /\ EtherHeader <= offset /\ touched \in Nat /\ touched <= packet.captured
         /\ packet.dataOffset \in Nat /\ TcpBytes \in Nat /\ packet.udpLength \in Nat
<1>1. /\ packet.protocol = stage /\ ValidIpv4 /\ offset = Ipv4End
      /\ packet.totalLength >= IhlBytes /\ packet.fragmentOffset = 0
      /\ info = {"has_ethernet", "has_ipv4"} \cup FragmentFlags
      /\ offset <= packet.captured /\ touched <= packet.captured
  BY DEF ParserInv, LayerInv, NoOverread
<1>2. /\ info \subseteq Flags /\ info \cap Layers = {"has_ethernet", "has_ipv4"}
  BY <1>1, FragmentFlagsOnly DEF Flags, Layers
<1>3. /\ packet.captured \in Nat /\ offset \in Nat /\ touched \in Nat /\ IhlBytes \in Nat
      /\ packet.dataOffset \in Nat /\ TcpBytes \in Nat /\ packet.udpLength \in Nat
  BY PacketFields DEF ParserInv
<1>4. EtherHeader <= offset
  BY <1>1, <1>3 DEF Ipv4End
<1> QED
  BY <1>1, <1>2, <1>3, <1>4

(* What makes the flags exact there.                                       *)
LEMMA TransportExact ==
  ASSUME ParserInv, stage \in {"icmp", "tcp", "udp"}, NEW S,
         S \cap Layers \subseteq {"has_ethernet", "has_ipv4", "has_icmp", "has_tcp", "has_udp"},
         "has_ethernet" \in S, "has_ipv4" \in S,
         "has_icmp" \in S <=> TransportPresent("icmp"),
         "has_tcp" \in S <=> TransportPresent("tcp"),
         "has_udp" \in S <=> TransportPresent("udp")
  PROVE  ExactIn(S)
<1>1. /\ packet.etherType = "ipv4" /\ packet.captured >= EtherHeader
      /\ packet.captured >= Ipv4End /\ ValidIpv4
  BY AtTransport DEF ValidIpv4
<1> QED
  BY <1>1 DEF ExactIn, Layers

LEMMA IcmpStep ==
  ASSUME ParserInv, ParseIcmp
  PROVE  ParserInv'
<1>1. /\ stage = "icmp" /\ packet' = packet /\ stage' = "done" /\ offset' = offset
      /\ available \in Int
  BY AtTransport DEF ParseIcmp, Refuse, Finish, available
<1>2. touched' \in Nat /\ touched' <= packet.captured
  BY <1>1, AtTransport, ReadsWithin DEF ParseIcmp
<1>3. TransportPresent("icmp") <=> available >= IcmpHeader
  BY <1>1, AtTransport DEF TransportPresent, ValidTransport, TransportEnd, available
<1>4. ~TransportPresent("tcp") /\ ~TransportPresent("udp")
  BY <1>1, AtTransport DEF TransportPresent
<1>5. info' = info \cup (IF available >= IcmpHeader THEN {"has_icmp"} ELSE {"truncated"})
  BY <1>1 DEF ParseIcmp, Refuse, Finish
<1>6. /\ info' \subseteq Flags /\ "has_ethernet" \in info' /\ "has_ipv4" \in info'
      /\ info' \cap Layers \subseteq {"has_ethernet", "has_ipv4", "has_icmp"}
      /\ "has_icmp" \in info' <=> available >= IcmpHeader
  BY <1>1, <1>5, AtTransport DEF Flags, Layers
<1>7. ExactIn(info')
  BY <1>1, <1>3, <1>4, <1>6, TransportExact DEF Layers
<1> QED
  BY <1>1, <1>2, <1>6, <1>7, Finished DEF Clean, Layers

LEMMA UdpStep ==
  ASSUME ParserInv, ParseUdp
  PROVE  ParserInv'
<1> DEFINE good == available >= UdpHeader /\ packet.udpLength >= UdpHeader
<1>1. /\ stage = "udp" /\ packet' = packet /\ stage' = "done" /\ offset' = offset
      /\ available \in Int /\ packet.udpLength \in Nat
  BY AtTransport DEF ParseUdp, Refuse, Finish, available
<1>2. touched' \in Nat /\ touched' <= packet.captured
  BY <1>1, AtTransport, ReadsWithin DEF ParseUdp
<1>3. TransportPresent("udp") <=> good
  BY <1>1, AtTransport DEF TransportPresent, ValidTransport, TransportEnd, available
<1>4. ~TransportPresent("tcp") /\ ~TransportPresent("icmp")
  BY <1>1, AtTransport DEF TransportPresent
<1>5. \/ good /\ info' = info \cup {"has_ports", "has_udp"}
      \/ ~good /\ info' \in {info \cup {"malformed"}, info \cup {"truncated"}}
  BY <1>1 DEF ParseUdp, Refuse, Finish
<1>6. /\ info' \subseteq Flags /\ "has_ethernet" \in info' /\ "has_ipv4" \in info'
      /\ info' \cap Layers \subseteq {"has_ethernet", "has_ipv4", "has_udp"}
      /\ "has_udp" \in info' <=> good
  BY <1>1, <1>5, AtTransport DEF Flags, Layers
<1>7. ExactIn(info')
  BY <1>1, <1>3, <1>4, <1>6, TransportExact DEF Layers
<1> QED
  BY <1>1, <1>2, <1>6, <1>7, Finished DEF Clean, Layers

LEMMA TcpStep ==
  ASSUME ParserInv, ParseTcp
  PROVE  ParserInv'
<1> DEFINE good == TcpBytes >= TcpHeader /\ available >= TcpBytes
<1>1. /\ stage = "tcp" /\ packet' = packet /\ stage' = "done" /\ offset' = offset
      /\ available \in Int /\ TcpBytes \in Nat
  BY AtTransport DEF ParseTcp, TcpCutShort, Refuse, Finish, available
<1>2. touched' \in Nat /\ touched' <= packet.captured
  BY <1>1, AtTransport, ReadsWithin DEF ParseTcp
<1>3. TransportPresent("tcp") <=> good
  <2>1. packet.dataOffset >= 5 <=> TcpBytes >= TcpHeader
    BY <1>1, AtTransport DEF TcpBytes
  <2> QED
    BY <1>1, <2>1, AtTransport DEF TransportPresent, ValidTransport, TransportEnd, available
<1>4. ~TransportPresent("udp") /\ ~TransportPresent("icmp")
  BY <1>1, AtTransport DEF TransportPresent
<1>5. \/ good /\ info' = info \cup {"has_ports", "has_tcp"}
      \/ ~good /\ info' \in {info \cup {"malformed"}, info \cup {"truncated"}}
  BY <1>1 DEF ParseTcp, TcpCutShort, Refuse, Finish
<1>6. /\ info' \subseteq Flags /\ "has_ethernet" \in info' /\ "has_ipv4" \in info'
      /\ info' \cap Layers \subseteq {"has_ethernet", "has_ipv4", "has_tcp"}
      /\ "has_tcp" \in info' <=> good
  BY <1>1, <1>5, AtTransport DEF Flags, Layers
<1>7. ExactIn(info')
  BY <1>1, <1>3, <1>4, <1>6, TransportExact DEF Layers
<1>8. info \cap {"malformed", "truncated"} = {}
  BY <1>1, FragmentFlagsOnly DEF ParserInv, LayerInv
<1>9. Clean(info')
  BY <1>5, <1>6, <1>8 DEF Clean
<1> QED
  BY <1>1, <1>2, <1>6, <1>7, <1>9, Finished

-----------------------------------------------------------------------------
LEMMA Inductive == ParserInv /\ [Next]_vars => ParserInv'
<1> SUFFICES ASSUME ParserInv, [Next]_vars PROVE ParserInv'
  OBVIOUS
<1>1. CASE UNCHANGED vars
  <2>1. UNCHANGED <<packet, stage, offset, info, touched>>
    BY <1>1 DEF vars
  <2>2. IhlBytes' = IhlBytes /\ TcpBytes' = TcpBytes /\ FragmentFlags' = FragmentFlags
    BY <2>1 DEF IhlBytes, TcpBytes, FragmentFlags
  <2>3. Ipv4End' = Ipv4End /\ ValidIpv4' = ValidIpv4
    BY <2>1, <2>2 DEF Ipv4End, ValidIpv4
  <2>4. ValidTransport' = ValidTransport /\ TransportEnd' = TransportEnd
    BY <2>1, <2>2, <2>3 DEF ValidTransport, TransportEnd
  <2>5. \A layer \in Layers : Present(layer)' = Present(layer)
    BY <2>1, <2>3, <2>4 DEF Present, TransportPresent
  <2>6. TypeOK' /\ NoOverread' /\ Clean(info')
    BY <2>1 DEF ParserInv, TypeOK, NoOverread, Clean
  <2>7. LayerInv'
    BY <2>1, <2>2, <2>3 DEF ParserInv, LayerInv
  <2>8. LayersExact'
    BY <2>1, <2>5 DEF ParserInv, LayersExact
  <2> QED
    BY <2>1, <2>6, <2>7, <2>8 DEF ParserInv, Clean
<1> QED
  BY <1>1, EthernetStep, ArpStep, Ipv4Step, IcmpStep, TcpStep, UdpStep DEF Next, Done

THEOREM ParserInvAlways == Spec => []ParserInv
BY InitInv, Inductive, PTL DEF Spec

(* parser.c:75,90,109,124,155,185,197,255: whatever lengths the headers    *)
(* claim, no byte beyond the captured ones is read and no layer begins     *)
(* beyond them.                                                            *)
THEOREM NoOverreadAlways == Spec => []NoOverread
<1>1. ParserInv => NoOverread
  BY DEF ParserInv
<1> QED
  BY <1>1, ParserInvAlways, PTL

(* A layer is reported exactly when its whole header was captured and is   *)
(* valid, and so are the layers below.                                     *)
THEOREM LayersExactAlways == Spec => []LayersExact
<1>1. ParserInv => LayersExact
  BY DEF ParserInv
<1> QED
  BY <1>1, ParserInvAlways, PTL

(* No SYN counts towards a scan that the rules did not report as TCP,      *)
(* although the detector does not ask whether the packet was broken.       *)
THEOREM CountedIsReportedAlways == Spec => []CountedIsReported
<1>1. ParserInv => CountedIsReported
  <2> SUFFICES ASSUME ParserInv, stage = "done", Counted
               PROVE  Class \in {"tcp", "ssh"}
    BY DEF CountedIsReported
  <2>1. "has_tcp" \in info /\ info \cap {"malformed", "truncated"} = {}
    BY DEF Counted, ParserInv, Clean
  <2>2. Present("has_tcp")
    BY <2>1 DEF ParserInv, LayersExact, Layers
  <2>3. packet.protocol = "tcp" /\ packet.etherType = "ipv4"
    BY <2>2 DEF Present, TransportPresent, ValidTransport, ValidIpv4
  <2>4. ~Present("has_arp") /\ ~Present("is_ipv6_observed") /\ ~Present("has_icmp")
    BY <2>3 DEF Present, TransportPresent
  <2>5. "has_arp" \notin info /\ "is_ipv6_observed" \notin info /\ "has_icmp" \notin info
    BY <2>4 DEF ParserInv, LayersExact, Layers
  <2> QED
    BY <2>1, <2>5 DEF Class
<1> QED
  BY <1>1, ParserInvAlways, PTL
=============================================================================
