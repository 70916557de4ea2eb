------------------------------ MODULE MCParser ------------------------------
(* Packets for TLC: every length at which some header is just complete or  *)
(* just cut, and header fields at, below and above their limits.           *)
EXTENDS ParserProperties

MCLengths == {0, 13, 14, 21, 22, 33, 34, 37, 38, 41, 42, 45, 46, 53, 54, 57, 58, 61, 62}

AnyPacket ==
  [captured : MCLengths, etherType : {"other"}, arpForIpv4 : {FALSE},
   version : {0}, ihl : {0}, totalLength : {0}, protocol : {"other"},
   fragmentOffset : {0}, moreFragments : {FALSE}, dataOffset : {0}, udpLength : {0},
   echo : {FALSE}, toSsh : {FALSE}, syn : {FALSE}, ack : {FALSE}]

MCIpv4 ==
  {[p EXCEPT !.etherType = "ipv4", !.version = h[1], !.ihl = h[2], !.totalLength = t,
             !.fragmentOffset = f, !.moreFragments = m] :
     p \in AnyPacket, h \in {<<4, 4>>, <<4, 5>>, <<4, 6>>, <<6, 5>>}, t \in {19, 20, 24},
     f \in {0, 1}, m \in BOOLEAN}

MCPackets ==
  {[p EXCEPT !.etherType = e, !.arpForIpv4 = a] :
     p \in AnyPacket, e \in EtherTypes \ {"ipv4"}, a \in BOOLEAN}
  \cup MCIpv4
  \cup {[p EXCEPT !.protocol = "icmp", !.echo = e] : p \in MCIpv4, e \in BOOLEAN}
  \cup {[p EXCEPT !.protocol = "udp", !.udpLength = u] : p \in MCIpv4, u \in {7, 8}}
  \cup {[p EXCEPT !.protocol = "tcp", !.dataOffset = d, !.toSsh = s, !.syn = y, !.ack = a] :
          p \in MCIpv4, d \in {4, 5, 6}, s \in BOOLEAN, y \in BOOLEAN, a \in BOOLEAN}
=============================================================================
