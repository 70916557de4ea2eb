------------------------------ MODULE MCNetmon ------------------------------
(* Model values for the run of the packet pipeline.                        *)
EXTENDS NetmonProperties, TLC

CONSTANTS s1, s2, ssh, web, a1

MCSources == {s1, s2}
MCPorts == {ssh, web}
MCTries == {a1}
MCPlain == {"icmp_echo", "broken"}
MCForward == {1}
MCSymmetry == Permutations(MCSources)
=============================================================================
