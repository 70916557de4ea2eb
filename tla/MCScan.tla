------------------------------- MODULE MCScan -------------------------------
(* Model values and clock behaviours for the runs of the scan detector.    *)
EXTENDS ScanHistory, TLC

CONSTANTS s1, s2, p1, p2, p3

MCSources == {s1, s2}
MCTwoPorts == {p1, p2}
MCThreePorts == {p1, p2, p3}

MCForward == {1}
MCForwardOrBack == {1, -2}

MCSymmetry2 == Permutations(MCSources) \cup Permutations(MCTwoPorts)
MCSymmetry3 == Permutations(MCSources) \cup Permutations(MCThreePorts)
=============================================================================
