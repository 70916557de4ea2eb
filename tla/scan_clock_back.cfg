SPECIFICATION HSpec
CONSTANTS
  s1 = s1
  s2 = s2
  p1 = p1
  p2 = p2
  p3 = p3
  Sources <- MCSources
  Ports <- MCTwoPorts
  Window = 2
  Threshold = 2
  StartTime = 11
  ClockSteps <- MCForwardOrBack
  MaxTime = 12
  MaxSyns = 4
SYMMETRY MCSymmetry2
INVARIANT ScanReported
CHECK_DEADLOCK FALSE
