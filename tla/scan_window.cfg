SPECIFICATION HSpec
CONSTANTS
  s1 = s1
  s2 = s2
  p1 = p1
  p2 = p2
  p3 = p3
  Sources <- MCSources
  Ports <- MCThreePorts
  Window = 2
  Threshold = 2
  StartTime = 3
  ClockSteps <- MCForward
  MaxTime = 9
  MaxSyns = 5
SYMMETRY MCSymmetry3
INVARIANTS CooldownKept NoLivePortForgotten ScanReported
PROPERTIES AlertSpacing MemoryBounded ImplementsPromise
CHECK_DEADLOCK FALSE
