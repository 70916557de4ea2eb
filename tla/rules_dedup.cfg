SPECIFICATION HSpec
CONSTANTS
  k1 = k1
  k2 = k2
  k3 = k3
  Attempts <- MCAttempts
  DedupSeconds = 2
  StartTime = 0
  ClockSteps <- MCForward
  MaxTime = 7
  MaxPackets = 6
SYMMETRY MCSymmetry
INVARIANTS SilencedWasAlerted
PROPERTIES SshAlertSpacing ImplementsDedup
CHECK_DEADLOCK FALSE
