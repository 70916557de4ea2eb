SPECIFICATION Spec
CONSTANTS
  s1 = s1
  s2 = s2
  ssh = ssh
  web = web
  a1 = a1
  Sources <- MCSources
  Ports <- MCPorts
  SshPort = ssh
  Tries <- MCTries
  PlainPackets <- MCPlain
  Window = 1
  Threshold = 2
  DedupSeconds = 1
  QueueCapacity = 1
  StartTime = 2
  ClockSteps <- MCForward
  MaxTime = 4
  MaxPackets = 3
SYMMETRY MCSymmetry
INVARIANTS TotalsMatchLog PageTruthful PatternsFollowLog
CHECK_DEADLOCK FALSE
