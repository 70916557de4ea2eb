SPECIFICATION FairSpec
CONSTANTS
  Lines = {1}
  Threads = {}
  MaxSignals = 1
PROPERTIES StopExits
