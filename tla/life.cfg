SPECIFICATION FairSpec
CONSTANTS
  Lines = {1, 2, 3}
  Threads = {"led", "display"}
  MaxSignals = 3
INVARIANTS ExitsClean DevicesApart
PROPERTIES ReverseOrder BreakExits
