SPECIFICATION Spec
CONSTANTS
  Lines = {1}
  Threads = {}
  MaxSignals = 1
INVARIANTS HandlerUsesOpenCapture
