SPECIFICATION Spec
CONSTANTS
  Pages <- MCPages
  Brightness = 3
  MaxWrites = 2
  MaxFailures = 4
INVARIANTS FrameArrived BusReleased FailureReported
