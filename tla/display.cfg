SPECIFICATION FairSpec
CONSTANTS
  Failures = {"open", "write", "clock", "timer", "snapshot"}
  MaxRevisions = 3
  MaxEvents = 2
  MaxSpurious = 1
  CounterMax = 1
  DigitsMax = 1
INVARIANTS OwnedOnce NothingLeft StartReported
PROPERTIES
  NeverCountsDown ImplementsMailbox StartCompletes DestroyCompletes
  PublishedIsTaken FailureCloses ProducerNeverWaits
