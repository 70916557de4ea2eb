SPECIFICATION FairSpec
CONSTANTS
  QueueCapacity = 2
  DriveMayFail = TRUE
  MaxOffers = 4
  MaxSpurious = 2
INVARIANTS TypeOK NoLostWakeup ResourcesLive NothingLeaked
PROPERTIES ImplementsLedQueue DestroyCompletes AcceptedIsPlayed EnqueueReturns
