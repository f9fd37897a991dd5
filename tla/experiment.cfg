SPECIFICATION LockingSpec
CONSTANTS
  EpochCalls <- NoCalls
  SourceCalls <- NoCalls
  WorkerCalls <- NoCalls
  WorkloadCalls <- Pair
  BaselineCalls <- NoCalls
  ObservationCalls <- Overlap
  RecoveryCalls <- NoCalls
  CompareCalls <- NoCalls
  Threads = {1, 2}
  Plans <- PairPlan
CHECK_DEADLOCK FALSE
PROPERTY ExperimentsEnd
