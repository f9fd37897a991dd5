SPECIFICATION CoordinatorSpec
CONSTANTS
  EpochCalls <- SavedOrNext
  SourceCalls <- NoCalls
  WorkerCalls <- NoCalls
  WorkloadCalls <- NoCalls
  BaselineCalls <- NoCalls
  ObservationCalls <- NoCalls
  RecoveryCalls <- NoCalls
  CompareCalls <- NoCalls
  Digest <- DigestOf
  Rounds = 4
  Mortal <- OnlyA
  MaxDeaths = 1
  MaxIncarnations = 1
CHECK_DEADLOCK FALSE
INVARIANT CounterfactualIsMeasured
