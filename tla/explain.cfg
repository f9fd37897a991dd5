SPECIFICATION Spec
CONSTANTS
  EpochCalls <- TwoEpochs
  SourceCalls <- NoCalls
  WorkerCalls <- NoCalls
  WorkloadCalls <- NoCalls
  BaselineCalls <- AttributionBaselines
  ObservationCalls <- NoCalls
  RecoveryCalls <- AttributionRecoveries
  CompareCalls <- AttributionCompares
INVARIANT
  ExplanationsAreRevalidated
