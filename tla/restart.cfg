SPECIFICATION RestartSpec
CONSTANTS
  EpochCalls <- TwoEpochs
  SourceCalls <- NoCalls
  WorkerCalls <- NoCalls
  WorkloadCalls <- NoCalls
  BaselineCalls <- StoredBaselines
  ObservationCalls <- NoCalls
  RecoveryCalls <- StoredRecoveries
  CompareCalls <- StoredCompares
  Digest <- DigestOf
INVARIANTS
  MatrixIsOnRecord
  EvidenceIsPublished
  CellsOfThisEpochStand
  AttributionIsEarned
PROPERTIES
  SaveIsAtomic
