SPECIFICATION AdvancingSpec
CONSTANTS
  EpochCalls <- TwoEpochs
  SourceCalls <- NoCalls
  WorkerCalls <- NoCalls
  WorkloadCalls <- NoCalls
  BaselineCalls <- Archive
  ObservationCalls <- NoCalls
  RecoveryCalls <- NoCalls
  CompareCalls <- ArchiveCompares
INVARIANT
  EvidenceServesOneEpoch
