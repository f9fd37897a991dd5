SPECIFICATION AdvancingSpec
CONSTANTS
  EpochCalls <- ThreeEpochs
  SourceCalls <- Sources
  WorkerCalls <- Workers
  WorkloadCalls <- Workloads
  BaselineCalls <- AuthorityBaselines
  ObservationCalls <- Observations
  RecoveryCalls <- NoCalls
  CompareCalls <- AuthorityCompares
INVARIANTS
  TypeOK
  CellsOfThisEpochStand
  EvidenceServesOneEpoch
PROPERTIES
  RevocationIsPermanent
  RebornSourceIsNotTrusted
  AuthorityRefined
