SPECIFICATION CoordinatorSpec
CONSTANTS
  EpochCalls <- SavedOrNext
  SourceCalls <- NoCalls
  WorkerCalls <- NoCalls
  WorkloadCalls <- NoCalls
  BaselineCalls <- NoCalls
  ObservationCalls <- NoCalls
  RecoveryCalls <- NoCalls
  CompareCalls <- NoCalls
  Digest <- DigestOf
  Rounds = 4
  Mortal <- Fragile
  MaxDeaths = 2
  MaxIncarnations = 2
CHECK_DEADLOCK FALSE
INVARIANTS
  AnswersMatchCommands
  LostAnswersDoNotDilute
  RestartRevokes
  OnlyFinishedScriptsAreSaved
PROPERTIES
  VerdictsRestOnLiveBoots
  
  ScriptEnds
  WorkersEnd
