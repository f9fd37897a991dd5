SPECIFICATION Spec
CONSTANTS
  Ids = {1, 2, 3}
  Times = {0, 1, 4}
  Values = {0, 1, 99, 100, 102, 150, 200, 300}
  Counts = {1, 2, 3}
  kMaxPayload = 2
INVARIANTS
  ScanSelectsTheNewest
  FreshnessOnlyDecays
  GradesFollowDegradation
  ConfoundersLowerTrust
  DecodeRefusesDamage
