SPECIFICATION FairSpec
CONSTANTS
  Uri = {d1, d2}
  AnalysisKey = {"package"}
  analysis_key_for_uri <- OnePackage
  MaxHandlers = 2
  MaxEvents = 3
  MAX_BLOCKING_ANALYSES = 1
  MAX_PENDING_DIAGNOSTIC_PUBLICATIONS = 1
INVARIANTS
  ServerTypeOK
  EditorAgrees
  OnlyRegisteredRuns
PROPERTIES
  NeverGoesBack
  CommitIsCurrent
  ComesToRest
CHECK_DEADLOCK FALSE
