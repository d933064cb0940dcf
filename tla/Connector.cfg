SPECIFICATION FairSpec
CONSTANTS
  a = a
  b = b
  nobody = nobody
  Threads = {a, b}
  Scenes <- MCScenes
  MaxIssued = 3
  MaxRetries = 1
  FailureThreshold = 2
  ResetAfter = 2
INVARIANTS TypeOK RenewalIsTransparent DisconnectSticks HitsWhileOpen
PROPERTIES BreakerRecovers
