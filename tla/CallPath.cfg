SPECIFICATION Spec
CONSTANTS
  th1 = th1
  th2 = th2
  full = full
  bare = bare
  other = other
  forged = forged
  scope = scope
  up = up
  down = down
  Threads = {th1, th2}
  Tokens = {full, bare, other, forged}
  Valid = {full, bare, other}
  SubjectOf <- MCSubjectOf
  ScopesOf <- MCScopesOf
  Listing = Listing
  Searching = Searching
  Names = {"act", "gone"}
  Connectors = {up, down}
  Available = {up}
  Offers <- MCOffers
  Keys = {"k"}
  NoKey = NoKey
  Nothing = Nothing
  Budget = 1
  Faults = {"handler", "upstream", "store", "sink", "ranker", "result", "crash", "expiry"}
  MaxRequests = 3
INVARIANTS TypeOK RevokedIsOut OwnResult RetryNeverReruns AnsweredIsAudited RememberedRan
