SPECIFICATION FairSpec
CONSTANTS
  o = o
  w1 = w1
  w2 = w2
  t1 = t1
  t2 = t2
  Orchestrators = {o}
  Workers = {w1, w2}
  Callers = {o, w1, w2}
  Tasks = {t1, t2}
  SubjectOf <- MCSubjectOf
  ScopesOf <- MCScopesOf
  Policies <- MCPolicies
  FirstPolicy <- MCFirstPolicy
  Undeclared = Undeclared
  Nobody = Nobody
  PageSize = 2
  Addressee <- MCAddressee
  Handles <- MCHandles
  Reliable = {w1}
  Crews <- MCCrews
  Rounds = 2
  Asks <- MCAsks
  NoJob = NoJob
  MaxFaults = 1
INVARIANTS TypeOK AckedIsAnswered NoResultLost PostsWereAllowed
PROPERTIES ImplementsLog EventuallyCollected
