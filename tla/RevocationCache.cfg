SPECIFICATION Spec
CONSTANTS
  r1 = r1
  r2 = r2
  a = a
  b = b
  c = c
  s1 = s1
  Replicas = {r1, r2}
  Threads = {a, b, c}
  Home <- MCHome
  Subjects = {s1}
  NoSubject = NoSubject
  TTL = 1
  MaxDelay = 1
  MaxTime = 3
INVARIANTS TypeOK BoundedStaleness
SYMMETRY MCSymmetry
