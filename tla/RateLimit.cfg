SPECIFICATION LimiterSpec
CONSTANTS
  a = a
  b = b
  Threads = {a, b}
  MaxCalls = 2
  Second = 2
  Window = 3
  MaxDelay = 2
  MaxTime = 5
  Never = Never
SYMMETRY MCSymmetry
INVARIANTS LimiterTypeOK WindowBudget RefusedOnlyWhenFull
CHECK_DEADLOCK FALSE
