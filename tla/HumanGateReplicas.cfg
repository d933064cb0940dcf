SPECIFICATION SharedSpec
CONSTANTS
  c1 = c1
  c2 = c2
  c3 = c3
  g1 = g1
  g2 = g2
  alice = alice
  bob = bob
  agent = agent
  Callers = {c1, c2, c3}
  Gates = {g1, g2}
  Humans = {alice, bob}
  Services = {agent}
  Nobody = Nobody
  NoGate = NoGate
  MaxOpenings = 2
  Locked = FALSE
INVARIANT DecidedOnce
CHECK_DEADLOCK FALSE
