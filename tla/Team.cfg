SPECIFICATION Spec
CONSTANTS
  provisioner = provisioner
  c = c
  d = d
  t1 = t1
  t2 = t2
  k1 = k1
  k2 = k2
  s = s
  Callers = {provisioner, c, d}
  Provisioner = provisioner
  Tokens = {t1, t2}
  Keys = {k1, k2}
  FirstKeys = {k1}
  Subject <- MCSubject
  Kid <- MCKid
  Granted <- MCGranted
  IsService <- MCIsService
  Names <- MCNames
  Scopes = {s}
  CacheSize = 1
  Ttl = 2
  ErrorRetry = 1
  MaxFetch = 1
  Deployments <- MCDeployments
  Processes = 2
  MaxEvents = 2
  NoToken = NoToken
  NoSpec = NoSpec
INVARIANTS TypeOK RevokedStaysOut NoOrphans
PROPERTIES KeysFollowTheProvider
SYMMETRY MCSymmetry
