SPECIFICATION FairSpec
CONSTANTS
  Caller = {c1, c2}
  SecretName = {warehouse}
  CacheTtl = 2
  TokenTtl = 2
  Latency = 1
  MaxTime = 3
  MaxLogins = 2
  None = None
INVARIANTS
  RefusedNotShared
PROPERTIES
  FreshTokenKept
  StalenessBounded
  CallsEnd
