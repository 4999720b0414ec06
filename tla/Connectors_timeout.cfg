SPECIFICATION Spec
CONSTANTS
  c1 = c1  c2 = c2
  Caller = {c1, c2}
  None = None
  Upto <- MCUpto
  Kinds = {"postgres"}
  Margin = 1
  MaxTime = 5
  TokenLife = 3
  MaxPolls = 3
  FirstDelay = 1
  MaxDelay = 2
  Lives = {1, 3}
  QueryTimeout = 2
  MaxErrors = 2
INVARIANTS
  QueryWithinTimeout
