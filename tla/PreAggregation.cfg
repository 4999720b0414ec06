SPECIFICATION Spec
CONSTANTS
  c1 = c1  c2 = c2  s1 = s1  s2 = s2
  Null = Null
  Row <- MCRow
  MaxRows = 3
  Key = {c1, c2}
  Attribute = {s1, s2}
  Links <- MCLinks
  MaxOthers = 2
INVARIANTS
  RewriteExact
  TotalsAgree
CHECK_DEADLOCK FALSE
