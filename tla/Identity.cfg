SPECIFICATION Spec
CONSTANTS
  c1 = c1  c2 = c2  c3 = c3  c4 = c4  r1 = r1  k1 = k1
  None = None
  Name = {"admin", "ann", "bob"}
  Admin = "admin"
  Password = {"first", "empty"}
  SeedPassword = "first"
  Usable = {"first"}
  Client = {c1, c2, c3, c4, r1}
  Connection = {k1}
  Reader = {r1}
  Parties <- MCParties
  Wanted <- MCWanted
  Logins <- MCLogins
  Expiry = 1
  Latency = 1
  MaxTime = 5
  PerPage = 1
  Width = 8
INVARIANTS
  TypeOK
  WritersWereAdmins
  WalkSeesEveryone
PROPERTIES
  SessionsVerified
  ImplementsAccounts
SYMMETRY MCSymmetry
