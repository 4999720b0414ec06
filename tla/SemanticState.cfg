SPECIFICATION FairSpec
CONSTANTS
  Loader = {l1, l2}
  Reader = {r1, r2}
  WriterPreferred = TRUE
  None = None
  sales = sales  sales2 = sales2  people = people  broken = broken
  orders = orders  invoices = invoices  users = users
  nSales = nSales  nPeople = nPeople
  Doc <- MCDoc
  Dirs <- MCDirs
  Valid <- MCValid
  Name <- MCName
  Entity <- MCEntity
  NameOf <- MCNameOf
  Entities <- MCEntities
  Joins <- MCJoins
INVARIANTS
  GraphOfHeldRevision
  QueryRouted
PROPERTIES
  ImplementsRegistry
  RevisionsImmutable
  LoadsEnd
