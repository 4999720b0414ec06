SPECIFICATION FairSpec
CONSTANTS
  m1 = m1  m2 = m2  orders = orders  returns = returns  customers = customers  staff = staff
  day = day  title = title  badge = badge  reason = reason  amount = amount  sales = sales
  refunds = refunds  month = month  era = era  t_orders = t_orders  t_returns = t_returns
  t_people = t_people  role = role  area = area  label = label
  None = None  Blank = Blank
  Model = {m1, m2}
  Entity = {orders, returns, customers, staff}
  Fact = {orders, returns}
  Dimension = {day, title, badge, reason}
  TimeDimension = {day}
  Measure = {amount}
  Metric = {sales, refunds}
  Table = {t_orders, t_returns, t_people}
  Claim = {role, area}
  Granularity = {month, era}
  DatePart = {month}
  MaxRows = 2
  MaxLimit = 3
  Limits = {None, 0, 3, 4}
  TableOf <- MCTableOf
  Columns <- MCColumns
  ColumnOf <- MCColumnOf
  Worlds <- MCWorlds
  Requests <- MCRequests
  Contexts <- MCContexts
  Asks <- MCAsks
INVARIANTS
  SelectedIsJoined
  OwnColumnRead
  PoliciesApplied
  StatusNamesCause
  WholeOrError
PROPERTY Answered
CHECK_DEADLOCK FALSE
