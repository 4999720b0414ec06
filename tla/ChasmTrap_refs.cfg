SPECIFICATION Spec
CONSTANTS
  orders = orders  returns = returns  archive = archive  customers = customers
  regions = regions  id = id  customer_id = customer_id  buyer_id = buyer_id
  region_id = region_id  order_id = order_id  created_at = created_at  reason = reason
  title = title  amount = amount  balance = balance
  None = None
  TimeColumn = {created_at}
  Measured = {amount, customer_id, balance}
  Entity <- MCEntity
  Fact <- MCFact
  Table <- MCTable
  TableOf <- MCTableOf
  CteName <- MCCteName
  Column <- MCColumn
  Columns <- MCColumns
  Dimension <- MCDimension
  Plans <- MCPlans
INVARIANTS
  ReferencesMeant
CHECK_DEADLOCK FALSE
