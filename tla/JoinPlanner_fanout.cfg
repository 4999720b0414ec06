SPECIFICATION Spec
CONSTANTS
  orders = orders  returns = returns  buyer = buyer  receiver = receiver  region = region
  tOrders = tOrders  tReturns = tReturns  tUsers = tUsers  tRegions = tRegions
  id = id  buyer_id = buyer_id  payer_id = payer_id
  receiver_id = receiver_id  region_id = region_id  user_id = user_id  order_id = order_id
  None = None
  Entity <- MCEntity
  Table <- MCTable
  Column <- MCColumn
  TableOf <- MCTableOf
  KeyOf <- MCKeyOf
  Fact <- MCFact
  Declared <- MCDeclared
  Numbered <- MCNumbered
INVARIANT SingleFactNoFanOut
CHECK_DEADLOCK FALSE
