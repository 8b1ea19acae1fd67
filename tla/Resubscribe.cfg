\* A bot registers again without the body of the schema it subscribes to.
SPECIFICATION Spec
CONSTANTS
  s1 = s1
  s2 = s2
  x = x
  y = y
  op = op
  p = p
  q = q
  b1 = b1
  b2 = b2
  None = None
  Invalid = Invalid
  Sessions = {s1, s2, op}
  Ids = {x, y, op}
  Operators = {op}
  Schemas = {p, q}
  Bodies = {b1, b2}
  Shipped <- OneShipped
  WorkerIds = {x}
  BotIds = {x, y}
  BotRequests <- ReturningBots
  SchemaRequests <- SomeSchemas
INVARIANT SubscriptionsAreServed
