\* Every revision up and down, while three payments, a design and a template
\* are written and removed.
SPECIFICATION Spec
CONSTANTS
  Null = Null
  c1 = c1
  c2 = c2
  p1 = p1
  p2 = p2
  k1 = k1
  Customers = {c1, c2}
  Products = {p1, p2}
  DesignIds = {1}
  TemplateIds = {1}
  PaymentIds = {1, 2, 3}
  EventKeys = {k1}
INVARIANTS
  SchemaTypeOK
  SchemaMatchesItsRevision
  MigrationsInventNoOwner
  OnlyOtherWritersStopTheContract
PROPERTIES
  ContractFollowsInspection
