\* Two customers and the design of a template whose fields change.
SPECIFICATION Spec
CONSTANTS
  None = None
  Customers = {c1, c2}
  Designs = {d1}
  Templates = {t1}
  FieldNames = {n1, n2}
  FieldShapes <- MCFieldShapes
  Values = {"blank", "word", "number", "null"}
  MaxFields = 2
SYMMETRY DesignSymmetry
INVARIANTS
  DesignTypeOK
PROPERTIES
  StoredDesignsWereValid
  QuotedDesignsFit
  ErrorsAreBlamedRightly
