--------------------------- MODULE MCDesignPricing ----------------------------
(* Small instances of DesignPricing.                                        *)
EXTENDS DesignPricing, TLC

(* Sound and malformed fields with and without a list, and of no known type.*)
MCFieldShapes ==
  {[field_type |-> "text", allowed_values |-> None],
   [field_type |-> "text", allowed_values |-> {"word"}],
   [field_type |-> "select", allowed_values |-> {"word"}],
   [field_type |-> "select", allowed_values |-> {}],
   [field_type |-> "number", allowed_values |-> None],
   [field_type |-> "unknown", allowed_values |-> None]}

(* Customers and field names are only compared.                             *)
DesignSymmetry == Permutations(Customers) \cup Permutations(FieldNames)
===============================================================================
