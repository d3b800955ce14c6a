---------------------------- MODULE DesignPricing -----------------------------
(***************************************************************************)
(* Designs: a customer fills in the fields of a template, the submission   *)
(* is validated and stored for good, and every quote of it validates the   *)
(* stored values again, since the template changes behind the API.         *)
(*                                                                         *)
(* A request reads the template and its fields in two SELECTs, and a       *)
(* creation then inserts and commits.  Between these others commit (READ   *)
(* COMMITTED), so they are steps of their own.  Of requests one at a time  *)
(* is modelled: they meet in the catalog alone, which none of them writes. *)
(* Left out: amounts and quantities, which are those of products           *)
(* (CatalogPricing), and extra fields of a quote.                          *)
(***************************************************************************)
EXTENDS Naturals

CONSTANTS
  Customers,     \* user ids
  Designs,       \* design ids
  Templates,     \* template ids
  FieldNames,    \* field_name values
  FieldShapes,   \* field_type and allowed_values a template_fields row may have
  Values,        \* values a customization may submit
  MaxFields,     \* bound on the rows of template_fields
  None           \* NULL

(* SUPPORTED_FIELD_TYPES *)
SupportedFieldTypes == {"text", "select", "number", "boolean"}

(***************************************************************************)
(* What validation tells apart in a submitted JSON value: strings that     *)
(* strip to nothing or not, numbers, booleans, and null, arrays or objects.*)
(***************************************************************************)
Strings == {"blank", "word", "other_word"}
JsonValues == Strings \cup {"number", "boolean", "null"}

FieldShape ==
  [field_type : SupportedFieldTypes \cup {"unknown"},
   allowed_values : {None} \cup SUBSET Strings]

ASSUME DesignAssumption ==
  /\ FieldShapes \subseteq FieldShape
  /\ Values \subseteq JsonValues
  /\ MaxFields \in Nat
  /\ \A list \in SUBSET Strings : None # list
  /\ None \notin {"unavailable", "rejected"}

VARIABLES
  templates,   \* the templates table, each with its product's is_active
  fields,      \* the template_fields table in the order of display
  designs,     \* the designs table
  request      \* the request in progress, or the answer to the last one

vars == <<templates, fields, designs, request>>

Template == [is_active : BOOLEAN, product_is_active : BOOLEAN]

(* A row; one that is not active is like one that does not exist.          *)
TemplateField ==
  [template : Templates, field_name : FieldNames, is_required : BOOLEAN,
   shape : FieldShapes]

(* customization_values *)
Customization == UNION {[names -> Values] : names \in SUBSET FieldNames}

Design == [customer : Customers, template : Templates, values : Customization]

(* 201, 200 with a quote, 404, the design_configuration_unavailable of     *)
(* both endpoints, every other 400, and 500.                               *)
Answers == {"created", "quoted", "not_found", "unavailable", "rejected", "failed"}

Request ==
  [kind : {"answered"}, answer : Answers \cup {None}]
  \cup [kind : {"create", "save"}, customer : Customers, template : Templates,
        values : Customization]
  \cup [kind : {"quote"}, customer : Customers, design : Designs]

DesignTypeOK ==
  /\ templates \in [Templates -> Template]
  /\ fields \in [1..MaxFields -> TemplateField \cup {None}]
  /\ designs \in [Designs -> Design \cup {None}]
  /\ request \in Request

Answered(answer) == [kind |-> "answered", answer |-> answer]

-------------------------------------------------------------------------------
(* Validation                                                              *)

(***************************************************************************)
(* get_active_fields_for_template.  The query joins the template as it is  *)
(* now: one that is no longer active has no fields.                        *)
(***************************************************************************)
ActiveFields(t) ==
  {i \in 1..MaxFields :
     /\ fields[i] # None
     /\ fields[i].template = t
     /\ templates[t].is_active}

Name(i) == fields[i].field_name
Type(i) == fields[i].shape.field_type
Allowed(i) == fields[i].shape.allowed_values

(* Mutant: of two fields with one name the second is taken.                *)
HasSupportedTypes(rows) == \A i \in rows : Type(i) \in SupportedFieldTypes

(* _index_template_fields *)
CanBeIndexed(rows) ==
  /\ \A i \in rows : Type(i) \in SupportedFieldTypes
  /\ \A i, j \in rows : Name(i) = Name(j) => i = j

(* allowed_values that are wrong for the field_type.                       *)
Misconfigured(i) ==
  IF Type(i) = "select" THEN Allowed(i) \in {None, {}} ELSE Allowed(i) # None

(* What _validate_field_value asks of the value of a sound field.          *)
Accepts(i, v) ==
  CASE Type(i) = "text" -> v \in Strings /\ ~(fields[i].is_required /\ v = "blank")
    [] Type(i) = "select" -> v \in Strings \cap Allowed(i) /\ ~(fields[i].is_required /\ v = "blank")
    [] Type(i) = "number" -> v = "number"
    [] Type(i) = "boolean" -> v = "boolean"

(* Mutant: one error for a bad value and for a bad field.                  *)
FieldUnavailable(i, v) ==
  IF v = "null" \/ Misconfigured(i) \/ ~Accepts(i, v) THEN "unavailable" ELSE None

(* _validate_field_value: None, or how the customization is turned down.   *)
FieldError(i, v) ==
  CASE v = "null" -> "rejected"
    [] v # "null" /\ Misconfigured(i) -> "unavailable"
    [] v # "null" /\ ~Misconfigured(i) /\ ~Accepts(i, v) -> "rejected"
    [] OTHER -> None

First(rows) == CHOOSE i \in rows : \A j \in rows : i <= j

(***************************************************************************)
(* validate_customization on the fields the query returned: None, or the   *)
(* answer of POST /designs to the error.  Only fields with a submitted     *)
(* value are looked into, in the order of display.                         *)
(***************************************************************************)
ValidationError(rows, values) ==
  LET unknown == {n \in DOMAIN values : \A i \in rows : Name(i) # n}
      missing == {i \in rows : fields[i].is_required /\ Name(i) \notin DOMAIN values}
      wrong == {i \in rows : /\ Name(i) \in DOMAIN values
                             /\ FieldError(i, values[Name(i)]) # None}
  IN
  CASE ~CanBeIndexed(rows) -> "unavailable"
    [] CanBeIndexed(rows) /\ unknown \cup missing # {} -> "rejected"
    [] CanBeIndexed(rows) /\ unknown \cup missing = {} /\ wrong # {}
         -> FieldError(First(wrong), values[Name(First(wrong))])
    [] OTHER -> None

(* Mutant: an optional field without a value is stored as NULL.            *)
AcceptedOrNull(rows, values) ==
  [n \in {Name(i) : i \in rows} |-> IF n \in DOMAIN values THEN values[n] ELSE None]

(* The values that validate_customization returns, field by field.         *)
AcceptedValues(rows, values) ==
  [n \in {Name(i) : i \in rows} \cap DOMAIN values |-> values[n]]

-------------------------------------------------------------------------------
(* Requests                                                                *)

Init ==
  /\ templates \in [Templates -> Template]
  /\ fields \in [1..MaxFields -> TemplateField \cup {None}]
  /\ designs = [d \in Designs |-> None]
  /\ request = Answered(None)

(* POST /designs finds the template active, or answers that it is unknown. *)
StartCreation(c, t, values) ==
  /\ request.kind = "answered"
  /\ \E d \in Designs : designs[d] = None
  /\ request' = IF templates[t].is_active
                THEN [kind |-> "create", customer |-> c, template |-> t, values |-> values]
                ELSE Answered("not_found")
  /\ UNCHANGED <<templates, fields, designs>>

(* ... validates the submission on the fields it reads now.                *)
ValidateCreation ==
  /\ request.kind = "create"
  /\ LET rows == ActiveFields(request.template)
         error == ValidationError(rows, request.values)
     IN
     request' = IF error # None
                THEN Answered(error)
                ELSE [kind |-> "save", customer |-> request.customer,
                      template |-> request.template,
                      values |-> AcceptedValues(rows, request.values)]
  /\ UNCHANGED <<templates, fields, designs>>

(* ... inserts what was accepted and commits; it reads nothing again.      *)
StoreDesign(d) ==
  /\ request.kind = "save"
  /\ designs[d] = None
  /\ designs' = [designs EXCEPT ![d] =
       [customer |-> request.customer, template |-> request.template,
        values |-> request.values]]
  /\ request' = Answered("created")
  /\ UNCHANGED <<templates, fields>>

(* The insert or its commit fails and is rolled back.                      *)
CreationFails ==
  /\ request.kind = "save"
  /\ request' = Answered("failed")
  /\ UNCHANGED <<templates, fields, designs>>

(***************************************************************************)
(* POST /pricing/quotes loads the design by id and owner, with its         *)
(* template and product, and turns it down if either is inactive.          *)
(***************************************************************************)
StartQuote(c, d) ==
  /\ request.kind = "answered"
  /\ LET found == designs[d] # None /\ designs[d].customer = c IN
     request' =
       CASE ~found -> Answered("not_found")
         [] found /\ ~(/\ templates[designs[d].template].is_active
                       /\ templates[designs[d].template].product_is_active)
              -> Answered("rejected")
         [] OTHER -> [kind |-> "quote", customer |-> c, design |-> d]
  /\ UNCHANGED <<templates, fields, designs>>

(* Mutant: what was validated once is not validated again.                 *)
FinishQuoteAsStored ==
  /\ request.kind = "quote"
  /\ request' \in {Answered("quoted"), Answered("rejected")}
  /\ UNCHANGED <<templates, fields, designs>>

(***************************************************************************)
(* ... validates the stored values, then asks the provider, whose answer   *)
(* may be any.  The session still has the template it loaded (its identity *)
(* map is not refreshed), while the fields are read anew.                  *)
(***************************************************************************)
FinishQuote ==
  /\ request.kind = "quote"
  /\ LET design == designs[request.design] IN
       IF ValidationError(ActiveFields(design.template), design.values) = None
       THEN request' \in {Answered("quoted"), Answered("rejected")}
       ELSE request' = Answered("unavailable")
  /\ UNCHANGED <<templates, fields, designs>>

(* Behind the API: a template, product or field is changed or withdrawn.   *)
CatalogChanges ==
  /\ \/ /\ \E t \in Templates, row \in Template : templates' = [templates EXCEPT ![t] = row]
        /\ UNCHANGED fields
     \/ /\ \E i \in 1..MaxFields, row \in TemplateField \cup {None} :
             fields' = [fields EXCEPT ![i] = row]
        /\ UNCHANGED templates
  /\ UNCHANGED <<designs, request>>

Next ==
  \/ \E c \in Customers, t \in Templates, values \in Customization :
       StartCreation(c, t, values)
  \/ ValidateCreation
  \/ \E d \in Designs : StoreDesign(d)
  \/ CreationFails
  \/ \E c \in Customers, d \in Designs : StartQuote(c, d)
  \/ FinishQuote
  \/ CatalogChanges

Spec == Init /\ [][Next]_vars

-------------------------------------------------------------------------------
(* Properties                                                              *)

(***************************************************************************)
(* docs/planning/templates-designs.md, the customization contract: every   *)
(* submitted key maps to exactly one active field of the template, whose   *)
(* type and list the value fits, and every required field has a value.     *)
(***************************************************************************)
TemplateRows(t) == {i \in 1..MaxFields : fields[i] # None /\ fields[i].template = t}

FitsTemplate(values, t) ==
  /\ \A n \in DOMAIN values :
       \E i \in TemplateRows(t) :
         /\ \A j \in TemplateRows(t) : Name(j) = n <=> j = i
         /\ Type(i) \in SupportedFieldTypes
         /\ ~Misconfigured(i)
         /\ Accepts(i, values[n])
  /\ \A i \in TemplateRows(t) : fields[i].is_required => Name(i) \in DOMAIN values

(***************************************************************************)
(* A design is stored only as one customer submitted it and validation let *)
(* it pass, and what passes fits the template as its fields are read, if   *)
(* that is still active.  That it fits when it is committed is not said,   *)
(* nor true: between validation and commit the catalog may change, and     *)
(* nothing is read again.                                                  *)
(***************************************************************************)
StoredDesignsWereValid ==
  [][ /\ request' # request /\ request'.kind = "save" =>
           /\ request.kind = "create"
           /\ request' = [request EXCEPT !.kind = "save"]
           /\ templates[request.template].is_active =>
                FitsTemplate(request.values, request.template)
      /\ \A d \in Designs : designs'[d] # designs[d] =>
           /\ designs[d] = None
           /\ request.kind = "save"
           /\ designs'[d] = [customer |-> request.customer, template |-> request.template,
                             values |-> request.values]
    ]_vars

(***************************************************************************)
(* A quote goes to the owner of the design alone, and while the template   *)
(* stays active only for values that fit its fields as they are read for   *)
(* this quote: what creation accepted is not relied on, since it may not   *)
(* have fitted even when it was stored.                                    *)
(***************************************************************************)
QuotedDesignsFit ==
  [][ request.kind = "quote" /\ request' = Answered("quoted") =>
        LET design == designs[request.design] IN
        /\ design.customer = request.customer
        /\ templates[design.template].is_active =>
             FitsTemplate(design.values, design.template)
    ]_vars

(***************************************************************************)
(* Errors are blamed on the right side: a customer is told that the        *)
(* configuration is at fault (409) only if some field of the template is   *)
(* malformed or ambiguous, and that the customization is (400) only if it  *)
(* does not fit, whichever of several errors is found first.  Again while  *)
(* the template stays active: a value for a template that is withdrawn     *)
(* meanwhile is turned down as one for a field it never had.               *)
(***************************************************************************)
SoundConfiguration(t) ==
  /\ CanBeIndexed(TemplateRows(t))
  /\ \A i \in TemplateRows(t) : ~Misconfigured(i)

ErrorsAreBlamedRightly ==
  [][ request.kind = "create" /\ templates[request.template].is_active =>
        /\ request' = Answered("unavailable") => ~SoundConfiguration(request.template)
        /\ request' = Answered("rejected") => ~FitsTemplate(request.values, request.template)
    ]_vars
===============================================================================
