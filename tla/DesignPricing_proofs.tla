------------------------- MODULE DesignPricing_proofs -------------------------
(***************************************************************************)
(* What validation accepts and whom it blames, for templates of any number *)
(* of fields, and what follows for stored and for quoted designs.          *)
(***************************************************************************)
EXTENDS DesignPricing, WellFoundedInduction, TLAPS

-------------------------------------------------------------------------------
(* Validation                                                              *)

(* A row that First chooses is one of those it was given.                  *)
LEMMA FirstIsRow ==
  ASSUME NEW rows \in SUBSET Nat, rows # {}
  PROVE  First(rows) \in rows
<1>1. PICK i \in rows : \A j \in rows : <<j, i>> \notin OpToRel(<, Nat)
  BY NatLessThanWellFounded, WFMin, Zenon
<1>2. \A j \in rows : ~ (j < i)
  BY <1>1 DEF OpToRel
<1>3. \A j \in rows : i <= j
  BY <1>2
<1>4. QED
  BY <1>3 DEF First

(***************************************************************************)
(* _validate_field_value on a field of a known type: null is wrong for     *)
(* each of them, and a malformed field is found before a wrong value.      *)
(***************************************************************************)
LEMMA FieldErrors ==
  ASSUME NEW i, NEW v, Type(i) \in SupportedFieldTypes
  PROVE  /\ FieldError(i, v) \in {None, "rejected", "unavailable"}
         /\ FieldError(i, v) = None <=> ~Misconfigured(i) /\ Accepts(i, v)
         /\ FieldError(i, v) = "rejected" => ~Accepts(i, v)
         /\ FieldError(i, v) = "unavailable" => Misconfigured(i)
<1>1. None # "rejected" /\ None # "unavailable"
  BY DesignAssumption
<1>2. Accepts(i, v) \in BOOLEAN /\ Misconfigured(i) \in BOOLEAN
  <2>1. CASE Type(i) = "text"
    BY <2>1 DEF Accepts, Misconfigured
  <2>2. CASE Type(i) = "select"
    BY <2>2 DEF Accepts, Misconfigured
  <2>3. CASE Type(i) = "number"
    BY <2>3 DEF Accepts, Misconfigured
  <2>4. CASE Type(i) = "boolean"
    BY <2>4 DEF Accepts, Misconfigured
  <2>5. QED
    BY <2>1, <2>2, <2>3, <2>4 DEF SupportedFieldTypes
<1>3. ~Accepts(i, "null")
  BY DEF Accepts, SupportedFieldTypes, Strings
<1>4. CASE v = "null"
  BY <1>1, <1>3, <1>4 DEF FieldError
<1>5. CASE v # "null"
  BY <1>1, <1>2, <1>5 DEF FieldError
<1>6. QED
  BY <1>4, <1>5

(* What is wrong with a submission, apart from its fields' configuration.  *)
Unknown(rows, values) == {n \in DOMAIN values : \A i \in rows : Name(i) # n}
Missing(rows, values) == {i \in rows : fields[i].is_required /\ Name(i) \notin DOMAIN values}
Wrong(rows, values) ==
  {i \in rows : Name(i) \in DOMAIN values /\ FieldError(i, values[Name(i)]) # None}

(***************************************************************************)
(* validate_customization accepts what has no error; if it blames the      *)
(* configuration, some field is at fault, and if it blames the submission, *)
(* a name or a value is.                                                   *)
(***************************************************************************)
LEMMA ValidationErrors ==
  ASSUME NEW rows \in SUBSET Nat, NEW values
  PROVE  /\ ValidationError(rows, values) \in {None, "rejected", "unavailable"}
         /\ ValidationError(rows, values) = None <=>
              /\ CanBeIndexed(rows)
              /\ Unknown(rows, values) \cup Missing(rows, values) = {}
              /\ Wrong(rows, values) = {}
         /\ ValidationError(rows, values) = "unavailable" =>
              ~CanBeIndexed(rows) \/ \E i \in rows : Misconfigured(i)
         /\ ValidationError(rows, values) = "rejected" =>
              /\ CanBeIndexed(rows)
              /\ \/ Unknown(rows, values) \cup Missing(rows, values) # {}
                 \/ \E i \in rows : Name(i) \in DOMAIN values /\ ~Accepts(i, values[Name(i)])
<1> DEFINE bad == Unknown(rows, values) \cup Missing(rows, values)
           wrong == Wrong(rows, values)
           error == FieldError(First(wrong), values[Name(First(wrong))])
<1>1. None # "rejected" /\ None # "unavailable" /\ CanBeIndexed(rows) \in BOOLEAN
  BY DesignAssumption DEF CanBeIndexed
<1>2. ValidationError(rows, values) =
        CASE ~CanBeIndexed(rows) -> "unavailable"
          [] CanBeIndexed(rows) /\ bad # {} -> "rejected"
          [] CanBeIndexed(rows) /\ bad = {} /\ wrong # {} -> error
          [] OTHER -> None
  BY DEF ValidationError, Unknown, Missing, Wrong
<1>3. ASSUME CanBeIndexed(rows), wrong # {}
      PROVE  /\ First(wrong) \in rows /\ Name(First(wrong)) \in DOMAIN values
             /\ error \in {"rejected", "unavailable"}
             /\ error = "rejected" => ~Accepts(First(wrong), values[Name(First(wrong))])
             /\ error = "unavailable" => Misconfigured(First(wrong))
  <2>1. wrong \in SUBSET Nat
    BY DEF Wrong
  <2>2. First(wrong) \in wrong
    BY <1>3, <2>1, FirstIsRow
  <2>3. Type(First(wrong)) \in SupportedFieldTypes
    BY <1>3, <2>2 DEF CanBeIndexed, Wrong
  <2>4. QED
    BY <2>2, <2>3, FieldErrors DEF Wrong
<1> HIDE DEF bad, wrong, error
<1>4. CASE ~CanBeIndexed(rows)
  BY <1>1, <1>2, <1>4
<1>5. CASE CanBeIndexed(rows) /\ bad # {}
  BY <1>1, <1>2, <1>5 DEF bad
<1>6. CASE CanBeIndexed(rows) /\ bad = {} /\ wrong # {}
  <2>1. ValidationError(rows, values) = error
    BY <1>2, <1>6
  <2>2. QED
    BY <1>1, <1>3, <1>6, <2>1 DEF wrong
<1>7. CASE CanBeIndexed(rows) /\ bad = {} /\ wrong = {}
  BY <1>1, <1>2, <1>7 DEF bad, wrong
<1>8. QED
  BY <1>1, <1>4, <1>5, <1>6, <1>7

LEMMA ActiveTemplateRows ==
  ASSUME NEW t, templates[t].is_active
  PROVE  ActiveFields(t) = TemplateRows(t)
BY DEF ActiveFields, TemplateRows

LEMMA RowsAreNumbers ==
  ASSUME NEW t
  PROVE  ActiveFields(t) \in SUBSET Nat
BY DesignAssumption DEF ActiveFields

(***************************************************************************)
(* While the template is active, what validation accepts fits it.          *)
(***************************************************************************)
LEMMA AcceptedFits ==
  ASSUME NEW t, NEW values, templates[t].is_active,
         ValidationError(ActiveFields(t), values) = None
  PROVE  FitsTemplate(values, t)
<1> DEFINE rows == ActiveFields(t)
<1>1. /\ CanBeIndexed(rows)
      /\ Unknown(rows, values) = {} /\ Missing(rows, values) = {} /\ Wrong(rows, values) = {}
  BY RowsAreNumbers, ValidationErrors
<1>2. rows = TemplateRows(t)
  BY ActiveTemplateRows
<1> HIDE DEF rows
<1>3. ASSUME NEW n \in DOMAIN values
      PROVE  \E i \in rows :
               /\ \A j \in rows : Name(j) = n <=> j = i
               /\ Type(i) \in SupportedFieldTypes
               /\ ~Misconfigured(i)
               /\ Accepts(i, values[n])
  <2>1. PICK i \in rows : Name(i) = n
    BY <1>1 DEF Unknown
  <2>2. Type(i) \in SupportedFieldTypes /\ \A j \in rows : Name(j) = n <=> j = i
    BY <1>1, <2>1 DEF CanBeIndexed
  <2>3. FieldError(i, values[n]) = None
    BY <1>1, <2>1 DEF Wrong
  <2>4. QED
    BY <2>2, <2>3, FieldErrors
<1>4. \A i \in rows : fields[i].is_required => Name(i) \in DOMAIN values
  BY <1>1 DEF Missing
<1>5. QED
  BY <1>2, <1>3, <1>4 DEF FitsTemplate

(* ... and a submission that is blamed for it does not.                    *)
LEMMA RejectedDoesNotFit ==
  ASSUME NEW t, NEW values, templates[t].is_active,
         ValidationError(ActiveFields(t), values) = "rejected"
  PROVE  ~FitsTemplate(values, t)
<1> DEFINE rows == ActiveFields(t)
<1>1. \/ Unknown(rows, values) \cup Missing(rows, values) # {}
      \/ \E i \in rows : Name(i) \in DOMAIN values /\ ~Accepts(i, values[Name(i)])
  BY RowsAreNumbers, ValidationErrors
<1>2. rows = TemplateRows(t)
  BY ActiveTemplateRows
<1> HIDE DEF rows
<1>3. QED
  BY <1>1, <1>2 DEF FitsTemplate, Unknown, Missing

(***************************************************************************)
(* Nothing is dropped from, added to or changed in an accepted submission. *)
(***************************************************************************)
LEMMA AcceptedAsSubmitted ==
  ASSUME NEW rows \in SUBSET Nat, NEW values \in Customization,
         ValidationError(rows, values) = None
  PROVE  AcceptedValues(rows, values) = values
<1>1. Unknown(rows, values) = {}
  BY ValidationErrors
<1>2. {Name(i) : i \in rows} \cap DOMAIN values = DOMAIN values
  BY <1>1 DEF Unknown
<1>3. values = [n \in DOMAIN values |-> values[n]]
  BY DEF Customization
<1>4. QED
  BY <1>2, <1>3 DEF AcceptedValues

-------------------------------------------------------------------------------
(* The invariant                                                           *)

(***************************************************************************)
(* The quote in progress is of a stored design of the customer who asks.   *)
(***************************************************************************)
DesignInv ==
  /\ DesignTypeOK
  /\ request.kind = "quote" =>
       designs[request.design] # None
       /\ designs[request.design].customer = request.customer

LEMMA CreateRequest ==
  ASSUME NEW r \in Request, r.kind \in {"create", "save"}
  PROVE  r.customer \in Customers /\ r.template \in Templates /\ r.values \in Customization
BY DEF Request

LEMMA QuoteRequest ==
  ASSUME NEW r \in Request, r.kind = "quote"
  PROVE  r.customer \in Customers /\ r.design \in Designs
BY DEF Request

LEMMA AnsweredRequest ==
  ASSUME NEW answer \in Answers \cup {None}
  PROVE  Answered(answer) \in Request /\ Answered(answer).kind = "answered"
BY DEF Answered, Request

(* A submission that passed validation waits to be stored.                 *)
LEMMA AcceptedRequest ==
  ASSUME NEW c \in Customers, NEW t \in Templates, NEW values \in Customization
  PROVE  [kind |-> "save", customer |-> c, template |-> t, values |-> values] \in Request
BY DEF Request

LEMMA CreateRecord ==
  ASSUME NEW r \in Request, r.kind = "create"
  PROVE  [r EXCEPT !.kind = "save"] =
           [kind |-> "save", customer |-> r.customer, template |-> r.template,
            values |-> r.values]
BY DEF Request

ValidationPasses ==
  ValidationError(ActiveFields(request.template), request.values) = None

(* validate_customization returns what was submitted, or raises.           *)
LEMMA PassedCreation ==
  ASSUME request \in Request, ValidateCreation, ValidationPasses
  PROVE  request' = [request EXCEPT !.kind = "save"] /\ request'.kind = "save"
<1> DEFINE rows == ActiveFields(request.template)
<1>1. request.kind = "create" /\ request.values \in Customization
  BY CreateRequest DEF ValidateCreation
<1>2. AcceptedValues(rows, request.values) = request.values
  BY <1>1, RowsAreNumbers, AcceptedAsSubmitted DEF ValidationPasses
<1>3. request' = [kind |-> "save", customer |-> request.customer,
                  template |-> request.template,
                  values |-> AcceptedValues(rows, request.values)]
  BY DEF ValidateCreation, ValidationPasses
<1> HIDE DEF rows
<1>4. QED
  BY <1>1, <1>2, <1>3, CreateRecord

LEMMA RefusedCreation ==
  ASSUME ValidateCreation, ~ValidationPasses
  PROVE  \E error \in {"rejected", "unavailable"} :
           /\ ValidationError(ActiveFields(request.template), request.values) = error
           /\ request' = Answered(error)
<1> DEFINE error == ValidationError(ActiveFields(request.template), request.values)
<1>1. error \in {None, "rejected", "unavailable"} /\ error # None
  BY RowsAreNumbers, ValidationErrors DEF ValidationPasses
<1>2. request' = Answered(error)
  BY <1>1 DEF ValidateCreation
<1> HIDE DEF error
<1>3. error \in {"rejected", "unavailable"}
  BY <1>1
<1>4. QED
  BY <1>2, <1>3 DEF error

LEMMA DesignInvStep ==
  ASSUME DesignInv, [Next]_vars
  PROVE  DesignInv'
<1>1. ASSUME NEW c \in Customers, NEW t \in Templates, NEW values \in Customization,
             StartCreation(c, t, values)
      PROVE  DesignInv'
  <2> DEFINE r == [kind |-> "create", customer |-> c, template |-> t, values |-> values]
  <2>1. r \in Request /\ r.kind = "create"
    BY DEF Request
  <2>2. request' \in Request /\ request'.kind # "quote"
    <3> HIDE DEF r
    <3>1. request' = r \/ request' = Answered("not_found")
      BY <1>1 DEF StartCreation, r
    <3>2. QED
      BY <2>1, <3>1, AnsweredRequest DEF Answers
  <2>3. QED
    BY <1>1, <2>2 DEF StartCreation, DesignInv, DesignTypeOK
<1>2. CASE ValidateCreation
  <2>1. request' \in Request /\ request'.kind # "quote"
    <3>1. CASE ValidationPasses
      <4>1. [request EXCEPT !.kind = "save"] \in Request
        <5>1. request \in Request /\ request.kind = "create"
          BY <1>2 DEF ValidateCreation, DesignInv, DesignTypeOK
        <5>2. /\ request.customer \in Customers /\ request.template \in Templates
              /\ request.values \in Customization
          BY <5>1, CreateRequest
        <5>3. [kind |-> "save", customer |-> request.customer, template |-> request.template,
               values |-> request.values] \in Request
          BY <5>2, AcceptedRequest
        <5>4. QED
          BY <5>1, <5>3, CreateRecord
      <4>2. request'.kind = "save"
        BY <1>2, <3>1, PassedCreation DEF DesignInv, DesignTypeOK
      <4>3. QED
        BY <1>2, <3>1, <4>1, <4>2, PassedCreation DEF DesignInv, DesignTypeOK
    <3>2. CASE ~ValidationPasses
      BY <1>2, <3>2, RefusedCreation, AnsweredRequest DEF Answers
    <3>3. QED
      BY <3>1, <3>2
  <2>2. UNCHANGED <<templates, fields, designs>>
    BY <1>2 DEF ValidateCreation
  <2>3. QED
    BY <2>1, <2>2 DEF DesignInv, DesignTypeOK
<1>3. ASSUME NEW d \in Designs, StoreDesign(d)
      PROVE  DesignInv'
  <2> DEFINE design == [customer |-> request.customer, template |-> request.template,
                        values |-> request.values]
  <2>1. design \in Design
    BY <1>3, CreateRequest DEF StoreDesign, DesignInv, DesignTypeOK, Design
  <2>2. designs' = [designs EXCEPT ![d] = design] /\ request' = Answered("created")
        /\ UNCHANGED <<templates, fields>>
    BY <1>3 DEF StoreDesign
  <2> HIDE DEF design
  <2>3. QED
    BY <2>1, <2>2, AnsweredRequest DEF DesignInv, DesignTypeOK, Answers
<1>4. CASE CreationFails
  BY <1>4, AnsweredRequest DEF CreationFails, DesignInv, DesignTypeOK, Answers
<1>5. ASSUME NEW c \in Customers, NEW d \in Designs, StartQuote(c, d)
      PROVE  DesignInv'
  <2> DEFINE r == [kind |-> "quote", customer |-> c, design |-> d]
  <2>1. r \in Request /\ r.design = d /\ r.customer = c
    BY DEF Request
  <2>2. \/ request' = r /\ designs[d] # None /\ designs[d].customer = c
        \/ request' \in {Answered("not_found"), Answered("rejected")}
    BY <1>5 DEF StartQuote
  <2>3. UNCHANGED <<templates, fields, designs>>
    BY <1>5 DEF StartQuote
  <2> HIDE DEF r
  <2>4. QED
    BY <2>1, <2>2, <2>3, AnsweredRequest DEF DesignInv, DesignTypeOK, Answers
<1>6. CASE FinishQuote
  <2>1. request' \in {Answered("quoted"), Answered("rejected"), Answered("unavailable")}
        /\ UNCHANGED <<templates, fields, designs>>
    BY <1>6 DEF FinishQuote
  <2>2. QED
    BY <2>1, AnsweredRequest DEF DesignInv, DesignTypeOK, Answers
<1>7. CASE CatalogChanges
  BY <1>7 DEF CatalogChanges, DesignInv, DesignTypeOK
<1>8. CASE UNCHANGED vars
  BY <1>8 DEF vars, DesignInv, DesignTypeOK
<1>9. QED
  BY <1>1, <1>2, <1>3, <1>4, <1>5, <1>6, <1>7, <1>8 DEF Next

LEMMA DesignInvCorrect == Spec => []DesignInv
<1>1. Init => DesignInv
  BY AnsweredRequest DEF Init, DesignInv, DesignTypeOK
<1>2. QED
  BY <1>1, DesignInvStep, PTL DEF Spec

(***************************************************************************)
(* Templates, fields, designs and requests keep their types; above all,    *)
(* each value of a stored design is one that was submitted for a field.    *)
(***************************************************************************)
THEOREM DesignsTypeCorrect == Spec => []DesignTypeOK
<1>1. DesignInv => DesignTypeOK
  BY DEF DesignInv
<1>2. QED
  BY <1>1, DesignInvCorrect, PTL

-------------------------------------------------------------------------------
(* Designs                                                                 *)

(***************************************************************************)
(* create_design stores a submission unchanged, once, after validation has *)
(* let it pass, and validation passes only what fits the template's fields *)
(* at the time of the second SELECT, unless the template has been          *)
(* deactivated by then.  Of the time of the commit nothing is claimed.     *)
(***************************************************************************)
THEOREM OnlyValidDesignsAreStored == Spec => StoredDesignsWereValid
<1> DEFINE Passed ==
      request' # request /\ request'.kind = "save" =>
        /\ request.kind = "create"
        /\ request' = [request EXCEPT !.kind = "save"]
        /\ templates[request.template].is_active =>
             FitsTemplate(request.values, request.template)
    Stored ==
      \A d \in Designs : designs'[d] # designs[d] =>
        /\ designs[d] = None
        /\ request.kind = "save"
        /\ designs'[d] = [customer |-> request.customer, template |-> request.template,
                          values |-> request.values]
<1>1. ASSUME DesignInv, [Next]_vars, request' # request, request'.kind = "save"
      PROVE  /\ request.kind = "create"
             /\ request' = [request EXCEPT !.kind = "save"]
             /\ templates[request.template].is_active =>
                  FitsTemplate(request.values, request.template)
  <2>1. request \in Request
    BY <1>1 DEF DesignInv, DesignTypeOK
  <2>2. ValidateCreation
    <3>1. CASE \E c \in Customers, t \in Templates, values \in Customization :
                 StartCreation(c, t, values)
      BY <1>1, <3>1 DEF StartCreation, Answered
    <3>2. CASE \E d \in Designs : StoreDesign(d)
      BY <1>1, <3>2 DEF StoreDesign, Answered
    <3>3. CASE CreationFails
      BY <1>1, <3>3 DEF CreationFails, Answered
    <3>4. CASE \E c \in Customers, d \in Designs : StartQuote(c, d)
      BY <1>1, <3>4 DEF StartQuote, Answered
    <3>5. CASE FinishQuote
      BY <1>1, <3>5 DEF FinishQuote, Answered
    <3>6. CASE CatalogChanges \/ UNCHANGED vars
      BY <1>1, <3>6 DEF CatalogChanges, vars
    <3>7. QED
      BY <1>1, <3>1, <3>2, <3>3, <3>4, <3>5, <3>6 DEF Next
  <2>3. ValidationPasses
    BY <1>1, <2>2, RefusedCreation, AnsweredRequest DEF Answers
  <2>4. templates[request.template].is_active => FitsTemplate(request.values, request.template)
    BY <2>3, AcceptedFits DEF ValidationPasses
  <2>5. QED
    BY <2>1, <2>2, <2>3, <2>4, PassedCreation DEF ValidateCreation
<1>2. ASSUME DesignInv, [Next]_vars, NEW d \in Designs, designs'[d] # designs[d]
      PROVE  /\ designs[d] = None
             /\ request.kind = "save"
             /\ designs'[d] = [customer |-> request.customer, template |-> request.template,
                               values |-> request.values]
  <2>1. PICK e \in Designs : StoreDesign(e)
    BY <1>2 DEF Next, vars, StartCreation, ValidateCreation, CreationFails, StartQuote,
                FinishQuote, CatalogChanges
  <2>2. e = d
    BY <1>2, <2>1 DEF StoreDesign, DesignInv, DesignTypeOK
  <2>3. QED
    BY <1>2, <2>1, <2>2 DEF StoreDesign, DesignInv, DesignTypeOK
<1>3. DesignInv /\ [Next]_vars => [Passed /\ Stored]_vars
  BY <1>1, <1>2
<1>4. QED
  BY <1>3, DesignInvCorrect, PTL DEF Spec, StoredDesignsWereValid

(***************************************************************************)
(* _validate_design_pricing quotes to the owner alone, and values that fit *)
(* the fields it reads, whatever they were when the design was made.       *)
(***************************************************************************)
THEOREM DesignsFitWhenQuoted == Spec => QuotedDesignsFit
<1> DEFINE Fits ==
      request.kind = "quote" /\ request' = Answered("quoted") =>
        LET design == designs[request.design] IN
        /\ design.customer = request.customer
        /\ templates[design.template].is_active =>
             FitsTemplate(design.values, design.template)
<1>1. DesignInv /\ [Next]_vars => [Fits]_vars
  <2> SUFFICES ASSUME DesignInv, [Next]_vars, request.kind = "quote",
                      request' = Answered("quoted")
               PROVE  /\ designs[request.design].customer = request.customer
                      /\ templates[designs[request.design].template].is_active =>
                           FitsTemplate(designs[request.design].values,
                                        designs[request.design].template)
    OBVIOUS
  <2>1. request' # request
    BY AnsweredRequest DEF Answers
  <2>2. FinishQuote
    BY <2>1 DEF Next, vars, StartCreation, ValidateCreation, StoreDesign, CreationFails,
                StartQuote, CatalogChanges
  <2>3. ValidationError(ActiveFields(designs[request.design].template),
                        designs[request.design].values) = None
    BY <2>2 DEF FinishQuote, Answered
  <2>4. QED
    BY <2>3, AcceptedFits DEF DesignInv
<1>2. QED
  BY <1>1, DesignInvCorrect, PTL DEF Spec, QuotedDesignsFit

(***************************************************************************)
(* POST /designs answers design_configuration_unavailable only for a       *)
(* template with a field at fault, and blames the customization only if it *)
(* does not fit, in whichever order the errors are found.                  *)
(***************************************************************************)
THEOREM BlameIsRight == Spec => ErrorsAreBlamedRightly
<1> DEFINE Right ==
      request.kind = "create" /\ templates[request.template].is_active =>
        /\ request' = Answered("unavailable") => ~SoundConfiguration(request.template)
        /\ request' = Answered("rejected") => ~FitsTemplate(request.values, request.template)
<1>1. DesignInv /\ [Next]_vars => [Right]_vars
  <2> SUFFICES ASSUME DesignInv, [Next]_vars, request.kind = "create",
                      templates[request.template].is_active,
                      NEW error \in {"unavailable", "rejected"}, request' = Answered(error)
               PROVE  /\ error = "unavailable" => ~SoundConfiguration(request.template)
                      /\ error = "rejected"
                           => ~FitsTemplate(request.values, request.template)
    BY DEF Answered
  <2>1. request' # request /\ request' # Answered("failed") /\ request' # Answered("created")
    BY DEF Answered
  <2>2. ValidateCreation
    BY <2>1 DEF Next, vars, StartCreation, StoreDesign, CreationFails, StartQuote,
                FinishQuote, CatalogChanges
  <2>3. ValidationError(ActiveFields(request.template), request.values) = error
    <3>1. ~ValidationPasses
      BY <2>2, PassedCreation DEF DesignInv, DesignTypeOK, Answered
    <3>2. QED
      BY <2>2, <3>1, RefusedCreation DEF Answered
  <2>4. error = "unavailable" => ~SoundConfiguration(request.template)
    BY <2>3, RowsAreNumbers, ValidationErrors, ActiveTemplateRows DEF SoundConfiguration
  <2>5. QED
    BY <2>3, <2>4, RejectedDoesNotFit
<1>2. QED
  BY <1>1, DesignInvCorrect, PTL DEF Spec, ErrorsAreBlamedRightly
===============================================================================
