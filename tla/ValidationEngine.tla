--------------------------- MODULE ValidationEngine ---------------------------
(***************************************************************************)
(* The deterministic validation engine (validation/engine.py) and the      *)
(* contract of the reference data it is given (validation/business_data.py)*)
(* as constant operators.                                                  *)
(*                                                                         *)
(* A draft is the record [ref, name, po, ordered, delivery, currency,      *)
(* lines]; a line is [sku, qty, price]; every field but lines may be None. *)
(* Reference data is the record [customers, products]: the candidates found*)
(* for the identity of the draft, and one product or None per line.  Dates *)
(* are days and decimals are integers: the rules only compare them.        *)
(***************************************************************************)
EXTENDS Integers, Sequences

CONSTANTS
  None,                 \* a field without a value
  SupportedCurrencies,  \* policy.supported_currencies
  TolerancePercent,     \* policy.price_tolerance_fraction, in percent
  HighValueThreshold    \* policy.high_value_threshold

ASSUME NoneAssumption == None \notin Int \cup SupportedCurrencies
ASSUME PolicyAssumption ==
  /\ SupportedCurrencies # {}
  /\ TolerancePercent \in Nat
  /\ HighValueThreshold \in Nat

\* _add_issue: the finding of one rule, for the order (line 0) or for a line.
Flag(broken, rule, line) == IF broken THEN {<<rule, line>>} ELSE {}

Warnings == {"HIGH_VALUE_APPROVAL_REQUIRED"}
Errors(issues) == {issue \in issues : issue[1] \notin Warnings}

Distance(a, b) == IF a < b THEN b - a ELSE a - b

WithinTolerance(submitted, catalogue) ==
  100 * Distance(submitted, catalogue) <= catalogue * TolerancePercent
------------------------------------------------------------------------------
\* Mutant: products are not matched with the SKU of their line.
AnswersCustomerOnly(draft, data) ==
  /\ DOMAIN data.products = DOMAIN draft.lines
  /\ \A c \in data.customers :
       IF draft.ref # None THEN c.ref = draft.ref
       ELSE draft.name # None /\ c.name = draft.name

\* validate_trusted_business_data: the data answers this draft and no other.
AnswersDraft(draft, data) ==
  /\ DOMAIN data.products = DOMAIN draft.lines
  /\ \A a, b \in data.customers : a.ref = b.ref => a = b
  /\ \A c \in data.customers :
       IF draft.ref # None THEN c.ref = draft.ref
       ELSE draft.name # None /\ c.name = draft.name
  /\ \A i \in DOMAIN draft.lines :
       data.products[i] # None =>
         draft.lines[i].sku # None /\ data.products[i].sku = draft.lines[i].sku

CustomerIssues(draft, data) ==
  IF draft.ref = None /\ draft.name = None
    THEN {<<"CUSTOMER_REQUIRED", 0>>}
  ELSE IF data.customers = {} THEN {<<"UNKNOWN_CUSTOMER", 0>>}
  ELSE IF \E a, b \in data.customers : a # b THEN {<<"AMBIGUOUS_CUSTOMER", 0>>}
  ELSE Flag(\E c \in data.customers : ~c.active, "INACTIVE_CUSTOMER", 0)

HasCustomer(draft, data) == CustomerIssues(draft, data) = {}
Customer(data) == CHOOSE c \in data.customers : TRUE

\* The rules about the order as a whole; facts are the two answers of
\* build_validation_facts and today is the evaluation date.
OrderIssues(draft, data, facts, today) ==
  UNION
  { Flag(draft.po = None, "PO_NUMBER_REQUIRED", 0),
    Flag(draft.po # None /\ HasCustomer(draft, data) /\ facts.duplicate,
         "DUPLICATE_CUSTOMER_PO", 0),
    Flag(facts.processed, "DOCUMENT_ALREADY_PROCESSED", 0),
    Flag(draft.ordered = None, "ORDER_DATE_REQUIRED", 0),
    Flag(draft.ordered # None /\ draft.ordered > today,
         "ORDER_DATE_IN_FUTURE", 0),
    Flag(draft.delivery = None, "DELIVERY_DATE_REQUIRED", 0),
    Flag(draft.delivery # None /\ draft.delivery < today,
         "DELIVERY_DATE_IN_PAST", 0),
    Flag(/\ draft.delivery # None /\ draft.ordered # None
         /\ draft.delivery < draft.ordered, "DELIVERY_BEFORE_ORDER_DATE", 0),
    Flag(draft.currency = None, "CURRENCY_REQUIRED", 0),
    Flag(draft.currency \notin SupportedCurrencies \cup {None},
         "UNSUPPORTED_CURRENCY", 0),
    Flag(draft.lines = <<>>, "ORDER_LINES_REQUIRED", 0) }

\* _append_line_issues, for line i.
LineIssues(draft, data, i) ==
  LET line    == draft.lines[i]
      product == IF line.sku = None THEN None ELSE data.products[i]
      known   == product # None
      asks    == line.qty # None /\ line.qty > 0
      offers  == line.price # None /\ line.price >= 0
      usable  == draft.currency \in SupportedCurrencies
      inCurrency == known /\ product.currency = draft.currency
  IN  UNION
      { Flag(line.sku = None, "SKU_REQUIRED", i),
        Flag(line.sku # None /\ ~known, "UNKNOWN_SKU", i),
        Flag(known /\ ~product.active, "INACTIVE_SKU", i),
        Flag(line.qty = None, "QUANTITY_REQUIRED", i),
        Flag(line.qty # None /\ ~asks, "QUANTITY_NOT_POSITIVE", i),
        Flag(asks /\ known /\ product.stock = None, "INVENTORY_UNAVAILABLE", i),
        Flag(asks /\ known /\ product.stock # None /\ line.qty > product.stock,
             "INSUFFICIENT_INVENTORY", i),
        Flag(line.price = None, "SUBMITTED_PRICE_REQUIRED", i),
        Flag(line.price # None /\ ~offers, "SUBMITTED_PRICE_NEGATIVE", i),
        Flag(known /\ product.price = None, "CATALOGUE_PRICE_UNAVAILABLE", i),
        Flag(known /\ usable /\ ~inCurrency, "PRODUCT_CURRENCY_MISMATCH", i),
        Flag(/\ known /\ product.price # None /\ offers /\ usable /\ inCurrency
             /\ ~WithinTolerance(line.price, product.price),
             "PRICE_OUTSIDE_TOLERANCE", i) }
------------------------------------------------------------------------------
\* _compute_total has a value: there are lines and each has a legal quantity
\* and price.
Priced(lines) ==
  /\ lines # <<>>
  /\ \A i \in DOMAIN lines :
       /\ lines[i].qty # None /\ lines[i].qty > 0
       /\ lines[i].price # None /\ lines[i].price >= 0

LineTotals(lines) == [i \in DOMAIN lines |-> lines[i].qty * lines[i].price]

SumOf(values) ==
  LET upTo[n \in 0..Len(values)] == IF n = 0 THEN 0 ELSE upTo[n - 1] + values[n]
  IN  upTo[Len(values)]

Total(lines) == SumOf(LineTotals(lines))

HighValue(lines) == Priced(lines) /\ Total(lines) >= HighValueThreshold

ApprovalIssues(lines) == Flag(HighValue(lines), "HIGH_VALUE_APPROVAL_REQUIRED", 0)

Issues(draft, data, facts, today) ==
  CustomerIssues(draft, data)
    \cup OrderIssues(draft, data, facts, today)
    \cup ApprovalIssues(draft.lines)
    \cup (UNION {LineIssues(draft, data, i) : i \in DOMAIN draft.lines})

\* Mutant: only the customer decides the route.
RouteByCustomer(issues) ==
  IF \E issue \in issues : issue[1] \in {"UNKNOWN_CUSTOMER", "CUSTOMER_REQUIRED"}
    THEN "NEEDS_REVIEW" ELSE "READY_FOR_APPROVAL"

RouteOf(issues) ==
  IF Errors(issues) = {} THEN "READY_FOR_APPROVAL" ELSE "NEEDS_REVIEW"

\* _build_validated_data has a value: its own checks, made from the draft and
\* the data and not from the issues.
Promotable(draft, data) ==
  /\ HasCustomer(draft, data)
  /\ None \notin {draft.po, draft.ordered, draft.delivery, draft.currency}
  /\ draft.lines # <<>>
  /\ \A i \in DOMAIN draft.lines :
       LET line == draft.lines[i]
           product == data.products[i]
       IN  /\ line.sku # None /\ product # None /\ product.active
           /\ line.qty # None /\ line.qty > 0
           /\ line.price # None /\ line.price >= 0
           /\ product.price # None
           /\ product.stock # None /\ line.qty <= product.stock
           /\ product.currency = draft.currency

\* The ValidatedOrderData that promote_validated_data copies to the order.
Promoted(draft, data) ==
  [ ref      |-> Customer(data).ref,
    po       |-> draft.po,
    ordered  |-> draft.ordered,
    delivery |-> draft.delivery,
    currency |-> draft.currency,
    lines    |-> [i \in DOMAIN draft.lines |->
                    [ sku     |-> data.products[i].sku,
                      qty     |-> draft.lines[i].qty,
                      price   |-> draft.lines[i].price,
                      trusted |-> data.products[i].price ]] ]
------------------------------------------------------------------------------
\* approved_order_trusted_data_issues: an approved order against the reference
\* data of the moment.
PreflightLineIssues(order, data, i) ==
  LET line    == order.lines[i]
      product == data.products[i]
      found   == /\ line.sku # None /\ product # None
                 /\ product.sku = line.sku
      inCurrency == product.currency = order.currency
  IN  IF ~found
        THEN Flag(TRUE, IF line.sku = None THEN "SKU_REQUIRED" ELSE "UNKNOWN_SKU", i)
        ELSE UNION
          { Flag(~product.active, "INACTIVE_SKU", i),
            Flag(product.stock = None, "INVENTORY_UNAVAILABLE", i),
            Flag(product.stock # None /\ line.qty > product.stock,
                 "INSUFFICIENT_INVENTORY", i),
            Flag(order.currency # None /\ ~inCurrency,
                 "PRODUCT_CURRENCY_MISMATCH", i),
            Flag(product.price = None, "CATALOGUE_PRICE_UNAVAILABLE", i),
            Flag(/\ product.price # None
                 /\ line.price # None /\ line.price >= 0
                 /\ order.currency \in SupportedCurrencies /\ inCurrency
                 /\ ~WithinTolerance(line.price, product.price),
                 "PRICE_OUTSIDE_TOLERANCE", i) }

\* Mutant: the preflight refuses an order that takes the last unit in stock.
PreflightIssuesStrict(order, data) ==
  UNION {Flag(data.products[i] = None \/ order.lines[i].qty >= data.products[i].stock,
              "INSUFFICIENT_INVENTORY", i) : i \in DOMAIN order.lines}

PreflightIssues(order, data) ==
  LET matching == {c \in data.customers : c.ref = order.ref}
  IN  UNION
      { Flag(order.ref = None, "CUSTOMER_REQUIRED", 0),
        Flag(order.ref # None /\ matching = {}, "UNKNOWN_CUSTOMER", 0),
        Flag(order.ref # None /\ \E a, b \in matching : a # b,
             "AMBIGUOUS_CUSTOMER", 0),
        Flag(/\ order.ref # None
             /\ \E c \in matching : matching = {c} /\ ~c.active,
             "INACTIVE_CUSTOMER", 0),
        Flag(order.currency = None, "CURRENCY_REQUIRED", 0),
        Flag(order.currency \notin SupportedCurrencies \cup {None},
             "UNSUPPORTED_CURRENCY", 0) }
      \cup (UNION {PreflightLineIssues(order, data, i) : i \in DOMAIN order.lines})
==============================================================================
