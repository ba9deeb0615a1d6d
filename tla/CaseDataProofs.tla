---------------------------- MODULE CaseDataProofs ----------------------------
(***************************************************************************)
(* Proofs about the business data of an order, for every response,         *)
(* candidate, content of the reference system and bound.                   *)
(*                                                                         *)
(* The lemmas first compare the rule lists of the engine with each other:  *)
(* what the routing lets through the construction of the validated data    *)
(* accepts (ReadyDataIsPromotable), the promoted lines have the total of   *)
(* the draft (PromotedTotal), and the preflight of the synchronization     *)
(* accepts the promoted order against the same reference data              *)
(* (PromotedPassesPreflight).  The invariant then says that a request in   *)
(* flight and the stored rows keep the hypotheses of these lemmas.         *)
(***************************************************************************)
EXTENDS CaseData, TLAPS

\* A validation without errors: the data answers the draft, and every issue is
\* a warning.
Clear(draft, data, f, day) ==
  AnswersDraft(draft, data) /\ Errors(Issues(draft, data, f, day)) = {}

\* What the rules test of a customer, of the order and of a line.
LEMMA ClearCustomer ==
  ASSUME NEW draft, NEW data, NEW f, NEW day, Clear(draft, data, f, day)
  PROVE  /\ HasCustomer(draft, data)
         /\ ~ (draft.ref = None /\ draft.name = None)
         /\ \E c \in data.customers :
              /\ data.customers = {c}
              /\ Customer(data) = c
              /\ c.active
<1>1. \A issue \in CustomerIssues(draft, data) : issue[1] \in Warnings
  BY DEF Clear, Errors, Issues
<1>2. ~ (draft.ref = None /\ draft.name = None)
  <2>1. SUFFICES ASSUME draft.ref = None /\ draft.name = None PROVE FALSE
    OBVIOUS
  <2>2. <<"CUSTOMER_REQUIRED", 0>> \in CustomerIssues(draft, data)
    BY <2>1 DEF CustomerIssues
  <2> QED BY <1>1, <2>2 DEF Warnings
<1>3. data.customers # {}
  <2>1. SUFFICES ASSUME data.customers = {} PROVE FALSE
    OBVIOUS
  <2>2. <<"UNKNOWN_CUSTOMER", 0>> \in CustomerIssues(draft, data)
    BY <1>2, <2>1 DEF CustomerIssues
  <2> QED BY <1>1, <2>2 DEF Warnings
<1>4. \A a, b \in data.customers : a = b
  <2>1. SUFFICES ASSUME \E a, b \in data.customers : a # b PROVE FALSE
    OBVIOUS
  <2>2. <<"AMBIGUOUS_CUSTOMER", 0>> \in CustomerIssues(draft, data)
    BY <1>2, <1>3, <2>1 DEF CustomerIssues
  <2> QED BY <1>1, <2>2 DEF Warnings
<1>5. CustomerIssues(draft, data)
        = Flag(\E c \in data.customers : ~c.active, "INACTIVE_CUSTOMER", 0)
  BY <1>2, <1>3, <1>4, Zenon DEF CustomerIssues
<1>6. \A c \in data.customers : c.active
  <2>1. SUFFICES ASSUME \E c \in data.customers : ~c.active PROVE FALSE
    OBVIOUS
  <2>2. <<"INACTIVE_CUSTOMER", 0>> \in CustomerIssues(draft, data)
    BY <1>5, <2>1 DEF Flag
  <2> QED BY <1>1, <2>2 DEF Warnings
<1>7. HasCustomer(draft, data)
  BY <1>5, <1>6 DEF HasCustomer, Flag
<1>8. PICK c \in data.customers : TRUE
  BY <1>3
<1>9. data.customers = {c}
  BY <1>4, <1>8
<1>10. Customer(data) = c
  BY <1>9 DEF Customer
<1> QED BY <1>2, <1>6, <1>7, <1>8, <1>9, <1>10

\* The same for the order as a whole.
LEMMA ClearOrder ==
  ASSUME NEW draft, NEW data, NEW f, NEW day, Clear(draft, data, f, day)
  PROVE  /\ None \notin {draft.po, draft.ordered, draft.delivery, draft.currency}
         /\ draft.currency \in SupportedCurrencies
         /\ draft.lines # <<>>
<1>1. \A rule : <<rule, 0>> \in OrderIssues(draft, data, f, day) => rule \in Warnings
  BY DEF Clear, Errors, Issues
<1>2. draft.po # None
  <2>1. SUFFICES ASSUME draft.po = None PROVE FALSE OBVIOUS
  <2>2. <<"PO_NUMBER_REQUIRED", 0>> \in OrderIssues(draft, data, f, day)
    BY <2>1 DEF OrderIssues, Flag
  <2> QED BY <1>1, <2>2 DEF Warnings
<1>3. draft.ordered # None
  <2>1. SUFFICES ASSUME draft.ordered = None PROVE FALSE OBVIOUS
  <2>2. <<"ORDER_DATE_REQUIRED", 0>> \in OrderIssues(draft, data, f, day)
    BY <2>1 DEF OrderIssues, Flag
  <2> QED BY <1>1, <2>2 DEF Warnings
<1>4. draft.delivery # None
  <2>1. SUFFICES ASSUME draft.delivery = None PROVE FALSE OBVIOUS
  <2>2. <<"DELIVERY_DATE_REQUIRED", 0>> \in OrderIssues(draft, data, f, day)
    BY <2>1 DEF OrderIssues, Flag
  <2> QED BY <1>1, <2>2 DEF Warnings
<1>5. draft.currency # None
  <2>1. SUFFICES ASSUME draft.currency = None PROVE FALSE OBVIOUS
  <2>2. <<"CURRENCY_REQUIRED", 0>> \in OrderIssues(draft, data, f, day)
    BY <2>1 DEF OrderIssues, Flag
  <2> QED BY <1>1, <2>2 DEF Warnings
<1>6. draft.currency \in SupportedCurrencies
  <2>1. SUFFICES ASSUME draft.currency \notin SupportedCurrencies PROVE FALSE OBVIOUS
  <2>2. <<"UNSUPPORTED_CURRENCY", 0>> \in OrderIssues(draft, data, f, day)
    BY <2>1, <1>5 DEF OrderIssues, Flag
  <2> QED BY <1>1, <2>2 DEF Warnings
<1>7. draft.lines # <<>>
  <2>1. SUFFICES ASSUME draft.lines = <<>> PROVE FALSE OBVIOUS
  <2>2. <<"ORDER_LINES_REQUIRED", 0>> \in OrderIssues(draft, data, f, day)
    BY <2>1 DEF OrderIssues, Flag
  <2> QED BY <1>1, <2>2 DEF Warnings
<1> QED BY <1>2, <1>3, <1>4, <1>5, <1>6, <1>7

\* The same for a line.
LEMMA ClearLine ==
  ASSUME NEW draft, NEW data, NEW f, NEW day, Clear(draft, data, f, day),
         NEW i \in DOMAIN draft.lines
  PROVE  LET line == draft.lines[i]
             product == data.products[i]
         IN  /\ line.sku # None /\ product # None /\ product.active
             /\ product.sku = line.sku
             /\ line.qty # None /\ line.qty > 0
             /\ line.price # None /\ line.price >= 0
             /\ product.price # None
             /\ product.stock # None /\ ~(line.qty > product.stock)
             /\ product.currency = draft.currency
             /\ WithinTolerance(line.price, product.price)
<1> DEFINE line == draft.lines[i]
           product == data.products[i]
<1>1. \A rule : <<rule, i>> \in LineIssues(draft, data, i) => rule \in Warnings
  BY DEF Clear, Errors, Issues
<1>2. draft.currency \in SupportedCurrencies
  BY ClearOrder
<1>3. line.sku # None
  <2>1. SUFFICES ASSUME line.sku = None PROVE FALSE OBVIOUS
  <2>2. <<"SKU_REQUIRED", i>> \in LineIssues(draft, data, i)
    BY <2>1 DEF LineIssues, Flag
  <2> QED BY <1>1, <2>2 DEF Warnings
<1>4. product # None
  <2>1. SUFFICES ASSUME product = None PROVE FALSE OBVIOUS
  <2>2. <<"UNKNOWN_SKU", i>> \in LineIssues(draft, data, i)
    BY <1>3, <2>1 DEF LineIssues, Flag
  <2> QED BY <1>1, <2>2 DEF Warnings
<1>5. product.active
  <2>1. SUFFICES ASSUME ~product.active PROVE FALSE OBVIOUS
  <2>2. <<"INACTIVE_SKU", i>> \in LineIssues(draft, data, i)
    BY <1>3, <1>4, <2>1 DEF LineIssues, Flag
  <2> QED BY <1>1, <2>2 DEF Warnings
<1>6. line.qty # None
  <2>1. SUFFICES ASSUME line.qty = None PROVE FALSE OBVIOUS
  <2>2. <<"QUANTITY_REQUIRED", i>> \in LineIssues(draft, data, i)
    BY <2>1 DEF LineIssues, Flag
  <2> QED BY <1>1, <2>2 DEF Warnings
<1>7. line.qty > 0
  <2>1. SUFFICES ASSUME ~(line.qty > 0) PROVE FALSE OBVIOUS
  <2>2. <<"QUANTITY_NOT_POSITIVE", i>> \in LineIssues(draft, data, i)
    BY <1>6, <2>1 DEF LineIssues, Flag
  <2> QED BY <1>1, <2>2 DEF Warnings
<1>8. line.price # None
  <2>1. SUFFICES ASSUME line.price = None PROVE FALSE OBVIOUS
  <2>2. <<"SUBMITTED_PRICE_REQUIRED", i>> \in LineIssues(draft, data, i)
    BY <2>1 DEF LineIssues, Flag
  <2> QED BY <1>1, <2>2 DEF Warnings
<1>9. line.price >= 0
  <2>1. SUFFICES ASSUME ~(line.price >= 0) PROVE FALSE OBVIOUS
  <2>2. <<"SUBMITTED_PRICE_NEGATIVE", i>> \in LineIssues(draft, data, i)
    BY <1>8, <2>1 DEF LineIssues, Flag
  <2> QED BY <1>1, <2>2 DEF Warnings
<1>10. product.price # None
  <2>1. SUFFICES ASSUME product.price = None PROVE FALSE OBVIOUS
  <2>2. <<"CATALOGUE_PRICE_UNAVAILABLE", i>> \in LineIssues(draft, data, i)
    BY <1>3, <1>4, <2>1 DEF LineIssues, Flag
  <2> QED BY <1>1, <2>2 DEF Warnings
<1>11. product.stock # None
  <2>1. SUFFICES ASSUME product.stock = None PROVE FALSE OBVIOUS
  <2>2. <<"INVENTORY_UNAVAILABLE", i>> \in LineIssues(draft, data, i)
    BY <1>3, <1>4, <1>6, <1>7, <2>1 DEF LineIssues, Flag
  <2> QED BY <1>1, <2>2 DEF Warnings
<1>12. ~(line.qty > product.stock)
  <2>1. SUFFICES ASSUME line.qty > product.stock PROVE FALSE OBVIOUS
  <2>2. <<"INSUFFICIENT_INVENTORY", i>> \in LineIssues(draft, data, i)
    BY <1>3, <1>4, <1>6, <1>7, <1>11, <2>1 DEF LineIssues, Flag
  <2> QED BY <1>1, <2>2 DEF Warnings
<1>13. product.currency = draft.currency
  <2>1. SUFFICES ASSUME product.currency # draft.currency PROVE FALSE OBVIOUS
  <2>2. <<"PRODUCT_CURRENCY_MISMATCH", i>> \in LineIssues(draft, data, i)
    BY <1>2, <1>3, <1>4, <2>1 DEF LineIssues, Flag
  <2> QED BY <1>1, <2>2 DEF Warnings
<1>14. WithinTolerance(line.price, product.price)
  <2>1. SUFFICES ASSUME ~WithinTolerance(line.price, product.price) PROVE FALSE
    OBVIOUS
  <2>2. <<"PRICE_OUTSIDE_TOLERANCE", i>> \in LineIssues(draft, data, i)
    BY <1>2, <1>3, <1>4, <1>8, <1>9, <1>10, <1>13, <2>1 DEF LineIssues, Flag
  <2> QED BY <1>1, <2>2 DEF Warnings
<1>15. product.sku = line.sku
  BY <1>3, <1>4 DEF Clear, AnswersDraft
<1> QED
  BY <1>3, <1>4, <1>5, <1>6, <1>7, <1>8, <1>9, <1>10, <1>11, <1>12, <1>13,
     <1>14, <1>15

\* Lines with numbers, and products with a stock that is a number.
Numbers(draft, data) ==
  /\ draft.lines \in Seq({draft.lines[i] : i \in DOMAIN draft.lines})
  /\ \A i \in DOMAIN draft.lines : draft.lines[i].qty \in Int \cup {None}
  /\ \A i \in DOMAIN data.products :
       data.products[i] # None => data.products[i].stock \in Int \cup {None}

\* engine.py routes by the issues and builds the validated data by checks of
\* its own: what the first lets through the second accepts.
LEMMA ReadyDataIsPromotable ==
  ASSUME NEW draft, NEW data, NEW f, NEW day,
         Clear(draft, data, f, day), Numbers(draft, data)
  PROVE  Promotable(draft, data) /\ Priced(draft.lines)
<1>1. DOMAIN data.products = DOMAIN draft.lines
  BY DEF Clear, AnswersDraft
<1>2. ASSUME NEW i \in DOMAIN draft.lines
      PROVE  draft.lines[i].qty <= data.products[i].stock
  <2>1. /\ draft.lines[i].qty # None
        /\ data.products[i] # None
        /\ data.products[i].stock # None
        /\ ~(draft.lines[i].qty > data.products[i].stock)
    BY ClearLine
  <2>2. draft.lines[i].qty \in Int /\ data.products[i].stock \in Int
    BY <1>1, <2>1 DEF Numbers
  <2> QED BY <2>1, <2>2
<1>3. HasCustomer(draft, data)
  BY ClearCustomer
<1>4. /\ None \notin {draft.po, draft.ordered, draft.delivery, draft.currency}
      /\ draft.lines # <<>>
  BY ClearOrder
<1>5. ASSUME NEW i \in DOMAIN draft.lines
      PROVE  LET line == draft.lines[i]
                 product == data.products[i]
             IN  /\ line.sku # None /\ product # None /\ product.active
                 /\ line.qty # None /\ line.qty > 0
                 /\ line.price # None /\ line.price >= 0
                 /\ product.price # None
                 /\ product.stock # None
                 /\ product.currency = draft.currency
  BY ClearLine
<1>6. Promotable(draft, data)
  BY <1>2, <1>3, <1>4, <1>5 DEF Promotable
<1>7. Priced(draft.lines)
  BY <1>4, <1>5 DEF Priced
<1> QED BY <1>6, <1>7

\* The promoted lines are those of the draft, and so is their total.
LEMMA PromotedLines ==
  ASSUME NEW draft, NEW data, NEW f, NEW day,
         Clear(draft, data, f, day), Numbers(draft, data)
  PROVE  LET lines == Promoted(draft, data).lines
         IN  /\ DOMAIN lines = DOMAIN draft.lines
             /\ \A i \in DOMAIN draft.lines :
                  /\ lines[i].sku = draft.lines[i].sku
                  /\ lines[i].qty = draft.lines[i].qty
                  /\ lines[i].price = draft.lines[i].price
             /\ Priced(lines)
             /\ Total(lines) = Total(draft.lines)
<1> DEFINE lines == Promoted(draft, data).lines
<1>1. DOMAIN lines = DOMAIN draft.lines
  BY DEF Promoted
<1>2. ASSUME NEW i \in DOMAIN draft.lines
      PROVE  /\ lines[i].sku = data.products[i].sku
             /\ lines[i].qty = draft.lines[i].qty
             /\ lines[i].price = draft.lines[i].price
  BY DEF Promoted
<1>3. \A i \in DOMAIN draft.lines : data.products[i].sku = draft.lines[i].sku
  BY ClearLine
<1>4. Priced(draft.lines)
  BY ReadyDataIsPromotable
<1>5. 1 \in DOMAIN draft.lines
  BY <1>4 DEF Numbers, Priced
<1>6. lines # <<>>
  BY <1>1, <1>5
<1>7. Priced(lines)
  BY <1>1, <1>2, <1>4, <1>6 DEF Priced
<1>8. LineTotals(lines) = LineTotals(draft.lines)
  BY <1>1, <1>2 DEF LineTotals
<1>9. Total(lines) = Total(draft.lines)
  BY <1>8 DEF Total
<1>10. \A i \in DOMAIN draft.lines : lines[i].sku = draft.lines[i].sku
  BY <1>2, <1>3
<1> QED BY <1>1, <1>2, <1>7, <1>9, <1>10

\* The lookup of the preflight, made in the world that the data came from.
Again(order0, in) == Lookup(in, order0.ref, None, order0.lines)

\* The preflight of the synchronization finds nothing in the promoted order if
\* the reference data is the one the validation read.
LEMMA PromotedPassesPreflight ==
  ASSUME NEW draft, NEW data, NEW f, NEW day, NEW in \in Worlds, NEW asked,
         Clear(draft, data, f, day),
         data = Lookup(in, asked.ref, asked.name, asked.lines)
  PROVE  PreflightIssues(Promoted(draft, data), Again(Promoted(draft, data), in)) = {}
<1> DEFINE sold == Promoted(draft, data)
           again == Again(sold, in)
<1>1. PICK c \in data.customers : Customer(data) = c /\ c.active
  BY ClearCustomer
<1>2. c \in in.customers
  BY <1>1 DEF Lookup
<1>3. sold.ref = c.ref /\ c.ref # None
  BY <1>1, <1>2, WorldsAssumption DEF Promoted
<1>4. again.customers = {c}
  BY <1>2, <1>3, WorldsAssumption DEF Again, Lookup
<1>5. {d \in again.customers : d.ref = sold.ref} = {c}
  BY <1>3, <1>4
<1>6. sold.currency = draft.currency /\ draft.currency \in SupportedCurrencies
  BY ClearOrder DEF Promoted
<1>7. sold.currency # None
  BY ClearOrder, <1>6
<1>8. DOMAIN data.products = DOMAIN draft.lines
      /\ DOMAIN data.products = DOMAIN asked.lines
  BY DEF Clear, AnswersDraft, Lookup
<1>9. DOMAIN sold.lines = DOMAIN draft.lines
  BY DEF Promoted
<1>10. ASSUME NEW i \in DOMAIN draft.lines
       PROVE  again.products[i] = data.products[i]
  <2> DEFINE p == data.products[i]
  <2>1. /\ p # None /\ p.sku = draft.lines[i].sku
    BY ClearLine
  <2>2. i \in DOMAIN asked.lines
    BY <1>8
  <2>3. p = IF \E q \in in.products : q.sku = asked.lines[i].sku
              THEN CHOOSE q \in in.products : q.sku = asked.lines[i].sku
              ELSE None
    <3>1. data.products = [j \in DOMAIN asked.lines |->
             IF \E q \in in.products : q.sku = asked.lines[j].sku
               THEN CHOOSE q \in in.products : q.sku = asked.lines[j].sku
               ELSE None]
      BY DEF Lookup
    <3> QED BY <2>2, <3>1
  <2>4. \E q \in in.products : q.sku = asked.lines[i].sku
    BY <2>1, <2>3
  <2>5. p = (CHOOSE q \in in.products : q.sku = asked.lines[i].sku)
        /\ p \in in.products /\ p.sku = asked.lines[i].sku
    BY <2>3, <2>4
  <2>6. sold.lines[i].sku = asked.lines[i].sku
    BY <2>1, <2>5 DEF Promoted
  <2>7. again.products[i]
          = IF \E q \in in.products : q.sku = sold.lines[i].sku
              THEN CHOOSE q \in in.products : q.sku = sold.lines[i].sku
              ELSE None
    BY <1>9 DEF Again, Lookup
  <2> HIDE DEF p, sold, again
  <2>8. again.products[i] = p
    BY <2>3, <2>6, <2>7
  <2> QED BY <2>8 DEF p
<1>11. ASSUME NEW i \in DOMAIN draft.lines
       PROVE  PreflightLineIssues(sold, again, i) = {}
  <2> DEFINE line == draft.lines[i]
             p == data.products[i]
  <2>1. /\ line.sku # None /\ p # None /\ p.active
        /\ p.sku = line.sku
        /\ line.price # None /\ line.price >= 0
        /\ p.price # None
        /\ p.stock # None /\ ~(line.qty > p.stock)
        /\ p.currency = draft.currency
        /\ WithinTolerance(line.price, p.price)
    BY ClearLine
  <2>2. /\ sold.lines[i].sku = p.sku
        /\ sold.lines[i].qty = line.qty
        /\ sold.lines[i].price = line.price
    BY DEF Promoted
  <2>3. again.products[i] = p
    BY <1>10
  <2> HIDE DEF line, p, sold, again
  <2> QED BY <1>6, <1>7, <2>1, <2>2, <2>3 DEF PreflightLineIssues, Flag
<1> HIDE DEF sold, again
<1>12. UNION {PreflightLineIssues(sold, again, i) : i \in DOMAIN sold.lines} = {}
  BY <1>9, <1>11
<1>13. PreflightIssues(sold, again) = {}
  BY <1>1, <1>3, <1>5, <1>6, <1>7, <1>12, Zenon DEF PreflightIssues, Flag
<1> QED BY <1>13 DEF sold, again

------------------------------------------------------------------------------
\* A draft of numbers and dates.
Parsed(draft) ==
  /\ IsDraft(draft)
  /\ Figures(draft) \cap {Blank, Malformed} = {}

\* A request in flight carries a parsed draft, data of one world that answers
\* it, and the draft it was started for.
RequestHolds ==
  request # None =>
    /\ Parsed(request.draft)
    /\ request.world \in Worlds
    /\ AnswersDraft(request.draft, request.data)
    /\ \E asked \in {request.draft} \cup Candidates :
         request.data = Lookup(request.world, asked.ref, asked.name, asked.lines)
    /\ state = "EXTRACTED" => extracted # None /\ request.draft = extracted.draft
    /\ state = "NEEDS_REVIEW" =>
         request.draft \in Candidates /\ request.base < MaxRevisions

\* What the intake holds in memory converts.
ExtractedHolds ==
  /\ extracted # None => extracted \in Responses /\ Accepts(extracted)
  /\ state \in {"PROCESSING", "EXTRACTED"} => revision = None

\* A promoted order is what the effective draft asked for, it passes the
\* preflight in the world it was validated in, and a high total is flagged.
Sold(sold, draft, in, flags) ==
  /\ in \in Worlds
  /\ Priced(sold.lines)
  /\ Fulfils(sold, draft, in)
  /\ PreflightIssues(sold, Again(sold, in)) = {}
  /\ HighValue(sold.lines) => <<"HIGH_VALUE_APPROVAL_REQUIRED", 0>> \in flags

PromotionHolds ==
  state \in {"READY_FOR_APPROVAL", "APPROVED"} => Sold(order, Effective, basis, issues)

ApprovalHolds ==
  /\ approver # None =>
       /\ state = "APPROVED"
       /\ \/ approver = "ELEVATED_APPROVER"
          \/ <<"HIGH_VALUE_APPROVAL_REQUIRED", 0>> \notin issues
  /\ verdict # None => state = "APPROVED"

IInv ==
  /\ TypeOK /\ RefusedOnlyAfterChange
  /\ RequestHolds /\ ExtractedHolds /\ PromotionHolds /\ ApprovalHolds

\* A response that extraction accepts has a draft that parses.
LEMMA AcceptedIsParsed ==
  ASSUME NEW response \in Responses, Accepts(response)
  PROVE  Parsed(response.draft)
BY DraftsAssumption DEF Accepts, Parsed, Parses

\* The request on file has the numbers the rules compute with.
LEMMA RequestNumbers ==
  ASSUME RequestHolds, request # None
  PROVE  Numbers(request.draft, request.data)
<1>1. PICK asked \in {request.draft} \cup Candidates :
        request.data = Lookup(request.world, asked.ref, asked.name, asked.lines)
  BY DEF RequestHolds
<1>2. ASSUME NEW i \in DOMAIN request.data.products,
             request.data.products[i] # None
      PROVE  request.data.products[i].stock \in Int \cup {None}
  <2>1. request.data.products = [j \in DOMAIN asked.lines |->
           IF \E q \in request.world.products : q.sku = asked.lines[j].sku
             THEN CHOOSE q \in request.world.products : q.sku = asked.lines[j].sku
             ELSE None]
    BY <1>1 DEF Lookup
  <2>2. request.data.products[i] \in request.world.products
    BY <1>2, <2>1
  <2> QED BY <2>2, WorldsAssumption DEF RequestHolds
<1>3. ASSUME NEW i \in DOMAIN request.draft.lines
      PROVE  request.draft.lines[i].qty \in Int \cup {None}
  <2>1. request.draft.lines[i].qty \in Figures(request.draft)
    BY DEF Figures
  <2> QED BY <2>1 DEF RequestHolds, Parsed, IsDraft
<1> QED BY <1>2, <1>3 DEF Numbers, RequestHolds, Parsed, IsDraft

\* A total above the threshold is an issue.
LEMMA HighValueIsFlagged ==
  ASSUME NEW draft, NEW data, NEW f, NEW day, HighValue(draft.lines)
  PROVE  <<"HIGH_VALUE_APPROVAL_REQUIRED", 0>> \in Issues(draft, data, f, day)
<1>1. <<"HIGH_VALUE_APPROVAL_REQUIRED", 0>> \in ApprovalIssues(draft.lines)
  BY DEF ApprovalIssues, Flag
<1> QED BY <1>1 DEF Issues

\* The transaction that routes an order: what it promotes is sold as asked.
LEMMA RoutePromotes ==
  ASSUME IInv, request # None, Route, state' = "READY_FOR_APPROVAL"
  PROVE  Sold(order', request.draft, basis', issues')
<1> DEFINE draft == request.draft
           data == request.data
<1>1. RequestHolds /\ Numbers(draft, data)
  BY RequestNumbers DEF IInv
<1>2. /\ RouteOf(Found) = "READY_FOR_APPROVAL"
      /\ order' = Promoted(draft, data)
      /\ basis' = request.world
      /\ issues' = Found
  BY DEF Route, Replaced
<1>3. Clear(draft, data, request.facts, request.day)
  BY <1>1, <1>2 DEF Clear, RouteOf, Found, RequestHolds
<1>4. PICK asked \in {draft} \cup Candidates :
        data = Lookup(request.world, asked.ref, asked.name, asked.lines)
  BY <1>1 DEF RequestHolds
<1>5. request.world \in Worlds
  BY <1>1 DEF RequestHolds
<1>6. PreflightIssues(order', Again(order', basis')) = {}
  BY <1>2, <1>3, <1>4, <1>5, PromotedPassesPreflight
<1>7. PICK c \in data.customers : Customer(data) = c
  BY <1>3, ClearCustomer
<1>8. c \in request.world.customers
  BY <1>4, <1>7 DEF Lookup
<1>9. /\ draft.ref \in {None, c.ref}
      /\ draft.ref = None => c.name = draft.name
  BY <1>3, <1>7 DEF Clear, AnswersDraft
<1>10. order'.ref = c.ref /\ order'.po = draft.po
  BY <1>2, <1>7 DEF Promoted
<1>11. /\ DOMAIN order'.lines = DOMAIN draft.lines
       /\ \A i \in DOMAIN draft.lines :
            /\ order'.lines[i].sku = draft.lines[i].sku
            /\ order'.lines[i].qty = draft.lines[i].qty
            /\ order'.lines[i].price = draft.lines[i].price
       /\ Priced(order'.lines)
       /\ Total(order'.lines) = Total(draft.lines)
  BY <1>1, <1>2, <1>3, PromotedLines
<1>12. Fulfils(order', draft, basis')
  BY <1>2, <1>8, <1>9, <1>10, <1>11 DEF Fulfils
<1>13. HighValue(order'.lines) => <<"HIGH_VALUE_APPROVAL_REQUIRED", 0>> \in issues'
  <2>1. SUFFICES ASSUME HighValue(order'.lines)
                 PROVE  <<"HIGH_VALUE_APPROVAL_REQUIRED", 0>> \in issues'
    OBVIOUS
  <2>2. Priced(draft.lines)
    BY <1>1, <1>3, ReadyDataIsPromotable
  <2>3. HighValue(draft.lines)
    BY <1>11, <2>1, <2>2 DEF HighValue
  <2> QED BY <1>2, <2>3, HighValueIsFlagged DEF Found
<1> QED BY <1>2, <1>5, <1>6, <1>11, <1>12, <1>13 DEF Sold

\* Initially nothing is stored and nothing is in flight.
LEMMA InitIInv == Init => IInv
BY BoundsAssumption
   DEF Init, IInv, TypeOK, RefusedOnlyAfterChange, RequestHolds,
       ExtractedHolds, PromotionHolds, ApprovalHolds, Roles

\* What a decision works on is what was consulted for it.
LEMMA ConsultHolds ==
  ASSUME NEW draft, Consult(draft), world \in Worlds
  PROVE  /\ request'.draft = draft
         /\ request'.world \in Worlds
         /\ request'.base = revisions
         /\ AnswersDraft(draft, request'.data)
         /\ \E asked \in {draft} \cup Candidates :
              request'.data = Lookup(request'.world, asked.ref, asked.name, asked.lines)
BY DEF Consult

\* The actions that leave the stored case alone keep what is said about it.
LEMMA ExtractKeeps == ASSUME IInv, Extract PROVE IInv'
<1>1. TypeOK' /\ RefusedOnlyAfterChange'
  BY DEF Extract, IInv, TypeOK, RefusedOnlyAfterChange,
         surroundings, outcome, ApprovalHolds
<1>2. RequestHolds' /\ ExtractedHolds' /\ PromotionHolds' /\ ApprovalHolds'
  BY DEF Extract, IInv, RequestHolds, ExtractedHolds, PromotionHolds, ApprovalHolds,
         surroundings, outcome
<1> QED BY <1>1, <1>2 DEF IInv

\* Decisions begin, for a delivery and for a revision.
LEMMA StartValidationKeeps == ASSUME IInv, StartValidation PROVE IInv'
<1>1. Consult(extracted.draft) /\ world \in Worlds
  BY DEF StartValidation, IInv, TypeOK
<1>2. Parsed(extracted.draft)
  BY AcceptedIsParsed DEF StartValidation, IInv, ExtractedHolds
<1>3. RequestHolds'
  BY <1>1, <1>2, ConsultHolds DEF StartValidation, RequestHolds, stored
<1>4. UNCHANGED <<surroundings, stored, extracted, outcome>>
  BY DEF StartValidation
<1>5. TypeOK' /\ RefusedOnlyAfterChange'
  BY <1>4 DEF IInv, TypeOK, RefusedOnlyAfterChange,
              surroundings, stored, outcome
<1>6. ExtractedHolds' /\ PromotionHolds' /\ ApprovalHolds'
  BY <1>4 DEF IInv, ExtractedHolds, PromotionHolds, ApprovalHolds, Effective,
              surroundings, stored, outcome
<1> QED BY <1>3, <1>5, <1>6 DEF IInv

\* A revision keeps what is stored until it commits.
LEMMA StartRevisionKeeps == ASSUME IInv, StartRevision PROVE IInv'
<1>1. PICK candidate \in Candidates : Consult(candidate)
  BY DEF StartRevision
<1>2. Parsed(candidate)
  BY <1>1, DraftsAssumption DEF Parsed
<1>3. revisions \in 0..MaxRevisions /\ revisions < MaxRevisions
      /\ state = "NEEDS_REVIEW" /\ world \in Worlds
  BY DEF StartRevision, IInv, TypeOK
<1>4. UNCHANGED <<surroundings, stored, extracted, outcome>>
  BY DEF StartRevision
<1>5. RequestHolds'
  BY <1>1, <1>2, <1>3, <1>4, ConsultHolds DEF RequestHolds, stored
<1>6. TypeOK' /\ RefusedOnlyAfterChange'
  BY <1>4 DEF IInv, TypeOK, RefusedOnlyAfterChange,
              surroundings, stored, outcome
<1>7. ExtractedHolds' /\ PromotionHolds' /\ ApprovalHolds'
  BY <1>4 DEF IInv, ExtractedHolds, PromotionHolds, ApprovalHolds, Effective,
              surroundings, stored, outcome
<1> QED BY <1>5, <1>6, <1>7 DEF IInv

\* An order is routed to one of two states.
LEMMA RouteStates ==
  ASSUME Route
  PROVE  state' \in {"READY_FOR_APPROVAL", "NEEDS_REVIEW"}
BY DEF Route

\* The two transactions that store a draft and route the order.
LEMMA CommitValidationKeeps == ASSUME IInv, CommitValidation PROVE IInv'
<1>1. /\ request # None /\ Route /\ state = "EXTRACTED"
      /\ snapshot' = extracted /\ extracted' = None /\ request' = None
      /\ UNCHANGED <<surroundings, revision, revisions, approver, verdict>>
  BY DEF CommitValidation
<1>2. /\ RequestHolds /\ ExtractedHolds /\ ApprovalHolds /\ TypeOK
  BY DEF IInv
<1>3. /\ extracted # None /\ request.draft = extracted.draft
      /\ extracted \in Responses /\ Accepts(extracted)
      /\ revision = None
  BY <1>1, <1>2 DEF RequestHolds, ExtractedHolds
<1>4. Effective' = request.draft
  BY <1>1, <1>3 DEF Effective
<1>5. PromotionHolds'
  BY <1>1, <1>4, RouteStates, RoutePromotes DEF PromotionHolds
<1>6. approver = None /\ verdict = None
  BY <1>1, <1>2 DEF ApprovalHolds
<1>7. ApprovalHolds' /\ RefusedOnlyAfterChange'
  BY <1>1, <1>6 DEF ApprovalHolds, RefusedOnlyAfterChange
<1>8. RequestHolds' /\ ExtractedHolds'
  BY <1>1, RouteStates DEF RequestHolds, ExtractedHolds
<1>9. TypeOK'
  BY <1>1, <1>2, <1>3, <1>5, RouteStates
     DEF TypeOK, surroundings, PromotionHolds, Sold
<1> QED BY <1>5, <1>7, <1>8, <1>9 DEF IInv

\* A revision commits in the same way.
LEMMA CommitRevisionKeeps == ASSUME IInv, CommitRevision PROVE IInv'
<1>1. /\ request # None /\ Route /\ state = "NEEDS_REVIEW"
      /\ revisions = request.base /\ revision' = request.draft
      /\ revisions' = revisions + 1 /\ request' = None
      /\ UNCHANGED <<surroundings, snapshot, extracted, approver, verdict>>
  BY DEF CommitRevision, NextNumber
<1>2. /\ RequestHolds /\ ExtractedHolds /\ ApprovalHolds /\ TypeOK
  BY DEF IInv
<1>3. request.draft \in Candidates /\ request.base < MaxRevisions
  BY <1>1, <1>2 DEF RequestHolds
<1>4. revision' # None
  BY <1>1, <1>3, DraftsAssumption
<1>5. Effective' = request.draft
  BY <1>1, <1>4 DEF Effective
<1>6. PromotionHolds'
  BY <1>1, <1>5, RouteStates, RoutePromotes DEF PromotionHolds
<1>7. approver = None /\ verdict = None
  BY <1>1, <1>2 DEF ApprovalHolds
<1>8. ApprovalHolds' /\ RefusedOnlyAfterChange'
  BY <1>1, <1>7 DEF ApprovalHolds, RefusedOnlyAfterChange
<1>9. RequestHolds' /\ ExtractedHolds'
  BY <1>1, <1>2, RouteStates DEF RequestHolds, ExtractedHolds
<1>10. revisions' \in 0..MaxRevisions /\ revisions' # 0
  BY <1>1, <1>2, <1>3, BoundsAssumption DEF TypeOK
<1>11. TypeOK'
  BY <1>1, <1>2, <1>4, <1>6, <1>10, RouteStates
     DEF TypeOK, surroundings, PromotionHolds, Sold
<1> QED BY <1>6, <1>8, <1>9, <1>11 DEF IInv

\* What is given up leaves the stored case as it was.
LEMMA AbandonKeeps == ASSUME IInv, Abandon PROVE IInv'
<1>1. request' = None /\ UNCHANGED <<surroundings, stored, extracted, outcome>>
  BY DEF Abandon
<1>2. TypeOK' /\ RefusedOnlyAfterChange'
  BY <1>1 DEF IInv, TypeOK, RefusedOnlyAfterChange,
              surroundings, stored, outcome
<1>3. RequestHolds' /\ ExtractedHolds' /\ PromotionHolds' /\ ApprovalHolds'
  BY <1>1 DEF IInv, RequestHolds, ExtractedHolds, PromotionHolds, ApprovalHolds,
              Effective, surroundings, stored, outcome
<1> QED BY <1>2, <1>3 DEF IInv

\* People decide on the routed order: approval.
LEMMA ApproveKeeps == ASSUME IInv, Approve PROVE IInv'
<1>1. PICK role \in Roles : MayApprove(role) /\ approver' = role
  BY DEF Approve
<1>2. /\ state = "READY_FOR_APPROVAL" /\ state' = "APPROVED"
      /\ UNCHANGED <<surroundings, snapshot, revision, revisions, issues, order,
                     extracted, request, basis, verdict>>
  BY DEF Approve
<1>3. ApprovalHolds'
  BY <1>1, <1>2 DEF ApprovalHolds, MayApprove
<1>4. TypeOK' /\ RefusedOnlyAfterChange'
  BY <1>1, <1>2 DEF IInv, TypeOK, RefusedOnlyAfterChange,
                    surroundings
<1>5. RequestHolds' /\ ExtractedHolds' /\ PromotionHolds'
  BY <1>2 DEF IInv, RequestHolds, ExtractedHolds, PromotionHolds, Effective
<1> QED BY <1>3, <1>4, <1>5 DEF IInv

\* Rejection.
LEMMA RejectKeeps == ASSUME IInv, Reject PROVE IInv'
<1>1. /\ state \in {"NEEDS_REVIEW", "READY_FOR_APPROVAL"} /\ state' = "REJECTED"
      /\ UNCHANGED <<surroundings, snapshot, revision, revisions, issues, order,
                     extracted, request, outcome>>
  BY DEF Reject
<1>2. TypeOK' /\ RefusedOnlyAfterChange'
  BY <1>1 DEF IInv, TypeOK, RefusedOnlyAfterChange,
              surroundings, outcome
<1>3. RequestHolds' /\ ExtractedHolds' /\ PromotionHolds' /\ ApprovalHolds'
  BY <1>1 DEF IInv, RequestHolds, ExtractedHolds, PromotionHolds, ApprovalHolds,
              outcome
<1> QED BY <1>2, <1>3 DEF IInv

\* The preflight: in the world the order was promoted from it finds nothing.
LEMMA PreflightKeeps == ASSUME IInv, Preflight PROVE IInv'
<1>1. /\ state = "APPROVED"
      /\ verdict' = [passed |-> PreflightIssues(order, Again(order, world)) = {},
                     world |-> world]
      /\ UNCHANGED <<surroundings, stored, extracted, request, basis, approver>>
  BY DEF Preflight, Again
<1>2. PreflightIssues(order, Again(order, basis)) = {}
  BY <1>1 DEF IInv, PromotionHolds, Sold
<1>3. RefusedOnlyAfterChange'
  BY <1>1, <1>2 DEF RefusedOnlyAfterChange
<1>4. TypeOK'
  BY <1>1 DEF IInv, TypeOK, surroundings, stored
<1>5. RequestHolds' /\ ExtractedHolds' /\ PromotionHolds' /\ ApprovalHolds'
  BY <1>1 DEF IInv, RequestHolds, ExtractedHolds, PromotionHolds, ApprovalHolds,
              Effective, surroundings, stored
<1> QED BY <1>3, <1>4, <1>5 DEF IInv

\* The surroundings change under the case, not the case.
LEMMA SurroundingsKeep == ASSUME IInv, Surroundings PROVE IInv'
<1>1. UNCHANGED <<stored, extracted, request, outcome>> /\ world' \in Worlds
  BY DEF Surroundings, IInv, TypeOK
<1>2. TypeOK' /\ RefusedOnlyAfterChange'
  BY <1>1 DEF IInv, TypeOK, RefusedOnlyAfterChange,
              stored, outcome
<1>3. RequestHolds' /\ ExtractedHolds' /\ PromotionHolds' /\ ApprovalHolds'
  BY <1>1 DEF IInv, RequestHolds, ExtractedHolds, PromotionHolds, ApprovalHolds,
              Effective, stored, outcome
<1> QED BY <1>2, <1>3 DEF IInv

\* A step in which nothing happens.
LEMMA StutterKeeps == ASSUME IInv, UNCHANGED vars PROVE IInv'
BY DEF IInv, TypeOK, RefusedOnlyAfterChange, RequestHolds,
       ExtractedHolds, PromotionHolds, ApprovalHolds, Effective, vars,
       surroundings, stored, outcome
------------------------------------------------------------------------------
\* Every reachable state satisfies the inductive invariant.
THEOREM InductiveInvariant == Spec => []IInv
<1>1. IInv /\ [Next]_vars => IInv'
  BY ExtractKeeps, StartValidationKeeps, StartRevisionKeeps, CommitValidationKeeps,
     CommitRevisionKeeps, AbandonKeeps, ApproveKeeps, RejectKeeps, PreflightKeeps,
     SurroundingsKeep, StutterKeeps DEF Next
<1> QED BY <1>1, InitIInv, PTL DEF Spec

\* States, revisions and promoted lines have their types.
THEOREM TypeCorrect == Spec => []TypeOK
<1>1. IInv => TypeOK
  BY DEF IInv
<1> QED BY <1>1, InductiveInvariant, PTL

\* The routing never lets through what cannot be promoted.
THEOREM ReadyIsAlwaysPromotable == Spec => []ReadyIsPromotable
<1>1. IInv => ReadyIsPromotable
  <2>1. SUFFICES ASSUME IInv, request # None, RouteOf(Found) = "READY_FOR_APPROVAL"
                 PROVE  Promotable(request.draft, request.data)
                        /\ Priced(request.draft.lines)
    BY DEF ReadyIsPromotable
  <2>2. RequestHolds /\ Numbers(request.draft, request.data)
    BY <2>1, RequestNumbers DEF IInv
  <2>3. Clear(request.draft, request.data, request.facts, request.day)
    BY <2>1, <2>2 DEF Clear, RouteOf, Found, RequestHolds
  <2> QED BY <2>2, <2>3, ReadyDataIsPromotable
<1> QED BY <1>1, InductiveInvariant, PTL

\* A promoted order is what its effective draft asked for.
THEOREM PromotionIsAsRequested == Spec => []PromotedAsRequested
<1>1. IInv => PromotedAsRequested
  BY DEF IInv, PromotionHolds, Sold, PromotedAsRequested
<1> QED BY <1>1, InductiveInvariant, PTL

\* Orders of high value are approved by the elevated role.
THEOREM HighValueNeedsElevation == Spec => []HighValueIsElevated
<1>1. IInv => HighValueIsElevated
  <2>1. SUFFICES ASSUME IInv, approver # None, Total(order.lines) >= HighValueThreshold
                 PROVE  approver = "ELEVATED_APPROVER"
    BY DEF HighValueIsElevated
  <2>2. state = "APPROVED"
    BY <2>1 DEF IInv, ApprovalHolds
  <2>3. Priced(order.lines)
    BY <2>1, <2>2 DEF IInv, TypeOK
  <2>4. HighValue(order.lines)
    BY <2>1, <2>3 DEF HighValue
  <2>5. <<"HIGH_VALUE_APPROVAL_REQUIRED", 0>> \in issues
    BY <2>1, <2>2, <2>4 DEF IInv, PromotionHolds, Sold
  <2> QED BY <2>1, <2>5 DEF IInv, ApprovalHolds
<1> QED BY <1>1, InductiveInvariant, PTL

\* An approved order is refused by the preflight only if the reference data
\* changed after the validation.
THEOREM PreflightAgrees == Spec => []RefusedOnlyAfterChange
<1>1. IInv => RefusedOnlyAfterChange
  BY DEF IInv
<1> QED BY <1>1, InductiveInvariant, PTL
==============================================================================
