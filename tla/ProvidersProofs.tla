--------------------------- MODULE ProvidersProofs ---------------------------
(***************************************************************************)
(* Proofs about Providers, for any number of calls, any master data and    *)
(* any number of changes of them.  What a call knows, has asked for and    *)
(* has been told is related to what the providers have (CallHolds).  What  *)
(* they have only grows (Forward), so that the calls that a step does not  *)
(* touch keep that relation, given up or outrun as they may be.            *)
(***************************************************************************)
EXTENDS Providers, TLAPS

Places == {"not begun", "begun", "identity", "partner", "products", "waiting",
           "verifying", "confirmed", "ended"}

Steps == {"ODOO_BRIDGE", "HUBSPOT_COMPANY", "HUBSPOT_DEAL", "HUBSPOT_ASSOCIATION"}

\* The requests of each step.
RequestsOf ==
  [ none                |-> {"none"},
    ODOO_BRIDGE         |-> {"none", "bridge", "creating"},
    HUBSPOT_COMPANY     |-> {"none", "upsert"},
    HUBSPOT_DEAL        |-> {"none", "create", "patch"},
    HUBSPOT_ASSOCIATION |-> {"none", "put"} ]

Requests == {"none", "bridge", "creating", "upsert", "create", "patch", "put"}

Results == {"none", "receipt", "NOT_ELIGIBLE", "NOT_FOUND", "IDEMPOTENCY_CONFLICT",
            "RECONCILIATION_REQUIRED", "PROVIDER_UNAVAILABLE", "PROVIDER_REJECTED",
            "PROVIDER_PENDING", "PROVIDER_INVALID_RESPONSE", "INTEGRATION_CONFIG", "STALE"}

Sales == [state : {"sale", "cancel"}, partner : Partners, checked : MasterData]

TypeOK ==
  /\ receipts \in 0..4
  /\ begun \in 0..MaxCalls
  /\ step \in [Calls -> Steps \cup {"none"}]
  /\ pc \in [Calls -> Places]
  /\ exists \in [Calls -> BOOLEAN]
  /\ request \in [Calls -> Requests]
  /\ answer \in [Calls -> Results]
  /\ outcome \in [Calls -> Results]
  /\ master \in MasterData
  /\ sale \in Sales \cup {NoSale}
  /\ seen \in [Calls -> MasterData \cup {NoData}]
  /\ snapshot \in [Calls -> MasterData \cup {NoData}]
  /\ sold \in [Calls -> BOOLEAN]
  /\ company \in BOOLEAN /\ associated \in BOOLEAN
  /\ deal \in Stages /\ index \in Stages
  /\ progressed \in [Calls -> BOOLEAN]

Sold == sale # NoSale

\* What the receipt of a step stands for.
Backed(s) ==
  /\ s = "ODOO_BRIDGE" => Sold
  /\ s = "HUBSPOT_COMPANY" => company
  /\ s = "HUBSPOT_DEAL" => deal # "none"
  /\ s = "HUBSPOT_ASSOCIATION" => associated

\* The calls in general: requests outlive the calls that sent them, answers
\* find only the call that waits.
Calling(c) ==
  /\ c > begun => /\ step[c] = "none" /\ pc[c] = "not begun" /\ ~exists[c]
                  /\ request[c] = "none" /\ answer[c] = "none" /\ outcome[c] = "none"
  /\ request[c] \in RequestsOf[step[c]]
  /\ pc[c] \in {"begun", "identity", "partner", "products"} => request[c] = "none"
  /\ pc[c] # "waiting" => answer[c] = "none"
  /\ pc[c] = "confirmed" \/ answer[c] = "receipt" => Backed(step[c])

\* The bridge step: a request for a new sale order was checked by the adapter,
\* and one that is about to create it once more by Odoo.
Bridging(c) ==
  /\ step[c] = "ODOO_BRIDGE" /\ exists[c] => Sold
  /\ pc[c] \in {"partner", "products"} => seen[c] \in MasterData
  /\ request[c] = "bridge" =>
       seen[c] \in MasterData /\ (Sold \/ seen[c].price \in Tolerated)
  /\ request[c] = "creating" =>
       /\ seen[c] \in MasterData /\ snapshot[c] \in MasterData
       /\ Passes(snapshot[c]) /\ seen[c].partner = snapshot[c].partner
  /\ sold[c] => Sold
  /\ step[c] = "ODOO_BRIDGE" /\ sold[c] =>
       /\ pc[c] \in {"identity", "partner", "products"} => exists[c]
       /\ answer[c] # "NOT_ELIGIBLE" /\ outcome[c] # "NOT_ELIGIBLE"

\* The deal step: a call that found the deal updates it, and one that did not
\* is refused when the deal is there.
Dealing(c) ==
  /\ request[c] = "patch" => deal # "none" /\ (pc[c] = "waiting" => exists[c])
  /\ progressed[c] => deal = "progressed"
  /\ step[c] = "HUBSPOT_DEAL" /\ progressed[c] =>
       /\ pc[c] # "confirmed" /\ outcome[c] # "receipt"
       /\ answer[c] = "receipt" => exists[c]

CallHolds(c) == Calling(c) /\ Bridging(c) /\ Dealing(c)

\* The latest call works on the step that has no receipt yet.
Current ==
  begun > 0 /\ pc[begun] # "ended" => receipts < 4 /\ step[begun] = StepOrder[receipts + 1]

IInv ==
  /\ TypeOK
  /\ \A c \in Calls : CallHolds(c)
  /\ Current
  /\ index # "none" => deal # "none"
  /\ SoldAsApproved
  /\ ReceiptsAreBacked

\* Providers only add to what they have.
Forward ==
  /\ Sold => Sold'
  /\ company => company'
  /\ deal # "none" => deal' # "none"
  /\ deal = "progressed" => deal' = "progressed"
  /\ associated => associated'

\* A step leaves what belongs to call c alone.
Untouched(c) ==
  /\ step'[c] = step[c] /\ pc'[c] = pc[c] /\ exists'[c] = exists[c]
  /\ request'[c] = request[c] /\ answer'[c] = answer[c] /\ outcome'[c] = outcome[c]
  /\ seen'[c] = seen[c] /\ snapshot'[c] = snapshot[c]
  /\ sold'[c] = sold[c] /\ progressed'[c] = progressed[c]

\* The calls that a step leaves alone keep their relation to the providers.
LEMMA UntouchedHolds ==
  ASSUME NEW c \in Calls, CallHolds(c), Untouched(c), Forward,
         begun \in Nat, begun' \in Nat, begun' >= begun
  PROVE  CallHolds(c)'
<1>1. c \in Nat
  BY DEF Calls
<1>2. Calling(c)'
  <2>1. c > begun' => c > begun
    BY <1>1
  <2>2. Backed(step[c]) => Backed(step[c])'
    BY DEF Untouched, Forward, Backed
  <2>. QED
    BY <2>1, <2>2 DEF CallHolds, Calling, Untouched
<1>3. Bridging(c)'
  BY DEF CallHolds, Bridging, Untouched, Forward, Passes
<1>4. Dealing(c)'
  BY DEF CallHolds, Dealing, Untouched, Forward
<1>. QED
  BY <1>2, <1>3, <1>4 DEF CallHolds

\* What a step does to one call is all that has to be looked at.
LEMMA OneCall ==
  ASSUME IInv, NEW c \in Calls, TypeOK', Forward,
         \A d \in Calls \ {c} : Untouched(d),
         UNCHANGED <<receipts, begun>>, step'[c] = step[c],
         pc[c] = "ended" => pc'[c] = "ended",
         CallHolds(c)',
         index' # "none" => deal' # "none",
         SoldAsApproved'
  PROVE  IInv'
<1>1. begun \in Nat /\ begun' = begun /\ begun \in 0..MaxCalls
  BY MaxCallsAssumption DEF IInv, TypeOK
<1>2. ASSUME NEW d \in Calls PROVE CallHolds(d)'
  <2>1. CASE d = c
    BY <2>1
  <2>2. CASE d # c
    <3>1. CallHolds(d) /\ Untouched(d)
      BY <2>2 DEF IInv
    <3>. QED
      BY <1>1, <3>1, UntouchedHolds
  <2>. QED
    BY <2>1, <2>2
<1>3. Current'
  <2>1. SUFFICES ASSUME begun > 0, pc'[begun] # "ended"
                 PROVE  receipts < 4 /\ step'[begun] = StepOrder[receipts + 1]
    BY <1>1 DEF Current
  <2>2. begun \in Calls
    BY <1>1, <2>1 DEF Calls
  <2>3. pc[begun] # "ended" /\ step'[begun] = step[begun]
    BY <2>1, <2>2 DEF Untouched
  <2>. QED
    BY <2>1, <2>3 DEF IInv, Current
<1>4. ReceiptsAreBacked'
  BY DEF IInv, ReceiptsAreBacked, Forward, Sold
<1>. QED
  BY <1>2, <1>3, <1>4 DEF IInv

\* A provider answers: a receipt is backed, and a refusal of the data means
\* that there is no sale order.
LEMMA ReplyHolds ==
  ASSUME IInv, NEW c \in Calls, NEW text \in Results, Reply(c, text), Forward,
         request[c] # "none",
         text = "receipt" => Backed(step[c])',
         text = "NOT_ELIGIBLE" => ~Sold,
         text = "receipt" /\ step[c] = "HUBSPOT_DEAL" /\ progressed[c] /\ pc[c] = "waiting"
           => exists[c],
         UNCHANGED <<sold, progressed>>
  PROVE  /\ CallHolds(c)'
         /\ request' \in [Calls -> Requests] /\ answer' \in [Calls -> Results]
         /\ UNCHANGED <<receipts, begun, step, pc, exists, outcome>>
         /\ \A d \in Calls \ {c} : request'[d] = request[d] /\ answer'[d] = answer[d]
<1>1. /\ UNCHANGED <<receipts, begun, step, pc, exists, outcome>>
      /\ request' = [request EXCEPT ![c] = "none"]
      /\ answer' = IF pc[c] = "waiting" /\ answer[c] = "none"
                   THEN [answer EXCEPT ![c] = text] ELSE answer
  BY DEF Reply
<1>2. /\ request \in [Calls -> Requests] /\ answer \in [Calls -> Results]
      /\ step[c] \in Steps \cup {"none"} /\ CallHolds(c)
  BY DEF IInv, TypeOK
<1>3. /\ request'[c] = "none"
      /\ answer'[c] = answer[c] \/ (answer'[c] = text /\ pc[c] = "waiting")
      /\ request' \in [Calls -> Requests] /\ answer' \in [Calls -> Results]
      /\ \A d \in Calls \ {c} : request'[d] = request[d] /\ answer'[d] = answer[d]
  BY <1>1, <1>2 DEF Requests
<1>4. Calling(c)'
  <2>1. request'[c] \in RequestsOf[step[c]]
    BY <1>2, <1>3 DEF RequestsOf, Steps
  <2>2. Backed(step[c]) => Backed(step[c])'
    BY <1>1 DEF Backed, Forward
  <2>3. c \in Nat /\ begun \in Nat
    BY DEF IInv, TypeOK, Calls
  <2>4. c > begun => pc[c] # "waiting"
    BY <1>2 DEF CallHolds, Calling
  <2>. QED
    BY <1>1, <1>2, <1>3, <2>1, <2>2, <2>4 DEF CallHolds, Calling
<1>5. Bridging(c)'
  <2>1. answer'[c] # "NOT_ELIGIBLE" \/ answer'[c] = answer[c] \/ ~Sold
    BY <1>3
  <2>. QED
    BY <1>1, <1>2, <1>3, <2>1 DEF CallHolds, Calling, Bridging, Forward
<1>6. Dealing(c)'
  BY <1>1, <1>2, <1>3 DEF CallHolds, Dealing, Forward
<1>. QED
  BY <1>1, <1>3, <1>4, <1>5, <1>6 DEF CallHolds

\* The call ends, and with it what it knew.
LEMMA EndHolds ==
  ASSUME IInv, NEW c \in Calls, NEW result \in Results, End(c, result),
         pc[c] # "not begun",
         result = "NOT_ELIGIBLE" => step[c] # "ODOO_BRIDGE" \/ ~sold[c],
         result = "receipt" => step[c] # "HUBSPOT_DEAL" \/ ~progressed[c],
         Forward, seen'[c] = seen[c] \/ request[c] = "none",
         UNCHANGED <<begun, step, request, snapshot, sold, progressed>>
  PROVE  /\ CallHolds(c)' /\ pc'[c] = "ended"
         /\ pc' \in [Calls -> Places] /\ outcome' \in [Calls -> Results]
         /\ exists' \in [Calls -> BOOLEAN] /\ answer' \in [Calls -> Results]
         /\ \A d \in Calls \ {c} :
              /\ pc'[d] = pc[d] /\ outcome'[d] = outcome[d]
              /\ exists'[d] = exists[d] /\ answer'[d] = answer[d]
<1>1. /\ outcome' = [outcome EXCEPT ![c] = result] /\ pc' = [pc EXCEPT ![c] = "ended"]
      /\ exists' = [exists EXCEPT ![c] = FALSE] /\ answer' = [answer EXCEPT ![c] = "none"]
  BY DEF End, GoTo
<1>2. /\ pc \in [Calls -> Places] /\ outcome \in [Calls -> Results]
      /\ exists \in [Calls -> BOOLEAN] /\ answer \in [Calls -> Results]
      /\ CallHolds(c)
  BY DEF IInv, TypeOK
<1>3. /\ pc' \in [Calls -> Places] /\ outcome' \in [Calls -> Results]
      /\ exists' \in [Calls -> BOOLEAN] /\ answer' \in [Calls -> Results]
  BY <1>1, <1>2 DEF Places, Results
<1>4. /\ pc'[c] = "ended" /\ outcome'[c] = result /\ ~exists'[c] /\ answer'[c] = "none"
      /\ \A d \in Calls \ {c} :
           /\ pc'[d] = pc[d] /\ outcome'[d] = outcome[d]
           /\ exists'[d] = exists[d] /\ answer'[d] = answer[d]
  BY <1>1, <1>2
<1>5. Calling(c)'
  <2>1. ~(c > begun)
    BY <1>2 DEF CallHolds, Calling
  <2>. QED
    BY <1>2, <1>4, <2>1 DEF CallHolds, Calling
<1>6. Bridging(c)'
  BY <1>2, <1>4 DEF CallHolds, Bridging, Forward
<1>7. Dealing(c)'
  BY <1>2, <1>4 DEF CallHolds, Dealing, Forward
<1>. QED
  BY <1>3, <1>4, <1>5, <1>6, <1>7 DEF CallHolds

\* The adapter reads the answer.  A receipt confirms the step unless something
\* is left to verify.
LEMMA TakeAnswerHolds ==
  ASSUME IInv, NEW c \in Calls, NEW verify \in BOOLEAN, TakeAnswer(c, verify),
         step[c] = "HUBSPOT_DEAL" /\ exists[c] => verify,
         UNCHANGED <<odooVars, hubspotVars>>
  PROVE  IInv'
<1>1. /\ pc[c] = "waiting" /\ answer[c] # "none"
      /\ UNCHANGED <<receipts, begun, step, request>>
  BY DEF TakeAnswer
<1>2. Forward /\ CallHolds(c) /\ TypeOK /\ SoldAsApproved
      /\ (index' # "none" => deal' # "none") /\ SoldAsApproved'
  BY DEF Forward, Sold, hubspotVars, odooVars, IInv, SoldAsApproved
<1>3. CASE answer[c] # "receipt"
  <2>1. End(c, answer[c]) /\ answer[c] \in Results
    BY <1>2, <1>3 DEF TakeAnswer, Confirms, TypeOK
  <2>2. UNCHANGED <<seen, snapshot, sold, progressed>> /\ seen'[c] = seen[c]
    BY DEF odooVars, hubspotVars
  <2>3. answer[c] = "NOT_ELIGIBLE" => step[c] # "ODOO_BRIDGE" \/ ~sold[c]
    BY <1>2 DEF CallHolds, Bridging
  <2>4. /\ CallHolds(c)' /\ pc'[c] = "ended"
        /\ pc' \in [Calls -> Places] /\ outcome' \in [Calls -> Results]
        /\ exists' \in [Calls -> BOOLEAN] /\ answer' \in [Calls -> Results]
        /\ \A d \in Calls \ {c} :
             /\ pc'[d] = pc[d] /\ outcome'[d] = outcome[d]
             /\ exists'[d] = exists[d] /\ answer'[d] = answer[d]
    BY <1>1, <1>2, <1>3, <2>1, <2>2, <2>3, EndHolds
  <2>5. TypeOK'
    BY <1>1, <1>2, <2>4 DEF TypeOK, odooVars, hubspotVars
  <2>6. \A d \in Calls \ {c} : Untouched(d)
    BY <1>1, <2>2, <2>4 DEF Untouched
  <2>. QED
    BY <1>1, <1>2, <2>4, <2>5, <2>6, OneCall
<1>4. CASE answer[c] = "receipt"
  <2>. DEFINE place == IF verify THEN "verifying" ELSE "confirmed"
  <2>1. /\ pc' = [pc EXCEPT ![c] = place]
        /\ answer' = [answer EXCEPT ![c] = "none"]
        /\ UNCHANGED <<exists, outcome>>
    BY <1>4 DEF TakeAnswer, Confirms, GoTo
  <2>2. /\ place \in {"verifying", "confirmed"}
        /\ (place = "confirmed" => ~verify)
    OBVIOUS
  <2>. HIDE DEF place
  <2>3. TypeOK'
    BY <1>1, <1>2, <2>1, <2>2 DEF TypeOK, odooVars, hubspotVars, Places, Results
  <2>4. \A d \in Calls \ {c} : Untouched(d)
    BY <1>1, <1>2, <2>1 DEF Untouched, TypeOK, odooVars, hubspotVars
  <2>5. pc'[c] = place /\ answer'[c] = "none"
    BY <1>2, <2>1 DEF TypeOK
  <2>6. Calling(c)'
    <3>1. ~(c > begun) /\ Backed(step[c])
      BY <1>1, <1>2, <1>4 DEF CallHolds, Calling
    <3>2. Backed(step[c])'
      BY <1>1, <1>2, <3>1 DEF Backed, Forward
    <3>. QED
      BY <1>1, <1>2, <2>2, <2>5, <3>1, <3>2 DEF CallHolds, Calling
  <2>7. Bridging(c)'
    BY <1>1, <1>2, <2>1, <2>2, <2>5 DEF CallHolds, Bridging, odooVars, hubspotVars, Sold
  <2>8. Dealing(c)'
    <3>1. step[c] = "HUBSPOT_DEAL" /\ progressed[c] => place # "confirmed"
      BY <1>2, <1>4, <2>2 DEF CallHolds, Dealing
    <3>. QED
      BY <1>1, <1>2, <2>1, <2>2, <2>5, <3>1 DEF CallHolds, Dealing, odooVars, hubspotVars
  <2>. QED
    BY <1>1, <1>2, <2>3, <2>4, <2>6, <2>7, <2>8, OneCall DEF CallHolds
<1>. QED
  BY <1>3, <1>4

\* Whoever gives up leaves the request behind.
LEMMA GiveUpHolds ==
  ASSUME IInv, NEW c \in Calls, GiveUp(c),
         UNCHANGED hubspotVars, UNCHANGED <<master, changes, sale, snapshot, sold>>,
         seen' = seen \/ (request[c] = "none" /\ seen' = [seen EXCEPT ![c] = NoData])
  PROVE  IInv'
<1>1. /\ pc[c] # "not begun" /\ End(c, "PROVIDER_UNAVAILABLE")
      /\ UNCHANGED <<receipts, begun, step, request>>
  BY DEF GiveUp, OutcomeOfTimeout
<1>2. /\ Forward /\ TypeOK /\ SoldAsApproved /\ SoldAsApproved'
      /\ (index' # "none" => deal' # "none")
  BY DEF Forward, Sold, hubspotVars, IInv, SoldAsApproved
<1>3. /\ seen'[c] = seen[c] \/ request[c] = "none"
      /\ seen' \in [Calls -> MasterData \cup {NoData}]
      /\ \A d \in Calls \ {c} : seen'[d] = seen[d]
  BY <1>2 DEF TypeOK
<1>4. UNCHANGED <<begun, step, request, snapshot, sold, progressed>>
  BY <1>1 DEF hubspotVars
<1>5. /\ CallHolds(c)' /\ pc'[c] = "ended"
      /\ pc' \in [Calls -> Places] /\ outcome' \in [Calls -> Results]
      /\ exists' \in [Calls -> BOOLEAN] /\ answer' \in [Calls -> Results]
      /\ \A d \in Calls \ {c} :
           /\ pc'[d] = pc[d] /\ outcome'[d] = outcome[d]
           /\ exists'[d] = exists[d] /\ answer'[d] = answer[d]
  <2>1. "PROVIDER_UNAVAILABLE" \in Results
    BY DEF Results
  <2>. QED
    BY <1>1, <1>2, <1>3, <1>4, <2>1, EndHolds
<1>6. TypeOK'
  BY <1>1, <1>2, <1>3, <1>5 DEF TypeOK, hubspotVars
<1>7. \A d \in Calls \ {c} : Untouched(d)
  BY <1>3, <1>4, <1>5 DEF Untouched
<1>. QED
  BY <1>1, <1>2, <1>5, <1>6, <1>7, OneCall

\* The adapter looks for the sale order and reads the master data piece by
\* piece: steps of the call alone, before there is any request.
LEMMA AloneHolds ==
  ASSUME IInv, NEW c \in Calls,
         step[c] = "ODOO_BRIDGE", pc[c] \in {"begun", "identity", "partner"},
         NEW place \in {"identity", "partner", "products"}, pc' = [pc EXCEPT ![c] = place],
         NEW found \in BOOLEAN, exists' = [exists EXCEPT ![c] = found],
         found => Sold, sold[c] => found,
         NEW data \in MasterData \cup {NoData}, seen' = [seen EXCEPT ![c] = data],
         place # "identity" => data \in MasterData,
         UNCHANGED <<receipts, begun, step, request, answer, outcome>>,
         UNCHANGED <<master, changes, sale, snapshot, sold, hubspotVars>>
  PROVE  IInv'
<1>1. /\ Forward /\ TypeOK /\ CallHolds(c) /\ SoldAsApproved'
      /\ (index' # "none" => deal' # "none")
  BY DEF Forward, Sold, hubspotVars, IInv, SoldAsApproved
<1>2. TypeOK'
  BY <1>1 DEF TypeOK, hubspotVars, Places
<1>3. /\ pc'[c] = place /\ (exists'[c] <=> found) /\ seen'[c] = data
      /\ \A d \in Calls \ {c} : Untouched(d)
  BY <1>1 DEF TypeOK, Untouched, hubspotVars
<1>4. Calling(c)'
  BY <1>1, <1>3 DEF CallHolds, Calling
<1>5. Bridging(c)'
  BY <1>1, <1>3 DEF CallHolds, Calling, Bridging, Sold
<1>6. Dealing(c)'
  BY <1>1, <1>3 DEF CallHolds, Calling, Dealing, hubspotVars
<1>. QED
  BY <1>1, <1>2, <1>3, <1>4, <1>5, <1>6, OneCall DEF CallHolds

\* The adapter reads the order's identity, its customer and its products.
LEMMA ReadStep ==
  ASSUME IInv, NEW c \in Calls, ReadIdentity(c) \/ ReadPartner(c) \/ ReadProducts(c),
         UNCHANGED hubspotVars
  PROVE  IInv'
<1>1. /\ TypeOK /\ CallHolds(c) /\ exists[c] \in BOOLEAN /\ master \in MasterData
      /\ seen[c] \in MasterData \cup {NoData}
      /\ exists = [exists EXCEPT ![c] = exists[c]] /\ seen = [seen EXCEPT ![c] = seen[c]]
  BY DEF IInv, TypeOK
<1>2. CASE ReadIdentity(c)
  <2>1. (sale # NoSale) \in BOOLEAN /\ ((sale # NoSale) => Sold) /\ (sold[c] => (sale # NoSale))
    BY <1>1 DEF Sold, CallHolds, Bridging
  <2>2. /\ step[c] = "ODOO_BRIDGE" /\ pc[c] = "begun" /\ pc' = [pc EXCEPT ![c] = "identity"]
        /\ exists' = [exists EXCEPT ![c] = (sale # NoSale)] /\ seen' = [seen EXCEPT ![c] = seen[c]]
        /\ UNCHANGED <<receipts, begun, step, request, answer, outcome>>
        /\ UNCHANGED <<master, changes, sale, snapshot, sold, hubspotVars>>
    BY <1>1, <1>2 DEF ReadIdentity, At, GoTo, odooVars
  <2>. HIDE DEF Sold, MasterData
  <2>. QED
    BY <1>1, <2>1, <2>2, AloneHolds
<1>3. CASE ReadPartner(c)
  <2>1. /\ step[c] = "ODOO_BRIDGE" /\ pc[c] = "identity" /\ pc' = [pc EXCEPT ![c] = "partner"]
        /\ exists' = [exists EXCEPT ![c] = exists[c]] /\ seen' = [seen EXCEPT ![c] = master]
        /\ UNCHANGED <<receipts, begun, step, request, answer, outcome>>
        /\ UNCHANGED <<master, changes, sale, snapshot, sold, hubspotVars>>
    BY <1>1, <1>3 DEF ReadPartner, At, GoTo
  <2>2. (exists[c] => Sold) /\ (sold[c] => exists[c])
    BY <1>1, <2>1 DEF CallHolds, Bridging
  <2>. QED
    BY <1>1, <2>1, <2>2, AloneHolds
<1>4. CASE ReadProducts(c)
  <2>. DEFINE data == [seen[c] EXCEPT !.goods = master.goods, !.price = master.price]
  <2>1. /\ step[c] = "ODOO_BRIDGE" /\ pc[c] = "partner" /\ pc' = [pc EXCEPT ![c] = "products"]
        /\ exists' = [exists EXCEPT ![c] = exists[c]]
        /\ UNCHANGED <<receipts, begun, step, request, answer, outcome>>
        /\ UNCHANGED <<master, changes, sale, snapshot, sold, hubspotVars>>
    BY <1>1, <1>4 DEF ReadProducts, At, GoTo
  <2>2. (exists[c] => Sold) /\ (sold[c] => exists[c]) /\ seen[c] \in MasterData
    BY <1>1, <2>1 DEF CallHolds, Bridging
  <2>3. data \in MasterData
    BY <1>1, <2>2 DEF MasterData
  <2>4. seen' = [seen EXCEPT ![c] = data]
    <3>1. seen \in [Calls -> MasterData \cup {NoData}]
      BY <1>1 DEF TypeOK
    <3>2. seen' = [seen EXCEPT ![c].goods = master.goods, ![c].price = master.price]
      BY <1>4 DEF ReadProducts
    <3>3. \A d \in Calls : seen'[d] = IF d = c THEN data ELSE seen[d]
      BY <3>1, <3>2
    <3>4. seen' = [d \in Calls |-> seen'[d]]
      BY <3>1, <3>2
    <3>. HIDE DEF data
    <3>. QED
      BY <3>1, <3>3, <3>4
  <2>. HIDE DEF data
  <2>. QED
    BY <1>1, <2>1, <2>2, <2>3, <2>4, AloneHolds
<1>. QED
  BY <1>2, <1>3, <1>4

\* The preflight refuses, or the request is sent.
LEMMA RefuseStep ==
  ASSUME IInv, NEW c \in Calls, RefuseIneligible(c), UNCHANGED hubspotVars PROVE IInv'
<1>1. PICK result \in {"NOT_ELIGIBLE", "NOT_FOUND"} :
        End(c, result) /\ (result = "NOT_ELIGIBLE" => ~exists[c])
  BY DEF RefuseIneligible, MustPass
<1>2. /\ step[c] = "ODOO_BRIDGE" /\ pc[c] = "products"
      /\ seen' = [seen EXCEPT ![c] = NoData]
      /\ UNCHANGED <<receipts, begun, step, request, master, changes, sale, snapshot, sold>>
  BY DEF RefuseIneligible, At, Forget
<1>3. /\ Forward /\ TypeOK /\ CallHolds(c) /\ SoldAsApproved /\ SoldAsApproved'
      /\ (index' # "none" => deal' # "none")
  BY <1>2 DEF Forward, Sold, hubspotVars, IInv, SoldAsApproved
<1>4. /\ request[c] = "none" /\ (sold[c] => exists[c]) /\ result \in Results
      /\ seen' \in [Calls -> MasterData \cup {NoData}]
      /\ \A d \in Calls \ {c} : seen'[d] = seen[d]
  BY <1>2, <1>3 DEF CallHolds, Calling, Bridging, TypeOK, Results
<1>5. UNCHANGED <<begun, step, request, snapshot, sold, progressed>>
  BY <1>2 DEF hubspotVars
<1>6. /\ CallHolds(c)' /\ pc'[c] = "ended"
      /\ pc' \in [Calls -> Places] /\ outcome' \in [Calls -> Results]
      /\ exists' \in [Calls -> BOOLEAN] /\ answer' \in [Calls -> Results]
      /\ \A d \in Calls \ {c} :
           /\ pc'[d] = pc[d] /\ outcome'[d] = outcome[d]
           /\ exists'[d] = exists[d] /\ answer'[d] = answer[d]
  <2>1. pc[c] # "not begun" /\ (result = "NOT_ELIGIBLE" => ~sold[c]) /\ result # "receipt"
    BY <1>1, <1>2, <1>4
  <2>. QED
    BY <1>1, <1>3, <1>4, <1>5, <2>1, EndHolds
<1>7. TypeOK'
  BY <1>2, <1>3, <1>4, <1>6 DEF TypeOK, hubspotVars
<1>8. \A d \in Calls \ {c} : Untouched(d)
  BY <1>4, <1>5, <1>6 DEF Untouched
<1>. QED
  BY <1>2, <1>3, <1>6, <1>7, <1>8, OneCall

\* The bridge is called with what has passed the preflight, or to replay.
LEMMA SendBridgeStep ==
  ASSUME IInv, NEW c \in Calls, SendBridge(c), UNCHANGED hubspotVars PROVE IInv'
<1>1. /\ step[c] = "ODOO_BRIDGE" /\ pc[c] = "products"
      /\ (~exists[c] => Passes(seen[c]))
      /\ request' = [request EXCEPT ![c] = "bridge"] /\ pc' = [pc EXCEPT ![c] = "waiting"]
      /\ UNCHANGED <<receipts, begun, step, exists, answer, outcome, odooVars>>
  BY DEF SendBridge, At, MustPass, Send, GoTo
<1>2. /\ Forward /\ TypeOK /\ CallHolds(c) /\ SoldAsApproved /\ SoldAsApproved'
      /\ (index' # "none" => deal' # "none")
  BY <1>1 DEF Forward, Sold, hubspotVars, odooVars, IInv, SoldAsApproved
<1>3. TypeOK'
  BY <1>1, <1>2 DEF TypeOK, hubspotVars, odooVars, Places, Requests
<1>4. /\ request'[c] = "bridge" /\ pc'[c] = "waiting"
      /\ \A d \in Calls \ {c} : Untouched(d)
  BY <1>1, <1>2 DEF TypeOK, hubspotVars, odooVars, Untouched
<1>5. Calling(c)'
  <2>1. "bridge" \in RequestsOf["ODOO_BRIDGE"]
    BY DEF RequestsOf
  <2>. QED
    BY <1>1, <1>2, <1>4, <2>1 DEF CallHolds, Calling
<1>6. Bridging(c)'
  BY <1>1, <1>2, <1>4 DEF CallHolds, Bridging, odooVars, Sold, Passes
<1>7. Dealing(c)'
  BY <1>1, <1>2, <1>4 DEF CallHolds, Dealing, hubspotVars, odooVars
<1>. QED
  BY <1>1, <1>2, <1>3, <1>4, <1>5, <1>6, <1>7, OneCall DEF CallHolds

\* What a provider's answer leaves to show about each request.
LEMMA ReplyStep ==
  ASSUME IInv, NEW c \in Calls, NEW text \in Results, Reply(c, text), Forward,
         request[c] # "none",
         text = "receipt" => Backed(step[c])',
         text = "NOT_ELIGIBLE" => ~Sold,
         text = "receipt" /\ step[c] = "HUBSPOT_DEAL" /\ progressed[c] /\ pc[c] = "waiting"
           => exists[c],
         UNCHANGED <<master, sold, progressed>>,
         seen' = seen \/ seen' = [seen EXCEPT ![c] = NoData],
         snapshot' = snapshot \/ snapshot' = [snapshot EXCEPT ![c] = NoData],
         sale' \in Sales \cup {NoSale}, SoldAsApproved',
         company' \in BOOLEAN, associated' \in BOOLEAN, deal' \in Stages, index' \in Stages,
         index' # "none" => deal' # "none"
  PROVE  IInv'
<1>1. /\ CallHolds(c)'
      /\ request' \in [Calls -> Requests] /\ answer' \in [Calls -> Results]
      /\ UNCHANGED <<receipts, begun, step, pc, exists, outcome>>
      /\ \A d \in Calls \ {c} : request'[d] = request[d] /\ answer'[d] = answer[d]
  BY ReplyHolds
<1>2. /\ seen' \in [Calls -> MasterData \cup {NoData}]
      /\ snapshot' \in [Calls -> MasterData \cup {NoData}]
      /\ \A d \in Calls \ {c} : seen'[d] = seen[d] /\ snapshot'[d] = snapshot[d]
  BY DEF IInv, TypeOK
<1>3. TypeOK'
  BY <1>1, <1>2 DEF IInv, TypeOK
<1>4. \A d \in Calls \ {c} : Untouched(d)
  BY <1>1, <1>2 DEF Untouched
<1>. QED
  BY <1>1, <1>3, <1>4, OneCall

\* A request that HubSpot or Odoo has tells the step it belongs to.
LEMMA RequestOfStep ==
  ASSUME IInv, NEW c \in Calls
  PROVE  /\ request[c] \in {"bridge", "creating"} => step[c] = "ODOO_BRIDGE"
         /\ request[c] = "upsert" => step[c] = "HUBSPOT_COMPANY"
         /\ request[c] \in {"create", "patch"} => step[c] = "HUBSPOT_DEAL"
         /\ request[c] = "put" => step[c] = "HUBSPOT_ASSOCIATION"
<1>1. request[c] \in RequestsOf[step[c]] /\ step[c] \in Steps \cup {"none"}
  BY DEF IInv, CallHolds, Calling, TypeOK
<1>. QED
  BY <1>1 DEF RequestsOf, Steps

\* Odoo answers without creating anything.
LEMMA BridgeAnswersStep ==
  ASSUME IInv, NEW c \in Calls, BridgeFinds(c) \/ BridgeRefuses(c) \/ BridgeRollsBack(c),
         UNCHANGED hubspotVars
  PROVE  IInv'
<1>1. /\ request[c] # "none" /\ step[c] = "ODOO_BRIDGE" /\ TypeOK
      /\ UNCHANGED <<master, sold, sale>>
      /\ seen' = [seen EXCEPT ![c] = NoData]
      /\ snapshot' = snapshot \/ snapshot' = [snapshot EXCEPT ![c] = NoData]
  BY RequestOfStep DEF BridgeFinds, BridgeRefuses, BridgeRollsBack, Forget, IInv
<1>2. PICK text \in Results :
        /\ Reply(c, text)
        /\ (text = "receipt" => Sold) /\ (text = "NOT_ELIGIBLE" => ~Sold)
  <2>1. CASE BridgeFinds(c)
    <3>1. /\ Reply(c, Existing(c)) /\ Sold
          /\ Existing(c) \in {"IDEMPOTENCY_CONFLICT", "RECONCILIATION_REQUIRED", "receipt"}
      BY <2>1 DEF BridgeFinds, Existing, Sold
    <3>. QED
      BY <3>1 DEF Results
  <2>2. CASE BridgeRefuses(c)
    BY <2>2 DEF BridgeRefuses, Sold, Results
  <2>3. CASE BridgeRollsBack(c)
    BY <2>3 DEF BridgeRollsBack, Results
  <2>. QED
    BY <2>1, <2>2, <2>3
<1>3. /\ Forward /\ SoldAsApproved' /\ sale' \in Sales \cup {NoSale}
      /\ company' \in BOOLEAN /\ associated' \in BOOLEAN /\ deal' \in Stages
      /\ index' \in Stages /\ (index' # "none" => deal' # "none")
      /\ UNCHANGED <<master, sold, progressed>>
  BY <1>1 DEF Forward, Sold, hubspotVars, IInv, SoldAsApproved, TypeOK
<1>4. text = "receipt" => Backed(step[c])'
  BY <1>1, <1>2 DEF Backed, Sold, Reply
<1>. QED
  BY <1>1, <1>2, <1>3, <1>4, ReplyStep

\* What Odoo has checked again passes the adapter's policy, because the price
\* is the one the adapter has accepted.
LEMMA BridgeAcceptsStep ==
  ASSUME IInv, NEW c \in Calls, BridgeAccepts(c), UNCHANGED hubspotVars PROVE IInv'
<1>1. /\ request[c] = "bridge" /\ ~Sold /\ Recheck(c) /\ step[c] = "ODOO_BRIDGE"
      /\ request' = [request EXCEPT ![c] = "creating"]
      /\ snapshot' = [snapshot EXCEPT ![c] = master]
      /\ UNCHANGED <<receipts, begun, step, pc, exists, answer, outcome>>
      /\ UNCHANGED <<master, changes, sale, seen, sold>>
  BY RequestOfStep DEF BridgeAccepts, Sold
<1>2. /\ Forward /\ TypeOK /\ CallHolds(c) /\ SoldAsApproved /\ SoldAsApproved'
      /\ (index' # "none" => deal' # "none")
  BY <1>1 DEF Forward, Sold, hubspotVars, IInv, SoldAsApproved
<1>3. Passes(master) /\ seen[c].partner = master.partner /\ seen[c] \in MasterData
  BY <1>1, <1>2 DEF CallHolds, Bridging, Recheck, Passes
<1>4. TypeOK'
  BY <1>1, <1>2 DEF TypeOK, hubspotVars, Requests
<1>5. /\ request'[c] = "creating" /\ snapshot'[c] = master /\ master \in MasterData
      /\ \A d \in Calls \ {c} : Untouched(d)
  BY <1>1, <1>2 DEF TypeOK, hubspotVars, Untouched
<1>6. Calling(c)'
  <2>1. "creating" \in RequestsOf["ODOO_BRIDGE"]
    BY DEF RequestsOf
  <2>2. Backed(step[c]) => Backed(step[c])'
    BY <1>1, <1>2 DEF Backed, Forward
  <2>. QED
    BY <1>1, <1>2, <1>5, <2>1, <2>2 DEF CallHolds, Calling
<1>7. Bridging(c)'
  BY <1>1, <1>2, <1>3, <1>5 DEF CallHolds, Bridging, Sold, Passes
<1>8. Dealing(c)'
  BY <1>1, <1>2, <1>5 DEF CallHolds, Dealing, hubspotVars
<1>. QED
  BY <1>1, <1>2, <1>4, <1>5, <1>6, <1>7, <1>8, OneCall DEF CallHolds

\* The sale order is created from the snapshot, for the partner that the
\* request names.
LEMMA BridgeCommitsStep ==
  ASSUME IInv, NEW c \in Calls, BridgeCommits(c), UNCHANGED hubspotVars PROVE IInv'
<1>1. /\ request[c] = "creating" /\ step[c] = "ODOO_BRIDGE"
      /\ snapshot' = [snapshot EXCEPT ![c] = NoData] /\ seen' = [seen EXCEPT ![c] = NoData]
      /\ UNCHANGED <<master, sold>>
  BY RequestOfStep DEF BridgeCommits, Forget
<1>2. /\ TypeOK /\ seen[c] \in MasterData /\ snapshot[c] \in MasterData
      /\ Passes(snapshot[c]) /\ seen[c].partner = snapshot[c].partner
  BY <1>1 DEF IInv, CallHolds, Bridging
<1>3. /\ company' \in BOOLEAN /\ associated' \in BOOLEAN /\ deal' \in Stages
      /\ index' \in Stages /\ (index' # "none" => deal' # "none")
      /\ UNCHANGED <<master, sold, progressed>>
  BY <1>1 DEF hubspotVars, IInv, TypeOK
<1>4. CASE sale = NoSale
  <2>1. /\ sale' = [state |-> "sale", partner |-> seen[c].partner, checked |-> snapshot[c]]
        /\ Reply(c, "receipt")
    BY <1>4 DEF BridgeCommits
  <2>2. seen[c].partner \in Partners
    BY <1>2 DEF MasterData
  <2>. HIDE DEF MasterData
  <2>3. sale' \in Sales /\ sale'.checked = snapshot[c] /\ sale'.partner = snapshot[c].partner
    BY <1>2, <2>1, <2>2 DEF Sales
  <2>4. Sold'
    BY <2>1 DEF Sold, NoSale
  <2>5. SoldAsApproved'
    BY <1>2, <2>3 DEF SoldAsApproved
  <2>6. Forward /\ Backed(step[c])' /\ "receipt" \in Results
    BY <1>1, <2>1, <2>4 DEF Forward, hubspotVars, Backed, Reply, Results
  <2>. QED
    BY <1>1, <1>3, <2>1, <2>3, <2>5, <2>6, ReplyStep
<1>5. CASE sale # NoSale
  <2>1. UNCHANGED sale /\ Reply(c, "PROVIDER_UNAVAILABLE")
    BY <1>5 DEF BridgeCommits
  <2>2. /\ Forward /\ SoldAsApproved' /\ sale' \in Sales \cup {NoSale}
        /\ "PROVIDER_UNAVAILABLE" \in Results
    BY <1>2, <2>1 DEF Forward, Sold, hubspotVars, IInv, SoldAsApproved, TypeOK, Results
  <2>. QED
    BY <1>1, <1>3, <2>1, <2>2, ReplyStep
<1>. QED
  BY <1>4, <1>5

\* People change master data and cancel sale orders, not the calls.
LEMMA PeopleStep ==
  ASSUME IInv, MasterDataChange \/ SaleIsCancelled, UNCHANGED hubspotVars PROVE IInv'
<1>1. UNCHANGED <<callVars, seen, snapshot, sold, hubspotVars>>
  BY DEF MasterDataChange, SaleIsCancelled
<1>2. /\ sale' \in Sales \cup {NoSale} /\ (Sold => Sold') /\ SoldAsApproved'
      /\ master' \in MasterData
  <2>1. CASE MasterDataChange
    BY <2>1 DEF MasterDataChange, IInv, TypeOK, Sold, SoldAsApproved
  <2>2. CASE SaleIsCancelled
    <3>1. sale.state = "sale" /\ sale' = [sale EXCEPT !.state = "cancel"] /\ UNCHANGED master
      BY <2>2 DEF SaleIsCancelled
    <3>2. sale \in Sales /\ Sold
      BY <3>1 DEF IInv, TypeOK, NoSale, Sold
    <3>3. /\ sale' \in Sales /\ sale'.checked = sale.checked
          /\ sale'.partner = sale.partner /\ sale'.state = "cancel"
      BY <3>1, <3>2 DEF Sales
    <3>4. Sold'
      BY <3>3 DEF Sold, NoSale
    <3>. QED
      BY <3>1, <3>2, <3>3, <3>4 DEF IInv, TypeOK, SoldAsApproved, Sold
  <2>. QED
    BY <2>1, <2>2
<1>3. Forward /\ TypeOK' /\ begun \in Nat /\ begun' = begun
  BY <1>1, <1>2 DEF Forward, hubspotVars, callVars, IInv, TypeOK
<1>4. \A c \in Calls : Untouched(c)
  BY <1>1 DEF Untouched, callVars, hubspotVars
<1>5. \A c \in Calls : CallHolds(c)'
  BY <1>3, <1>4, UntouchedHolds DEF IInv
<1>6. Current' /\ ReceiptsAreBacked' /\ (index' # "none" => deal' # "none")
  BY <1>1, <1>2 DEF IInv, Current, ReceiptsAreBacked, callVars, hubspotVars, Sold
<1>. QED
  BY <1>2, <1>3, <1>5, <1>6 DEF IInv

\* A CRM step sends its request: the call had none.
LEMMA SendHolds ==
  ASSUME IInv, NEW c \in Calls, pc[c] = "begun",
         NEW sent \in Requests, Send(c, sent), sent \in RequestsOf[step[c]],
         sent \notin {"bridge", "creating"},
         NEW found \in BOOLEAN, exists' = [exists EXCEPT ![c] = found],
         step[c] # "ODOO_BRIDGE",
         sent = "patch" => deal # "none" /\ found,
         UNCHANGED <<receipts, begun, step, answer, outcome, odooVars, hubspotVars>>
  PROVE  IInv'
<1>1. request' = [request EXCEPT ![c] = sent] /\ pc' = [pc EXCEPT ![c] = "waiting"]
  BY DEF Send, GoTo
<1>2. /\ Forward /\ TypeOK /\ CallHolds(c) /\ SoldAsApproved'
      /\ (index' # "none" => deal' # "none")
  BY DEF Forward, Sold, hubspotVars, odooVars, IInv, SoldAsApproved
<1>3. TypeOK'
  BY <1>1, <1>2 DEF TypeOK, hubspotVars, odooVars, Places
<1>4. /\ request'[c] = sent /\ pc'[c] = "waiting"
      /\ (exists'[c] <=> found)
      /\ \A d \in Calls \ {c} : Untouched(d)
  BY <1>1, <1>2 DEF TypeOK, hubspotVars, odooVars, Untouched
<1>5. Calling(c)'
  BY <1>2, <1>4 DEF CallHolds, Calling
<1>6. Bridging(c)'
  BY <1>2, <1>4 DEF CallHolds, Bridging, hubspotVars, odooVars, Sold
<1>7. Dealing(c)'
  BY <1>2, <1>4 DEF CallHolds, Calling, Dealing, hubspotVars
<1>. QED
  BY <1>2, <1>3, <1>4, <1>5, <1>6, <1>7, OneCall DEF CallHolds

\* The call ends where it is.
LEMMA EndStep ==
  ASSUME IInv, NEW c \in Calls, NEW result \in Results, End(c, result),
         pc[c] # "not begun", step[c] # "ODOO_BRIDGE", result # "receipt",
         UNCHANGED <<receipts, begun, step, request, odooVars, hubspotVars>>
  PROVE  IInv'
<1>1. /\ Forward /\ TypeOK /\ SoldAsApproved'
      /\ (index' # "none" => deal' # "none")
      /\ UNCHANGED <<begun, step, request, seen, snapshot, sold, progressed>>
  BY DEF Forward, Sold, hubspotVars, odooVars, IInv, SoldAsApproved
<1>2. /\ CallHolds(c)' /\ pc'[c] = "ended"
      /\ pc' \in [Calls -> Places] /\ outcome' \in [Calls -> Results]
      /\ exists' \in [Calls -> BOOLEAN] /\ answer' \in [Calls -> Results]
      /\ \A d \in Calls \ {c} :
           /\ pc'[d] = pc[d] /\ outcome'[d] = outcome[d]
           /\ exists'[d] = exists[d] /\ answer'[d] = answer[d]
  BY <1>1, EndHolds
<1>3. TypeOK'
  BY <1>1, <1>2 DEF TypeOK, hubspotVars, odooVars
<1>4. \A d \in Calls \ {c} : Untouched(d)
  BY <1>1, <1>2 DEF Untouched
<1>. QED
  BY <1>1, <1>2, <1>3, <1>4, OneCall

\* The adapter sends the company, unless the customer is no longer active.
LEMMA SendUpsertStep ==
  ASSUME IInv, NEW c \in Calls, SendUpsert(c) PROVE IInv'
<1>1. /\ step[c] = "HUBSPOT_COMPANY" /\ pc[c] = "begun"
      /\ UNCHANGED <<receipts, begun, step, odooVars, hubspotVars>>
  BY DEF SendUpsert, At
<1>2. CASE master.active
  <2>1. /\ Send(c, "upsert") /\ UNCHANGED <<exists, answer, outcome>>
        /\ "upsert" \in RequestsOf[step[c]] /\ "upsert" \in Requests
    BY <1>1, <1>2 DEF SendUpsert, RequestsOf, Requests
  <2>2. exists[c] \in BOOLEAN /\ exists' = [exists EXCEPT ![c] = exists[c]]
    BY <2>1 DEF IInv, TypeOK
  <2>. QED
    BY <1>1, <2>1, <2>2, SendHolds
<1>3. CASE ~master.active
  <2>1. End(c, "NOT_ELIGIBLE") /\ UNCHANGED request /\ "NOT_ELIGIBLE" \in Results
    BY <1>3 DEF SendUpsert, Results
  <2>. QED
    BY <1>1, <2>1, EndStep
<1>. QED
  BY <1>2, <1>3

\* What is not set up ends the call before anything is asked.
LEMMA NotSetUpStep ==
  ASSUME IInv, NEW c \in Calls, NotSetUp(c) PROVE IInv'
<1>1. /\ step[c] # "ODOO_BRIDGE" /\ pc[c] = "begun"
      /\ UNCHANGED <<receipts, begun, step, request, odooVars, hubspotVars>>
  BY DEF NotSetUp
<1>2. PICK code \in {"INTEGRATION_CONFIG", "PROVIDER_INVALID_RESPONSE", "PROVIDER_REJECTED"} :
        End(c, code)
  BY DEF NotSetUp
<1>3. code \in Results /\ code # "receipt"
  BY DEF Results
<1>. QED
  BY <1>1, <1>2, <1>3, EndStep

\* The adapter searches, and creates or patches the deal by what it finds.
LEMMA SearchDealStep ==
  ASSUME IInv, NEW c \in Calls, SearchDeal(c) PROVE IInv'
<1>1. /\ step[c] = "HUBSPOT_DEAL" /\ pc[c] = "begun"
      /\ UNCHANGED <<receipts, begun, step, odooVars, hubspotVars>>
  BY DEF SearchDeal, At
<1>2. CASE index = "progressed"
  <2>1. /\ End(c, "RECONCILIATION_REQUIRED") /\ UNCHANGED request
        /\ "RECONCILIATION_REQUIRED" \in Results
    BY <1>2 DEF SearchDeal, Results
  <2>. QED
    BY <1>1, <2>1, EndStep
<1>3. CASE index # "progressed"
  <2>. DEFINE sent == IF index = "none" THEN "create" ELSE "patch"
              found == index # "none"
  <2>1. /\ Send(c, sent) /\ exists' = [exists EXCEPT ![c] = found]
        /\ UNCHANGED <<answer, outcome>>
    BY <1>3 DEF SearchDeal
  <2>2. /\ sent \in {"create", "patch"} /\ found \in BOOLEAN
        /\ (sent = "patch" => deal # "none" /\ found)
    BY DEF IInv
  <2>3. sent \in RequestsOf[step[c]] /\ sent \in Requests /\ sent \notin {"bridge", "creating"}
    BY <1>1, <2>2 DEF RequestsOf, Requests
  <2>. HIDE DEF sent, found
  <2>. QED
    BY <1>1, <2>1, <2>2, <2>3, SendHolds
<1>. QED
  BY <1>2, <1>3

\* The adapter asks for the association of the deal and its company.
LEMMA SendAssociationStep ==
  ASSUME IInv, NEW c \in Calls, SendAssociation(c) PROVE IInv'
<1>1. /\ step[c] = "HUBSPOT_ASSOCIATION" /\ pc[c] = "begun" /\ Send(c, "put")
      /\ UNCHANGED <<receipts, begun, step, exists, answer, outcome, odooVars, hubspotVars>>
      /\ "put" \in RequestsOf[step[c]] /\ "put" \in Requests
  BY DEF SendAssociation, At, RequestsOf, Requests
<1>2. exists[c] \in BOOLEAN /\ exists' = [exists EXCEPT ![c] = exists[c]]
  BY <1>1 DEF IInv, TypeOK
<1>. QED
  BY <1>1, <1>2, SendHolds

\* HubSpot accepts a request for later: that is no receipt.
LEMMA IsAcceptedStep ==
  ASSUME IInv, NEW c \in Calls, IsAccepted(c) PROVE IInv'
<1>1. /\ pc[c] = "waiting" /\ answer' = [answer EXCEPT ![c] = "PROVIDER_PENDING"]
      /\ UNCHANGED <<receipts, begun, step, pc, exists, request, outcome, odooVars, hubspotVars>>
  BY DEF IsAccepted, Accepted
<1>2. /\ Forward /\ TypeOK /\ CallHolds(c) /\ SoldAsApproved'
      /\ (index' # "none" => deal' # "none")
  BY <1>1 DEF Forward, Sold, hubspotVars, odooVars, IInv, SoldAsApproved
<1>3. TypeOK'
  BY <1>1, <1>2 DEF TypeOK, hubspotVars, odooVars, Results
<1>4. /\ answer'[c] = "PROVIDER_PENDING"
      /\ \A d \in Calls \ {c} : Untouched(d)
  BY <1>1, <1>2 DEF TypeOK, hubspotVars, odooVars, Untouched
<1>5. Calling(c)'
  BY <1>1, <1>2, <1>4 DEF CallHolds, Calling
<1>6. Bridging(c)'
  BY <1>1, <1>2, <1>4 DEF CallHolds, Bridging, hubspotVars, odooVars, Sold
<1>7. Dealing(c)'
  BY <1>1, <1>2, <1>4 DEF CallHolds, Dealing, hubspotVars
<1>. QED
  BY <1>1, <1>2, <1>3, <1>4, <1>5, <1>6, <1>7, OneCall DEF CallHolds

\* HubSpot does what it was asked, or fails.  A deal that is created is new,
\* whatever its stage, and one that is patched is there.
LEMMA HubSpotAnswersStep ==
  ASSUME IInv, NEW c \in Calls,
         \/ UpsertCompletes(c) \/ DealIsCreated(c) \/ DealIsPatched(c)
         \/ AssociationIsMade(c) \/ HubSpotFails(c)
  PROVE  IInv'
<1>1. /\ request[c] # "none" /\ TypeOK /\ CallHolds(c)
      /\ UNCHANGED <<odooVars, index, progressed>>
  BY DEF IInv, UpsertCompletes, DealIsCreated, DealIsPatched, AssociationIsMade, HubSpotFails,
         hubspotVars
<1>2. /\ UNCHANGED <<master, sold, seen, snapshot, sale, index, progressed>>
      /\ SoldAsApproved' /\ sale' \in Sales \cup {NoSale} /\ index' \in Stages
  BY <1>1 DEF odooVars, IInv, SoldAsApproved, TypeOK
<1>3. CASE UpsertCompletes(c)
  <2>1. /\ company' = TRUE /\ UNCHANGED <<deal, associated>> /\ Reply(c, "receipt")
        /\ step[c] = "HUBSPOT_COMPANY"
    BY <1>3, RequestOfStep DEF UpsertCompletes
  <2>2. Forward /\ (index' # "none" => deal' # "none") /\ company' \in BOOLEAN
    BY <1>2, <2>1 DEF Forward, Sold, IInv
  <2>3. Backed(step[c])' /\ "receipt" \in Results /\ associated' \in BOOLEAN /\ deal' \in Stages
    BY <1>1, <2>1 DEF Backed, Reply, Results, TypeOK
  <2>. QED
    BY <1>1, <1>2, <2>1, <2>2, <2>3, ReplyStep
<1>4. CASE DealIsCreated(c)
  <2>1. /\ UNCHANGED <<company, associated>> /\ step[c] = "HUBSPOT_DEAL"
        /\ company' \in BOOLEAN /\ associated' \in BOOLEAN
    BY <1>1, <1>4, RequestOfStep DEF DealIsCreated, TypeOK
  <2>2. ASSUME deal = "none", NEW stage \in Stages \ {"none"}, CreatedIn(c, stage) PROVE IInv'
    <3>. DEFINE text == IF stage = "initial" THEN "receipt" ELSE "PROVIDER_INVALID_RESPONSE"
    <3>1. Reply(c, text) /\ deal' = stage
      BY <2>2 DEF CreatedIn
    <3>2. text \in {"receipt", "PROVIDER_INVALID_RESPONSE"} /\ ~progressed[c]
      BY <1>1, <2>2 DEF CallHolds, Dealing
    <3>3. deal' # "none" /\ deal' \in Stages /\ Forward
      BY <1>1, <1>2, <2>1, <2>2, <3>1 DEF Forward, Sold, Stages, TypeOK
    <3>4. Backed(step[c])' /\ text \in Results
      BY <1>1, <2>1, <3>1, <3>2, <3>3 DEF Backed, Reply, Results
    <3>. HIDE DEF text
    <3>. QED
      BY <1>1, <1>2, <2>1, <3>1, <3>2, <3>3, <3>4, ReplyStep
  <2>3. ASSUME deal # "none", Reply(c, "PROVIDER_UNAVAILABLE"), UNCHANGED deal PROVE IInv'
    <3>1. /\ Forward /\ deal' \in Stages /\ (index' # "none" => deal' # "none")
          /\ "PROVIDER_UNAVAILABLE" \in Results
      BY <1>1, <1>2, <2>1, <2>3 DEF Forward, Sold, TypeOK, Results
    <3>. QED
      BY <1>1, <1>2, <2>1, <2>3, <3>1, ReplyStep
  <2>. QED
    BY <1>4, <2>2, <2>3 DEF DealIsCreated
<1>5. CASE DealIsPatched(c)
  <2>1. /\ Reply(c, "receipt") /\ UNCHANGED <<company, associated, deal>>
        /\ step[c] = "HUBSPOT_DEAL" /\ deal # "none" /\ (pc[c] = "waiting" => exists[c])
    BY <1>1, <1>5, RequestOfStep DEF DealIsPatched, Patched, CallHolds, Dealing
  <2>2. Forward /\ (index' # "none" => deal' # "none")
    BY <1>2, <2>1 DEF Forward, Sold, IInv
  <2>3. /\ Backed(step[c])' /\ "receipt" \in Results /\ associated' \in BOOLEAN
        /\ deal' \in Stages /\ company' \in BOOLEAN
    BY <1>1, <2>1 DEF Backed, Reply, Results, TypeOK
  <2>. QED
    BY <1>1, <1>2, <2>1, <2>2, <2>3, ReplyStep
<1>6. CASE AssociationIsMade(c)
  <2>1. /\ associated' = TRUE /\ UNCHANGED <<deal, company>> /\ Reply(c, "receipt")
        /\ step[c] = "HUBSPOT_ASSOCIATION"
    BY <1>6, RequestOfStep DEF AssociationIsMade
  <2>2. Forward /\ (index' # "none" => deal' # "none") /\ associated' \in BOOLEAN
    BY <1>2, <2>1 DEF Forward, Sold, IInv
  <2>3. Backed(step[c])' /\ "receipt" \in Results /\ company' \in BOOLEAN /\ deal' \in Stages
    BY <1>1, <2>1 DEF Backed, Reply, Results, TypeOK
  <2>. QED
    BY <1>1, <1>2, <2>1, <2>2, <2>3, ReplyStep
<1>7. CASE HubSpotFails(c)
  <2>1. PICK code \in {"PROVIDER_UNAVAILABLE", "PROVIDER_REJECTED"} : Reply(c, code)
    BY <1>7 DEF HubSpotFails
  <2>2. UNCHANGED <<company, deal, associated>> /\ code \in Results
    BY <1>7 DEF HubSpotFails, hubspotVars, Results
  <2>3. /\ Forward /\ (index' # "none" => deal' # "none") /\ associated' \in BOOLEAN
        /\ deal' \in Stages /\ company' \in BOOLEAN
    BY <1>1, <1>2, <2>2 DEF Forward, Sold, IInv, TypeOK
  <2>. QED
    BY <1>1, <1>2, <2>1, <2>2, <2>3, ReplyStep
<1>. QED
  BY <1>3, <1>4, <1>5, <1>6, <1>7

\* Reading back confirms only what is there, and never a deal that has moved
\* on.
LEMMA VerifyStep ==
  ASSUME IInv, NEW c \in Calls, Verify(c) PROVE IInv'
<1>1. /\ pc[c] = "verifying"
      /\ UNCHANGED <<receipts, begun, step, request, odooVars, hubspotVars>>
  BY DEF Verify
<1>2. /\ Forward /\ TypeOK /\ CallHolds(c) /\ SoldAsApproved'
      /\ (index' # "none" => deal' # "none")
  BY <1>1 DEF Forward, Sold, hubspotVars, odooVars, IInv, SoldAsApproved
<1>3. CASE End(c, "RECONCILIATION_REQUIRED")
  <2>1. /\ "RECONCILIATION_REQUIRED" \in Results
        /\ UNCHANGED <<begun, step, request, seen, snapshot, sold, progressed>>
    BY <1>1 DEF Results, odooVars, hubspotVars
  <2>2. /\ CallHolds(c)' /\ pc'[c] = "ended"
        /\ pc' \in [Calls -> Places] /\ outcome' \in [Calls -> Results]
        /\ exists' \in [Calls -> BOOLEAN] /\ answer' \in [Calls -> Results]
        /\ \A d \in Calls \ {c} :
             /\ pc'[d] = pc[d] /\ outcome'[d] = outcome[d]
             /\ exists'[d] = exists[d] /\ answer'[d] = answer[d]
    BY <1>1, <1>2, <1>3, <2>1, EndHolds
  <2>3. TypeOK'
    BY <1>1, <1>2, <2>2 DEF TypeOK, hubspotVars, odooVars
  <2>4. \A d \in Calls \ {c} : Untouched(d)
    BY <2>1, <2>2 DEF Untouched
  <2>. QED
    BY <1>1, <1>2, <2>2, <2>3, <2>4, OneCall
<1>4. CASE \/ step[c] = "HUBSPOT_DEAL" /\ deal = "initial"
           \/ step[c] = "HUBSPOT_ASSOCIATION" /\ associated
  <2>1. pc' = [pc EXCEPT ![c] = "confirmed"] /\ UNCHANGED <<exists, answer, outcome>>
    BY <1>4 DEF Verify, GoTo
  <2>2. TypeOK'
    BY <1>1, <1>2, <2>1 DEF TypeOK, hubspotVars, odooVars, Places
  <2>3. pc'[c] = "confirmed" /\ \A d \in Calls \ {c} : Untouched(d)
    BY <1>1, <1>2, <2>1 DEF TypeOK, hubspotVars, odooVars, Untouched
  <2>4. Calling(c)'
    <3>1. Backed(step[c])'
      BY <1>1, <1>4 DEF Backed, hubspotVars
    <3>. QED
      BY <1>1, <1>2, <2>1, <2>3, <3>1 DEF CallHolds, Calling
  <2>5. Bridging(c)'
    BY <1>1, <1>2, <1>4, <2>1, <2>3 DEF CallHolds, Bridging, hubspotVars, odooVars, Sold
  <2>6. Dealing(c)'
    BY <1>1, <1>2, <1>4, <2>1, <2>3 DEF CallHolds, Dealing, hubspotVars
  <2>. QED
    BY <1>1, <1>2, <2>2, <2>3, <2>4, <2>5, <2>6, OneCall DEF CallHolds
<1>5. \/ End(c, "RECONCILIATION_REQUIRED")
      \/ step[c] = "HUBSPOT_DEAL" /\ deal = "initial"
      \/ step[c] = "HUBSPOT_ASSOCIATION" /\ associated
  BY DEF Verify
<1>. QED
  BY <1>3, <1>4, <1>5

\* Sales people and the search index move on, not the calls.
LEMMA SurroundingsStep ==
  ASSUME IInv, DealMovesOn \/ IndexCatchesUp PROVE IInv'
<1>1. UNCHANGED <<callVars, odooVars, company, associated, progressed>>
  BY DEF DealMovesOn, IndexCatchesUp
<1>2. /\ deal' \in Stages /\ index' \in Stages /\ (index' # "none" => deal' # "none")
      /\ (deal # "none" => deal' # "none") /\ (deal = "progressed" => deal' = "progressed")
  BY DEF DealMovesOn, IndexCatchesUp, IInv, TypeOK, Stages
<1>3. Forward /\ TypeOK' /\ begun \in Nat /\ begun' = begun
  BY <1>1, <1>2 DEF Forward, Sold, odooVars, callVars, IInv, TypeOK
<1>4. \A c \in Calls : Untouched(c)
  BY <1>1 DEF Untouched, callVars, odooVars
<1>5. \A c \in Calls : CallHolds(c)'
  BY <1>3, <1>4, UntouchedHolds DEF IInv
<1>6. Current' /\ ReceiptsAreBacked' /\ SoldAsApproved'
  BY <1>1, <1>2 DEF IInv, Current, ReceiptsAreBacked, SoldAsApproved, callVars, odooVars
<1>. QED
  BY <1>2, <1>3, <1>5, <1>6 DEF IInv

\* The receipt of the current call is that of the next step; a call that was
\* outrun leaves nothing.
LEMMA PersistStep ==
  ASSUME IInv, NEW c \in Calls, Persist(c), UNCHANGED <<odooVars, hubspotVars>>
  PROVE  IInv'
<1>1. /\ pc[c] = "confirmed" /\ UNCHANGED <<begun, step, request>>
      /\ UNCHANGED <<seen, snapshot, sold, progressed>>
  BY DEF Persist, odooVars, hubspotVars
<1>2. /\ Forward /\ TypeOK /\ CallHolds(c) /\ SoldAsApproved'
      /\ (index' # "none" => deal' # "none")
  BY DEF Forward, Sold, hubspotVars, odooVars, IInv, SoldAsApproved
<1>3. PICK result \in {"receipt", "STALE"} :
        /\ End(c, result)
        /\ IF c = begun THEN receipts' = receipts + 1 ELSE UNCHANGED receipts
  BY DEF Persist
<1>4. /\ ~(step[c] = "HUBSPOT_DEAL" /\ progressed[c]) /\ result \in Results
      /\ Backed(step[c])
  BY <1>1, <1>2 DEF CallHolds, Calling, Dealing, Results
<1>5. /\ CallHolds(c)' /\ pc'[c] = "ended"
      /\ pc' \in [Calls -> Places] /\ outcome' \in [Calls -> Results]
      /\ exists' \in [Calls -> BOOLEAN] /\ answer' \in [Calls -> Results]
      /\ \A d \in Calls \ {c} :
           /\ pc'[d] = pc[d] /\ outcome'[d] = outcome[d]
           /\ exists'[d] = exists[d] /\ answer'[d] = answer[d]
  <2>1. pc[c] # "not begun" /\ (result = "receipt" => step[c] # "HUBSPOT_DEAL" \/ ~progressed[c])
    BY <1>1, <1>4
  <2>2. result # "NOT_ELIGIBLE" /\ seen'[c] = seen[c]
    BY <1>1
  <2>. QED
    BY <1>1, <1>2, <1>3, <1>4, <2>1, <2>2, EndHolds
<1>6. \A d \in Calls \ {c} : Untouched(d)
  BY <1>1, <1>5 DEF Untouched
<1>7. \A d \in Calls : CallHolds(d)'
  <2>1. begun \in Nat /\ begun' = begun
    BY <1>1, <1>2 DEF TypeOK
  <2>2. ASSUME NEW d \in Calls \ {c} PROVE CallHolds(d)'
    <3>1. CallHolds(d) /\ Untouched(d)
      BY <1>6 DEF IInv
    <3>. QED
      BY <1>2, <2>1, <3>1, UntouchedHolds
  <2>. QED
    BY <1>5, <2>2
<1>8. CASE c = begun
  <2>1. receipts < 4 /\ step[c] = StepOrder[receipts + 1] /\ receipts' = receipts + 1
    <3>1. begun > 0 /\ pc[begun] # "ended"
      BY <1>1, <1>8 DEF Calls
    <3>. QED
      BY <1>3, <1>8, <3>1 DEF IInv, Current
  <2>2. receipts \in 0..3 /\ receipts' \in 0..4
    BY <1>2, <2>1 DEF TypeOK
  <2>3. ReceiptsAreBacked'
    <3>1. /\ receipts = 0 => Sold
          /\ receipts = 1 => company
          /\ receipts = 2 => deal # "none"
          /\ receipts = 3 => associated
      BY <1>4, <2>1, <2>2 DEF StepOrder, Backed
    <3>. QED
      BY <2>1, <2>2, <3>1
      DEF IInv, ReceiptsAreBacked, Sold, odooVars, hubspotVars
  <2>4. Current'
    BY <1>1, <1>5, <1>8 DEF Current
  <2>5. TypeOK'
    BY <1>1, <1>2, <1>5, <2>2 DEF TypeOK, odooVars, hubspotVars
  <2>. QED
    BY <1>2, <1>7, <2>3, <2>4, <2>5 DEF IInv
<1>9. CASE c # begun
  <2>1. UNCHANGED receipts
    BY <1>3, <1>9
  <2>2. TypeOK'
    BY <1>1, <1>2, <1>5, <2>1 DEF TypeOK, odooVars, hubspotVars
  <2>. QED
    BY <1>1, <1>2, <1>5, <1>6, <2>1, <2>2, OneCall
<1>. QED
  BY <1>8, <1>9

\* A new call begins with the step that has no receipt, and knows nothing.
LEMMA BeginStep == ASSUME IInv, Begin PROVE IInv'
<1>1. PICK c \in Calls :
        /\ c = begun + 1 /\ c \in Nat /\ begun \in Nat /\ begun' = c /\ c > begun
        /\ TypeOK /\ CallHolds(c) /\ receipts \in 0..3
  <2>1. /\ begun \in 0..MaxCalls /\ begun < MaxCalls /\ begun' = begun + 1
        /\ receipts < 4 /\ receipts \in 0..4
    BY DEF Begin, BeginCall, StepOrder, IInv, TypeOK
  <2>2. begun + 1 \in Calls
    BY <2>1, MaxCallsAssumption DEF Calls
  <2>. QED
    BY <2>1, <2>2 DEF IInv
<1>2. /\ step' = [step EXCEPT ![c] = StepOrder[receipts + 1]]
      /\ pc' = [pc EXCEPT ![c] = "begun"]
      /\ UNCHANGED <<receipts, exists, request, answer, outcome>>
      /\ UNCHANGED <<master, changes, sale, seen, snapshot, company, deal, index, associated>>
  BY <1>1 DEF Begin, BeginCall, GoTo
<1>3. PICK was \in BOOLEAN, moved \in BOOLEAN :
        /\ sold' = [sold EXCEPT ![c] = was] /\ (was => Sold)
        /\ progressed' = [progressed EXCEPT ![c] = moved] /\ (moved => deal = "progressed")
  <2>. DEFINE was == receipts = 0 /\ sale # NoSale
              moved == receipts = 2 /\ deal = "progressed"
  <2>1. /\ sold' = [sold EXCEPT ![c] = was] /\ progressed' = [progressed EXCEPT ![c] = moved]
    BY <1>1 DEF Begin
  <2>2. was \in BOOLEAN /\ moved \in BOOLEAN /\ (was => Sold) /\ (moved => deal = "progressed")
    BY DEF Sold
  <2>. HIDE DEF was, moved
  <2>. QED
    BY <2>1, <2>2
<1>4. StepOrder[receipts + 1] \in Steps
  BY <1>1 DEF StepOrder, Steps
<1>5. TypeOK'
  <2>1. c \in 0..MaxCalls
    BY <1>1, MaxCallsAssumption DEF Calls
  <2>. QED
    BY <1>1, <1>2, <1>3, <1>4, <2>1 DEF TypeOK, Places
<1>6. Forward
  BY <1>2 DEF Forward, Sold
<1>7. /\ step'[c] = StepOrder[receipts + 1] /\ pc'[c] = "begun"
      /\ (sold'[c] => Sold) /\ (progressed'[c] => deal = "progressed")
      /\ \A d \in Calls \ {c} : Untouched(d)
  BY <1>1, <1>2, <1>3 DEF TypeOK, Untouched
<1>8. Calling(c)'
  <2>1. "none" \in RequestsOf[StepOrder[receipts + 1]]
    BY <1>4 DEF RequestsOf, Steps
  <2>2. request[c] = "none" /\ answer[c] = "none"
    BY <1>1 DEF CallHolds, Calling
  <2>3. ~(c > begun')
    BY <1>1
  <2>. QED
    BY <1>2, <1>7, <2>1, <2>2, <2>3 DEF Calling
<1>9. Bridging(c)'
  BY <1>1, <1>2, <1>7 DEF CallHolds, Calling, Bridging, Sold
<1>10. Dealing(c)'
  BY <1>1, <1>2, <1>7 DEF CallHolds, Calling, Dealing
<1>11. \A d \in Calls : CallHolds(d)'
  <2>1. ASSUME NEW d \in Calls \ {c} PROVE CallHolds(d)'
    <3>1. CallHolds(d) /\ Untouched(d) /\ begun' \in Nat /\ begun' >= begun
      BY <1>1, <1>7 DEF IInv, Calls
    <3>. QED
      BY <1>1, <1>6, <3>1, UntouchedHolds
  <2>. QED
    BY <1>8, <1>9, <1>10, <2>1 DEF CallHolds
<1>12. Current'
  BY <1>1, <1>2, <1>7 DEF Current
<1>13. /\ (index' # "none" => deal' # "none") /\ SoldAsApproved' /\ ReceiptsAreBacked'
  BY <1>2 DEF IInv, SoldAsApproved, ReceiptsAreBacked
<1>. QED
  BY <1>5, <1>11, <1>12, <1>13 DEF IInv

\* Nothing has begun, and a sale order that is there was created from data that
\* passed.
LEMMA InitIInv == Init => IInv
<1>. SUFFICES ASSUME Init PROVE IInv
  OBVIOUS
<1>0. receipts \in 0..2 /\ begun = 0 /\ (receipts = 2 => company)
  BY DEF Init, CallInit, HubSpotInit
<1>1. /\ receipts \in 0..2 /\ begun = 0
      /\ step = [c \in Calls |-> "none"] /\ pc = [c \in Calls |-> "not begun"]
      /\ exists = [c \in Calls |-> FALSE] /\ request = [c \in Calls |-> "none"]
      /\ answer = [c \in Calls |-> "none"] /\ outcome = [c \in Calls |-> "none"]
      /\ seen = [c \in Calls |-> NoData] /\ snapshot = [c \in Calls |-> NoData]
      /\ sold = [c \in Calls |-> FALSE] /\ progressed = [c \in Calls |-> FALSE]
      /\ (company <=> receipts = 2) /\ company \in BOOLEAN
      /\ deal = "none" /\ index = "none" /\ associated = FALSE
      /\ master \in MasterData
  BY DEF Init, CallInit, OdooInit, HubSpotInit
<1>2. /\ sale \in Sales \cup {NoSale} /\ SoldAsApproved
      /\ (receipts >= 1 => sale # NoSale)
  <2>1. CASE receipts = 0
    <3>1. sale = NoSale
      BY <2>1 DEF Init, OdooInit
    <3>. QED
      BY <2>1, <3>1 DEF SoldAsApproved
  <2>2. CASE receipts # 0
    <3>1. /\ sale = [state |-> "sale", partner |-> master.partner, checked |-> master]
          /\ Passes(master)
      BY <2>2 DEF Init, OdooInit
    <3>2. master \in MasterData /\ master.partner \in Partners
      BY <1>1 DEF MasterData
    <3>3. sale \in Sales
      BY <3>1, <3>2 DEF Sales
    <3>4. sale # NoSale /\ sale.checked = master /\ sale.partner = master.partner
      BY <3>1 DEF NoSale
    <3>. QED
      BY <3>1, <3>3, <3>4 DEF SoldAsApproved
  <2>. QED
    BY <2>1, <2>2
<1>3. TypeOK
  <2>1. receipts \in 0..4 /\ begun \in 0..MaxCalls
    BY <1>0, MaxCallsAssumption
  <2>. QED
    BY <1>1, <1>2, <2>1 DEF TypeOK, Places, Requests, Results, Stages
<1>4. ASSUME NEW c \in Calls PROVE CallHolds(c)
  <2>1. Calling(c)
    BY <1>1 DEF Calling, RequestsOf, Backed
  <2>2. Bridging(c) /\ Dealing(c)
    BY <1>1 DEF Bridging, Dealing
  <2>. QED
    BY <2>1, <2>2 DEF CallHolds
<1>5. ReceiptsAreBacked /\ Current
  <2>1. /\ ~(receipts >= 3) /\ ~(receipts >= 4) /\ (receipts >= 2 => company)
        /\ ~(begun > 0)
    BY <1>0
  <2>. QED
    BY <1>2, <2>1 DEF ReceiptsAreBacked, Current
<1>. QED
  BY <1>1, <1>2, <1>3, <1>4, <1>5 DEF IInv

\* Every step of the specification is one of these.
LEMMA NextStep == IInv /\ [Next]_vars => IInv'
<1>. SUFFICES ASSUME IInv, [Next]_vars PROVE IInv'
  OBVIOUS
<1>1. CASE UNCHANGED vars
  <2>1. UNCHANGED <<callVars, odooVars, hubspotVars>>
    BY <1>1 DEF vars
  <2>2. Forward /\ TypeOK' /\ begun \in Nat /\ begun' = begun
    BY <2>1 DEF Forward, Sold, odooVars, hubspotVars, callVars, IInv, TypeOK
  <2>3. \A c \in Calls : Untouched(c)
    BY <2>1 DEF Untouched, callVars, odooVars, hubspotVars
  <2>4. \A c \in Calls : CallHolds(c)'
    BY <2>2, <2>3, UntouchedHolds DEF IInv
  <2>5. /\ Current' /\ ReceiptsAreBacked' /\ SoldAsApproved'
        /\ (index' # "none" => deal' # "none")
    BY <2>1 DEF IInv, Current, ReceiptsAreBacked, SoldAsApproved, callVars, odooVars, hubspotVars
  <2>. QED
    BY <2>2, <2>4, <2>5 DEF IInv
<1>2. CASE Begin
  BY <1>2, BeginStep
<1>3. CASE \E c \in Calls : Persist(c) /\ UNCHANGED <<odooVars, hubspotVars>>
  BY <1>3, PersistStep
<1>4. CASE OdooNext /\ UNCHANGED hubspotVars
  <2>1. ASSUME NEW c \in Calls, TakeBridgeAnswer(c) PROVE IInv'
    <3>1. /\ TakeAnswer(c, FALSE) /\ UNCHANGED <<odooVars, hubspotVars>>
          /\ step[c] # "HUBSPOT_DEAL" /\ FALSE \in BOOLEAN
      BY <1>4, <2>1 DEF TakeBridgeAnswer
    <3>. QED
      BY <3>1, TakeAnswerHolds
  <2>2. ASSUME NEW c \in Calls, GiveUpBridge(c) PROVE IInv'
    <3>1. /\ GiveUp(c) /\ UNCHANGED <<master, changes, sale, snapshot, sold>>
          /\ seen' = seen \/ (request[c] = "none" /\ seen' = [seen EXCEPT ![c] = NoData])
      BY <2>2 DEF GiveUpBridge, Forget
    <3>. QED
      BY <1>4, <3>1, GiveUpHolds
  <2>. QED
    BY <1>4, <2>1, <2>2, ReadStep, RefuseStep, SendBridgeStep, BridgeAnswersStep,
       BridgeAcceptsStep, BridgeCommitsStep, PeopleStep DEF OdooNext
<1>5. CASE HubSpotNext
  <2>1. ASSUME NEW c \in Calls, TakeHubSpotAnswer(c) PROVE IInv'
    <3>1. /\ MustVerify(c) \in BOOLEAN /\ (step[c] = "HUBSPOT_DEAL" /\ exists[c] => MustVerify(c))
      BY DEF MustVerify, IInv, TypeOK
    <3>2. TakeAnswer(c, MustVerify(c)) /\ UNCHANGED <<odooVars, hubspotVars>>
      BY <2>1 DEF TakeHubSpotAnswer
    <3>. QED
      BY <3>1, <3>2, TakeAnswerHolds
  <2>2. ASSUME NEW c \in Calls, GiveUpHubSpot(c) PROVE IInv'
    <3>1. /\ GiveUp(c) /\ UNCHANGED hubspotVars /\ seen' = seen
          /\ UNCHANGED <<master, changes, sale, snapshot, sold>>
      BY <2>2 DEF GiveUpHubSpot, odooVars
    <3>. QED
      BY <3>1, GiveUpHolds
  <2>. QED
    BY <1>5, <2>1, <2>2, NotSetUpStep, SendUpsertStep, SearchDealStep, SendAssociationStep, IsAcceptedStep,
       HubSpotAnswersStep, VerifyStep, SurroundingsStep DEF HubSpotNext
<1>. QED
  BY <1>1, <1>2, <1>3, <1>4, <1>5 DEF Next

\* The invariant of the calls and their providers: every call's knowledge,
\* request and answer agree with what the providers have.
THEOREM Invariance == Spec => []IInv
<1>1. Init => IInv
  BY InitIInv
<1>2. IInv /\ [Next]_vars => IInv'
  BY NextStep
<1>. QED
  BY <1>1, <1>2, PTL DEF Spec

\* Whatever changes between the adapter's piecemeal reads, its check and Odoo's
\* transaction, a sale order is created only from data that policy accepts, for
\* any price list and any tolerance (odoo.py, _opsflow_recheck_before_create).
THEOREM NothingElseIsSold == Spec => []SoldAsApproved
<1>1. IInv => SoldAsApproved
  BY DEF IInv
<1>. QED
  BY <1>1, Invariance, PTL

\* An order that has its sale order is never refused because of what changed
\* since (odoo.py, OdooERPAdapter.execute).
THEOREM RepeatedCallIsServed == Spec => []ReplayIsNotBlocked
<1>1. IInv => ReplayIsNotBlocked
  BY DEF IInv, CallHolds, Bridging, ReplayIsNotBlocked
<1>. QED
  BY <1>1, Invariance, PTL

\* Each receipt stands for a record that its provider has, however many calls
\* are given up or outrun (order_sync.py).
THEOREM ReceiptsStandForRecords == Spec => []ReceiptsAreBacked
<1>1. IInv => ReceiptsAreBacked
  BY DEF IInv
<1>. QED
  BY <1>1, Invariance, PTL

\* A deal that sales has moved on is reported to a person, whatever the search
\* shows (hubspot.py).
THEOREM MovedDealsAreReported == Spec => []ProgressedDealIsReported
<1>1. IInv => ProgressedDealIsReported
  BY DEF IInv, CallHolds, Dealing, ProgressedDealIsReported
<1>. QED
  BY <1>1, Invariance, PTL
==============================================================================
