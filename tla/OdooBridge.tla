----------------------------- MODULE OdooBridge -----------------------------
(***************************************************************************)
(* The bridge step: the Odoo adapter (odoo.py) and the addon that creates  *)
(* the sale order (integrations/odoo/opsflow_sale_bridge).                 *)
(*                                                                         *)
(* The adapter asks whether the sale order is there, reads the master data *)
(* in several calls, checks a new order against the approval policy and    *)
(* sends the bridge request.  Odoo serves it in one transaction that reads *)
(* a snapshot and meets other transactions at its commit.  Meanwhile the   *)
(* master data change, and people cancel sale orders.                      *)
(***************************************************************************)
EXTENDS ProviderCalls

CONSTANTS
  Partners,    \* whom the customer reference may resolve to
  Prices,      \* list prices
  Tolerated,   \* those for which policy accepts the submitted price
  MaxChanges   \* bound: changes of master data

ASSUME OdooAssumption == Tolerated \subseteq Prices /\ MaxChanges \in Nat

VARIABLES
  master,     \* trusted data of the order: customer, products, stock
  changes,    \* changes of them so far
  sale,       \* the sale order with the order's identity
  seen,       \* what each call has read of the master data
  snapshot,   \* what the transaction of its bridge request has read
  sold        \* history: the sale order was there when the call began

odooVars == <<master, changes, sale, seen, snapshot, sold>>

\* active: the customer may buy.  Goods are fit (for sale and in stock), unfit, or
\* a product is no longer found under its SKU.
MasterData == [partner : Partners, active : BOOLEAN,
               goods : {"fit", "unfit", "gone"}, price : Prices]

NoSale == [state |-> "none"]
NoData == [state |-> "unread"]

\* approved_order_trusted_data_issues finds nothing: what Python checks.
Passes(m) == m.active /\ m.goods = "fit" /\ m.price \in Tolerated

OdooInit ==
  /\ master \in {m \in MasterData : Passes(m)}
  /\ changes = 0
  /\ sale = IF receipts = 0 THEN NoSale
            ELSE [state |-> "sale", partner |-> master.partner, checked |-> master]
  /\ seen = [c \in Calls |-> NoData]
  /\ snapshot = [c \in Calls |-> NoData]
  /\ sold = [c \in Calls |-> FALSE]

\* Mutant: current data are checked for an existing sale order too.
MustPassAlways(c) == TRUE

\* A previous request may have committed: then the bridge decides.
MustPass(c) == ~exists[c]

\* _bridge_identity_exists
ReadIdentity(c) ==
  /\ At(c, "ODOO_BRIDGE", "begun")
  /\ exists' = [exists EXCEPT ![c] = sale # NoSale]
  /\ GoTo(c, "identity")
  /\ UNCHANGED <<receipts, begun, step, request, answer, outcome, odooVars>>

\* _lookup_snapshot: the customer and the products in calls of their own.
ReadPartner(c) ==
  /\ At(c, "ODOO_BRIDGE", "identity")
  /\ seen' = [seen EXCEPT ![c] = master]
  /\ GoTo(c, "partner")
  /\ UNCHANGED <<receipts, begun, step, exists, request, answer, outcome>>
  /\ UNCHANGED <<master, changes, sale, snapshot, sold>>

ReadProducts(c) ==
  /\ At(c, "ODOO_BRIDGE", "partner")
  /\ seen' = [seen EXCEPT ![c].goods = master.goods, ![c].price = master.price]
  /\ GoTo(c, "products")
  /\ UNCHANGED <<receipts, begun, step, exists, request, answer, outcome>>
  /\ UNCHANGED <<master, changes, sale, snapshot, sold>>

\* The request, or the call that did not send one, is over.
Forget(c) == seen' = [seen EXCEPT ![c] = NoData]

\* What cannot be found cannot be named in a request (_bridge_arguments).
Named(c) == seen[c].goods # "gone"

\* The preflight refuses a new sale order.
RefuseIneligible(c) ==
  /\ At(c, "ODOO_BRIDGE", "products")
  /\ \/ MustPass(c) /\ ~Passes(seen[c]) /\ End(c, "NOT_ELIGIBLE")
     \/ ~MustPass(c) /\ ~Named(c) /\ End(c, "NOT_FOUND")
  /\ Forget(c)
  /\ UNCHANGED <<receipts, begun, step, request, master, changes, sale, snapshot, sold>>

SendBridge(c) ==
  /\ At(c, "ODOO_BRIDGE", "products")
  /\ IF MustPass(c) THEN Passes(seen[c]) ELSE Named(c)
  /\ Send(c, "bridge")
  /\ UNCHANGED <<receipts, begun, step, exists, answer, outcome, odooVars>>

\* Mutant: the price is not compared again.
RecheckWithoutPrice(c) ==
  seen[c].partner = master.partner /\ master.active /\ master.goods = "fit"

\* _opsflow_recheck_before_create: the policy's tolerance is not known here,
\* only the list price that the adapter's check was based on.
Recheck(c) ==
  /\ seen[c].partner = master.partner /\ master.active
  /\ master.goods = "fit"
  /\ seen[c].price = master.price

\* _opsflow_payload_matches and the state of the existing order.
Existing(c) ==
  IF \/ sale.partner # seen[c].partner \/ sale.partner # master.partner
     \/ master.goods = "gone"
    THEN "IDEMPOTENCY_CONFLICT"
  ELSE IF sale.state # "sale" THEN "RECONCILIATION_REQUIRED"
  ELSE "receipt"

\* The transaction finds the sale order in its snapshot.
BridgeFinds(c) ==
  /\ request[c] = "bridge"
  /\ sale # NoSale
  /\ Reply(c, Existing(c))
  /\ Forget(c)
  /\ UNCHANGED <<master, changes, sale, snapshot, sold>>

BridgeRefuses(c) ==
  /\ request[c] = "bridge"
  /\ sale = NoSale
  /\ ~Recheck(c)
  /\ Reply(c, "NOT_ELIGIBLE")
  /\ Forget(c)
  /\ UNCHANGED <<master, changes, sale, snapshot, sold>>

\* It finds nothing, accepts the data and goes on to create the order.
BridgeAccepts(c) ==
  /\ request[c] = "bridge"
  /\ sale = NoSale
  /\ Recheck(c)
  /\ request' = [request EXCEPT ![c] = "creating"]
  /\ snapshot' = [snapshot EXCEPT ![c] = master]
  /\ UNCHANGED <<receipts, begun, step, pc, exists, answer, outcome>>
  /\ UNCHANGED <<master, changes, sale, seen, sold>>

\* Create and confirm commit together, or the unique identity is taken.
BridgeCommits(c) ==
  /\ request[c] = "creating"
  /\ IF sale = NoSale
     THEN /\ sale' = [state |-> "sale", partner |-> seen[c].partner, checked |-> snapshot[c]]
          /\ Reply(c, "receipt")
     ELSE /\ UNCHANGED sale
          /\ Reply(c, "PROVIDER_UNAVAILABLE")
  /\ snapshot' = [snapshot EXCEPT ![c] = NoData]
  /\ Forget(c)
  /\ UNCHANGED <<master, changes, sold>>

\* Confirmation fails, or Odoo stops: the transaction is rolled back.
BridgeRollsBack(c) ==
  /\ request[c] \in {"bridge", "creating"}
  /\ Reply(c, "PROVIDER_UNAVAILABLE")
  /\ snapshot' = [snapshot EXCEPT ![c] = NoData]
  /\ Forget(c)
  /\ UNCHANGED <<master, changes, sale, sold>>

\* _bridge_result
TakeBridgeAnswer(c) ==
  /\ step[c] = "ODOO_BRIDGE"
  /\ TakeAnswer(c, FALSE)
  /\ UNCHANGED odooVars

\* A call that is given up leaves its request, if it has sent one, to Odoo.
GiveUpBridge(c) ==
  /\ step[c] = "ODOO_BRIDGE"
  /\ GiveUp(c)
  /\ IF request[c] = "none" THEN Forget(c) ELSE UNCHANGED seen
  /\ UNCHANGED <<master, changes, sale, snapshot, sold>>

\* People maintain master data and cancel sale orders.
MasterDataChange ==
  /\ changes < MaxChanges
  /\ changes' = changes + 1
  /\ master' \in MasterData
  /\ UNCHANGED <<callVars, sale, seen, snapshot, sold>>

SaleIsCancelled ==
  /\ sale.state = "sale"
  /\ sale' = [sale EXCEPT !.state = "cancel"]
  /\ UNCHANGED <<callVars, master, changes, seen, snapshot, sold>>

OdooNext ==
  \/ \E c \in Calls :
        \/ ReadIdentity(c) \/ ReadPartner(c) \/ ReadProducts(c)
        \/ RefuseIneligible(c) \/ SendBridge(c) \/ TakeBridgeAnswer(c)
        \/ GiveUpBridge(c)
        \/ BridgeFinds(c) \/ BridgeRefuses(c) \/ BridgeAccepts(c)
        \/ BridgeCommits(c) \/ BridgeRollsBack(c)
  \/ MasterDataChange
  \/ SaleIsCancelled
------------------------------------------------------------------------------
\* A sale order is created only from data that policy has accepted: what Odoo
\* saw when it created the order passes Python's check, although Python checked
\* what it had read piece by piece and earlier (odoo.py,
\* _opsflow_recheck_before_create).
SoldAsApproved ==
  sale # NoSale => /\ Passes(sale.checked)
                   /\ sale.partner = sale.checked.partner

\* A lost answer is made good: once the sale order is there, no later call is
\* refused because the customer is inactive, the stock sold or a price raised
\* since (odoo.py, OdooERPAdapter.execute).
ReplayIsNotBlocked ==
  \A c \in Calls : step[c] = "ODOO_BRIDGE" /\ sold[c] => outcome[c] # "NOT_ELIGIBLE"
==============================================================================
