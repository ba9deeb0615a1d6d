------------------------------ MODULE Providers ------------------------------
(***************************************************************************)
(* One approved order with its providers: the calls of ProviderCalls, the  *)
(* bridge step of OdooBridge and the CRM steps of HubSpot together.        *)
(***************************************************************************)
EXTENDS HubSpot

vars == <<callVars, odooVars, hubspotVars>>

Init == CallInit /\ OdooInit /\ HubSpotInit

\* A call begins; the histories note what the providers have.
Begin ==
  /\ BeginCall
  /\ sold' = [sold EXCEPT ![begun + 1] = receipts = 0 /\ sale # NoSale]
  /\ progressed' = [progressed EXCEPT ![begun + 1] = receipts = 2 /\ deal = "progressed"]
  /\ UNCHANGED <<master, changes, sale, seen, snapshot, company, deal, index, associated>>

Next ==
  \/ Begin
  \/ \E c \in Calls : Persist(c) /\ UNCHANGED <<odooVars, hubspotVars>>
  \/ OdooNext /\ UNCHANGED hubspotVars
  \/ HubSpotNext

Spec == Init /\ [][Next]_vars
------------------------------------------------------------------------------
\* A receipt is backed by the provider's record, so what completes an order
\* exists: answers that are lost, late, refused or merely accepted never turn
\* into a receipt (order_sync.py persists what the adapters return).
ReceiptsAreBacked ==
  /\ receipts >= 1 => sale # NoSale
  /\ receipts >= 2 => company
  /\ receipts >= 3 => deal # "none"
  /\ receipts >= 4 => associated
==============================================================================
