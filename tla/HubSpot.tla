------------------------------- MODULE HubSpot -------------------------------
(***************************************************************************)
(* The CRM steps: the HubSpot adapter (hubspot.py) upserts the company,    *)
(* finds or creates the deal, and associates the two.  HubSpot keeps one   *)
(* company per customer reference and one deal per order, and its search   *)
(* lags behind; sales people move deals on.  Requests may take effect      *)
(* after the adapter has given up.                                         *)
(***************************************************************************)
EXTENDS OdooBridge

VARIABLES
  company,      \* the customer's company is there
  deal,         \* the stage of the order's deal
  index,        \* the stage that a search finds
  associated,   \* deal and company are associated
  progressed    \* history: the deal had moved on when the call began

hubspotVars == <<company, deal, index, associated, progressed>>

Stages == {"none", "initial", "progressed"}

HubSpotInit ==
  /\ company = (receipts = 2)
  /\ deal = "none"
  /\ index = "none"
  /\ associated = FALSE
  /\ progressed = [c \in Calls |-> FALSE]

\* execute, _verify_account: the portal, the receipts before this one and the
\* settings of the pipeline are checked before anything is asked of the CRM.
NotSetUp(c) ==
  /\ step[c] # "ODOO_BRIDGE" /\ pc[c] = "begun"
  /\ \E code \in {"INTEGRATION_CONFIG", "PROVIDER_INVALID_RESPONSE", "PROVIDER_REJECTED"} :
       End(c, code)
  /\ UNCHANGED <<receipts, begun, step, request, odooVars, hubspotVars>>

\* _upsert_company: the trusted customer is looked up once more.
SendUpsert(c) ==
  /\ At(c, "HUBSPOT_COMPANY", "begun")
  /\ IF master.active
     THEN Send(c, "upsert") /\ UNCHANGED <<exists, answer, outcome>>
     ELSE End(c, "NOT_ELIGIBLE") /\ UNCHANGED request
  /\ UNCHANGED <<receipts, begun, step, odooVars, hubspotVars>>

UpsertCompletes(c) ==
  /\ request[c] = "upsert"
  /\ company' = TRUE
  /\ Reply(c, "receipt")
  /\ UNCHANGED <<odooVars, deal, index, associated, progressed>>

\* Mutant: an accepted request counts as done.
AcceptedCounts == "receipt"

\* _parse_upsert_response, _associate: PENDING and PROCESSING are no receipt.
Accepted == "PROVIDER_PENDING"

\* What was accepted may be done at any later time.
IsAccepted(c) ==
  /\ request[c] \in {"upsert", "put"}
  /\ pc[c] = "waiting" /\ answer[c] = "none"
  /\ answer' = [answer EXCEPT ![c] = Accepted]
  /\ UNCHANGED <<receipts, begun, step, pc, exists, request, outcome, odooVars, hubspotVars>>

\* _find_existing_deal: a deal that has moved on needs a person.
SearchDeal(c) ==
  /\ At(c, "HUBSPOT_DEAL", "begun")
  /\ IF index = "progressed"
     THEN End(c, "RECONCILIATION_REQUIRED") /\ UNCHANGED request
     ELSE /\ Send(c, IF index = "none" THEN "create" ELSE "patch")
          /\ exists' = [exists EXCEPT ![c] = index # "none"]
          /\ UNCHANGED <<answer, outcome>>
  /\ UNCHANGED <<receipts, begun, step, odooVars, hubspotVars>>

\* HubSpot may put a new deal elsewhere, and the response tells; the deal stays.
CreatedIn(c, stage) ==
  /\ deal' = stage
  /\ Reply(c, IF stage = "initial" THEN "receipt" ELSE "PROVIDER_INVALID_RESPONSE")

\* The identity is unique: a second create is refused, and the next call
\* searches again.
DealIsCreated(c) ==
  /\ request[c] = "create"
  /\ \/ deal = "none" /\ \E stage \in Stages \ {"none"} : CreatedIn(c, stage)
     \/ deal # "none" /\ Reply(c, "PROVIDER_UNAVAILABLE") /\ UNCHANGED deal
  /\ UNCHANGED <<odooVars, company, index, associated, progressed>>

\* The update leaves the stage out.
Patched == deal

DealIsPatched(c) ==
  /\ request[c] = "patch"
  /\ deal' = Patched
  /\ Reply(c, "receipt")
  /\ UNCHANGED <<odooVars, company, index, associated, progressed>>

\* Mutant: the updated deal is not read back.
NotVerified(c) == FALSE

\* What was there before is read back after the write.
MustVerify(c) == exists[c] \/ step[c] = "HUBSPOT_ASSOCIATION"

TakeHubSpotAnswer(c) ==
  /\ step[c] # "ODOO_BRIDGE"
  /\ TakeAnswer(c, MustVerify(c))
  /\ UNCHANGED <<odooVars, hubspotVars>>

\* The adapter reads the deal, or the association, itself.
Verify(c) ==
  /\ pc[c] = "verifying"
  /\ IF \/ step[c] = "HUBSPOT_DEAL" /\ deal = "initial"
        \/ step[c] = "HUBSPOT_ASSOCIATION" /\ associated
     THEN GoTo(c, "confirmed") /\ UNCHANGED <<exists, answer, outcome>>
     ELSE End(c, "RECONCILIATION_REQUIRED")
  /\ UNCHANGED <<receipts, begun, step, request, odooVars, hubspotVars>>

\* _associate: the same PUT for the same pair.
SendAssociation(c) ==
  /\ At(c, "HUBSPOT_ASSOCIATION", "begun")
  /\ Send(c, "put")
  /\ UNCHANGED <<receipts, begun, step, exists, answer, outcome, odooVars, hubspotVars>>

AssociationIsMade(c) ==
  /\ request[c] = "put"
  /\ associated' = TRUE
  /\ Reply(c, "receipt")
  /\ UNCHANGED <<odooVars, company, deal, index, progressed>>

GiveUpHubSpot(c) ==
  /\ step[c] # "ODOO_BRIDGE"
  /\ GiveUp(c)
  /\ UNCHANGED <<odooVars, hubspotVars>>

\* HubSpot refuses a request, or it is lost.
HubSpotFails(c) ==
  /\ request[c] \in {"upsert", "create", "patch", "put"}
  /\ \E code \in {"PROVIDER_UNAVAILABLE", "PROVIDER_REJECTED"} : Reply(c, code)
  /\ UNCHANGED <<odooVars, hubspotVars>>

DealMovesOn ==
  /\ deal = "initial"
  /\ deal' = "progressed"
  /\ UNCHANGED <<callVars, odooVars, company, index, associated, progressed>>

IndexCatchesUp ==
  /\ index # deal
  /\ index' = deal
  /\ UNCHANGED <<callVars, odooVars, company, deal, associated, progressed>>

HubSpotNext ==
  \/ \E c \in Calls :
        \/ NotSetUp(c) \/ SendUpsert(c) \/ UpsertCompletes(c) \/ IsAccepted(c)
        \/ SearchDeal(c) \/ DealIsCreated(c) \/ DealIsPatched(c)
        \/ SendAssociation(c) \/ AssociationIsMade(c)
        \/ TakeHubSpotAnswer(c) \/ Verify(c) \/ GiveUpHubSpot(c)
        \/ HubSpotFails(c)
  \/ DealMovesOn
  \/ IndexCatchesUp
------------------------------------------------------------------------------
\* A deal that had moved on when a call began never ends that call with a
\* receipt, though the search may still show the stage it had before.
ProgressedDealIsReported ==
  \A c \in Calls : step[c] = "HUBSPOT_DEAL" /\ progressed[c] => outcome[c] # "receipt"
==============================================================================
