------------------------------- MODULE CaseData -------------------------------
(***************************************************************************)
(* The business data of one order, from the provider's extraction to the   *)
(* check that precedes the sale: extraction (extraction/extractor.py),     *)
(* validation (application/validation.py), human revisions                 *)
(* (application/review_revalidation.py), approval, and the preflight of    *)
(* odoo.py.                                                                *)
(*                                                                         *)
(* What the order carries travels through five shapes (the provider's      *)
(* response, the snapshot, the revision, the promoted order, the lookup of *)
(* the preflight) and is judged four times, each time by other code and    *)
(* against reference data read at another moment.  Who may overtake whom   *)
(* is the subject of Review; here one request is in flight at a time.      *)
(***************************************************************************)
EXTENDS ValidationEngine

CONSTANTS
  Blank,        \* a text of spaces only
  Malformed,    \* a text that is no date or no number
  Responses,    \* what the language model may answer: a draft with evidence
  Candidates,   \* the drafts a reviewer may submit
  Worlds,       \* the contents the reference system may have
  MaxRevisions, \* bound on the revisions of the order
  MaxChanges    \* bound on the changes of the surroundings

ASSUME BoundsAssumption == MaxRevisions \in Nat /\ MaxChanges \in Nat

VARIABLES
  today,     \* the evaluation date
  world,     \* the reference data: [customers, products]
  facts,     \* what build_validation_facts would answer
  changes,   \* changes of the three so far (a bound)
  state,     \* the state of the order
  extracted, \* the draft the intake holds in memory, or None
  snapshot,  \* the stored extraction, or None
  revision,  \* the payload of the latest revision, or None
  revisions, \* how many revisions there are
  issues,    \* the stored validation issues
  order,     \* the promoted data of the order, or None
  request,   \* the validation in flight, or None
  basis,     \* the world whose data was promoted (history)
  approver,  \* the role that approved, or None
  verdict    \* what the preflight answered, with the world it saw (history)

surroundings == <<today, world, facts, changes>>
stored       == <<state, snapshot, revision, revisions, issues, order>>
outcome      == <<basis, approver, verdict>>
vars == <<surroundings, stored, extracted, request, outcome>>

Roles == {"REVIEWER", "APPROVER", "ELEVATED_APPROVER"}
Texts(draft) ==
  {draft.ref, draft.name, draft.po, draft.currency}
    \cup {draft.lines[i].sku : i \in DOMAIN draft.lines}
Figures(draft) ==
  {draft.ordered, draft.delivery}
    \cup UNION {{draft.lines[i].qty, draft.lines[i].price} : i \in DOMAIN draft.lines}

IsDraft(draft) ==
  /\ draft.lines \in Seq({draft.lines[i] : i \in DOMAIN draft.lines})
  /\ \A i \in DOMAIN draft.lines :
       draft.lines[i].qty \in Int \cup {None, Blank, Malformed}

\* The response is text; a candidate was parsed into dates and decimals.
ASSUME DraftsAssumption ==
  /\ None \notin Responses \cup Candidates \cup Worlds
  /\ \A response \in Responses : IsDraft(response.draft)
  /\ \A candidate \in Candidates :
       IsDraft(candidate) /\ Figures(candidate) \cap {Blank, Malformed} = {}

\* References are unique in the reference data (sandbox.py; a lookup by name is
\* answered by nothing else).
ASSUME WorldsAssumption ==
  \A w \in Worlds :
    /\ \A c, d \in w.customers : c.ref = d.ref => c = d
    /\ \A c \in w.customers : c.ref # None
    /\ \A p \in w.products : p # None /\ p.stock \in Int \cup {None}

\* The value an evidence item refers to; line 0 is the order itself, and a
\* line that the response does not have has no value.
Evidenced(draft, item) ==
  IF item.line = 0 THEN draft[item.field]
  ELSE IF item.line \in DOMAIN draft.lines THEN draft.lines[item.line][item.field]
  ELSE None

\* The evidence names distinct fields that have a value, and quotes the source.
EvidenceHolds(draft, evidence) ==
  /\ \A i, j \in DOMAIN evidence :
       <<evidence[i].field, evidence[i].line>> = <<evidence[j].field, evidence[j].line>>
         => i = j
  /\ \A i \in DOMAIN evidence :
       /\ Evidenced(draft, evidence[i]) # None
       /\ evidence[i].quoted

\* Dates and numbers parse; their stored text stands for the same values.
Parses(draft) == Figures(draft) \cap {Blank, Malformed} = {}

\* The response converts to an ExtractionDraft.
Accepts(response) ==
  /\ Blank \notin Texts(response.draft)
  /\ Parses(response.draft)
  /\ EvidenceHolds(response.draft, response.evidence)

\* get_validation_data of a world: exact matches for an identity and SKUs.
Lookup(in, ref, name, lines) ==
  [ customers |-> {c \in in.customers :
                     IF ref # None THEN c.ref = ref ELSE name # None /\ c.name = name},
    products  |-> [i \in DOMAIN lines |->
                     IF \E p \in in.products : p.sku = lines[i].sku
                       THEN CHOOSE p \in in.products : p.sku = lines[i].sku
                       ELSE None] ]

\* The draft the reviewer sees and changes: the business values of the
\* extraction, or the payload of the latest revision.
Effective == IF revision = None THEN snapshot.draft ELSE revision

\* compute_review_changes: the fields that differ, the lines being one field.
Changes(previous, candidate) ==
  {field \in DOMAIN candidate : candidate[field] # previous[field]}
\* _load_preflight: the candidate is a ReviewDraft, whose texts are not blank,
\* and changes something.
MaySubmit(candidate) ==
  Blank \notin Texts(candidate) /\ Changes(Effective, candidate) # {}
------------------------------------------------------------------------------
Init ==
  /\ today = 1
  /\ world \in Worlds
  /\ facts = [duplicate |-> FALSE, processed |-> FALSE]
  /\ changes = 0
  /\ state = "PROCESSING"
  /\ extracted = None /\ snapshot = None /\ revision = None /\ revisions = 0
  /\ issues = {} /\ order = None /\ request = None
  /\ basis = None /\ approver = None /\ verdict = None

\* One extraction.  A response that does not convert leaves no draft; an
\* intake that is resumed in EXTRACTED extracts again.
Extract ==
  /\ state \in {"PROCESSING", "EXTRACTED"} /\ request = None
  /\ \E response \in Responses :
       /\ Accepts(response)
       /\ extracted' = response
  /\ state' = "EXTRACTED"
  /\ UNCHANGED <<surroundings, snapshot, revision, revisions, issues, order,
                 request, outcome>>

\* The reference data for a draft is read outside of any transaction.  The
\* provider may answer for another draft: the contract check stands between.
Consult(draft) ==
  \E asked \in {draft} \cup Candidates :
    LET data == Lookup(world, asked.ref, asked.name, asked.lines)
    IN  /\ AnswersDraft(draft, data)
        /\ request' = [draft |-> draft, data |-> data, facts |-> facts,
                       day |-> today, base |-> revisions, world |-> world]

\* validate_order up to its transaction.
StartValidation ==
  /\ state = "EXTRACTED" /\ extracted # None /\ request = None
  /\ snapshot = None
  /\ Consult(extracted.draft)
  /\ UNCHANGED <<surroundings, stored, extracted, outcome>>

\* save_and_revalidate up to its transaction.
StartRevision ==
  /\ state = "NEEDS_REVIEW" /\ request = None /\ revisions < MaxRevisions
  /\ \E candidate \in Candidates :
       /\ MaySubmit(candidate)
       /\ Consult(candidate)
  /\ UNCHANGED <<surroundings, stored, extracted, outcome>>

Found == Issues(request.draft, request.data, request.facts, request.day)

\* Mutant: the warnings of the previous validation stay.
KeepWarnings(old, found) == Errors(found) \cup (old \ Errors(old))

\* replace_validation_issues.
Replaced(old, found) == found

\* The order after a validation: promoted and ready, or sent to review.
Route ==
  /\ issues' = Replaced(issues, Found)
  /\ IF RouteOf(Found) = "READY_FOR_APPROVAL"
       THEN /\ Promotable(request.draft, request.data)
            /\ order' = Promoted(request.draft, request.data)
            /\ basis' = request.world
            /\ state' = "READY_FOR_APPROVAL"
       ELSE /\ state' = "NEEDS_REVIEW"
            /\ UNCHANGED <<order, basis>>

\* The transaction of validate_order.
CommitValidation ==
  /\ state = "EXTRACTED" /\ request # None
  /\ facts = request.facts
  /\ Route
  /\ snapshot' = extracted
  /\ extracted' = None
  /\ request' = None
  /\ UNCHANGED <<surroundings, revision, revisions, approver, verdict>>

\* The number of a new revision.
NextNumber == revisions + 1

\* The transaction of save_and_revalidate; the base stands for the ETag.
CommitRevision ==
  /\ state = "NEEDS_REVIEW" /\ request # None
  /\ revisions = request.base
  /\ facts = request.facts
  /\ Route
  /\ revision' = request.draft
  /\ revisions' = NextNumber
  /\ request' = None
  /\ UNCHANGED <<surroundings, snapshot, extracted, approver, verdict>>

\* The facts changed, another command won, the data was refused or the process
\* ended: nothing is stored.
Abandon ==
  /\ request # None
  /\ request' = None
  /\ UNCHANGED <<surroundings, stored, extracted, outcome>>

\* require_approval on the stored warning.
MayApprove(role) ==
  \/ role = "ELEVATED_APPROVER"
  \/ role = "APPROVER" /\ <<"HIGH_VALUE_APPROVAL_REQUIRED", 0>> \notin issues

Approve ==
  /\ state = "READY_FOR_APPROVAL"
  /\ \E role \in Roles : MayApprove(role) /\ approver' = role
  /\ state' = "APPROVED"
  /\ UNCHANGED <<surroundings, snapshot, revision, revisions, issues, order,
                 extracted, request, basis, verdict>>

\* require_rejection.
Reject ==
  /\ state \in {"NEEDS_REVIEW", "READY_FOR_APPROVAL"}
  /\ state' = "REJECTED"
  /\ UNCHANGED <<surroundings, snapshot, revision, revisions, issues, order,
                 extracted, request, outcome>>

\* The ODOO_LOOKUP step: the promoted order against the data of the moment.
\* A refusal is repeatable, so the step may run again.
Preflight ==
  /\ state = "APPROVED"
  /\ LET data == Lookup(world, order.ref, None, order.lines)
     IN  verdict' = [passed |-> PreflightIssues(order, data) = {}, world |-> world]
  /\ UNCHANGED <<surroundings, stored, extracted, request, basis, approver>>

Surroundings ==
  /\ changes < MaxChanges
  /\ changes' = changes + 1
  /\ \/ today' = today + 1 /\ UNCHANGED <<world, facts>>
     \/ world' \in Worlds /\ UNCHANGED <<today, facts>>
     \/ /\ facts' \in [duplicate : BOOLEAN, processed : BOOLEAN]
        /\ UNCHANGED <<today, world>>
  /\ UNCHANGED <<stored, extracted, request, outcome>>

Next ==
  \/ Extract \/ StartValidation \/ StartRevision
  \/ CommitValidation \/ CommitRevision \/ Abandon
  \/ Approve \/ Reject \/ Preflight \/ Surroundings

Spec == Init /\ [][Next]_vars
------------------------------------------------------------------------------
\* The states, the stored issues and the request have the shapes the database
\* and the dataclasses give them; what is promoted is a legal order: lines with
\* a positive quantity and prices that are not negative.
TypeOK ==
  /\ state \in {"PROCESSING", "EXTRACTED", "NEEDS_REVIEW", "READY_FOR_APPROVAL",
                "APPROVED", "REJECTED"}
  /\ world \in Worlds
  /\ revisions \in 0..MaxRevisions
  /\ (revision = None) = (revisions = 0)
  /\ (snapshot = None) = (state \in {"PROCESSING", "EXTRACTED"})
  /\ approver \in Roles \cup {None}
  /\ state \in {"READY_FOR_APPROVAL", "APPROVED"} =>
       basis \in Worlds /\ Priced(order.lines)

\* engine.py decides the route from the issues and builds the promoted data by
\* a second list of checks; the second list never refuses what the first let
\* through, so InvalidTrustedDataError is never raised for a READY result, in
\* any request that may be in flight.
ReadyIsPromotable ==
  request # None /\ RouteOf(Found) = "READY_FOR_APPROVAL" =>
    Promotable(request.draft, request.data) /\ Priced(request.draft.lines)

\* The promoted order, line by line what a draft asks for, and a customer of
\* the reference data that the draft names.
Fulfils(sold, draft, in) ==
  /\ draft.ref \in {None, sold.ref}
  /\ draft.po = sold.po
  /\ \E c \in in.customers :
       c.ref = sold.ref /\ (draft.ref = None => c.name = draft.name)
  /\ DOMAIN sold.lines = DOMAIN draft.lines
  /\ \A i \in DOMAIN draft.lines :
       /\ sold.lines[i].sku = draft.lines[i].sku
       /\ sold.lines[i].qty = draft.lines[i].qty
       /\ sold.lines[i].price = draft.lines[i].price

\* What is approved and sold is what the effective draft asked for: the same
\* customer, purchase order, SKUs, quantities and prices line by line, even
\* when the provider answered for another draft.
PromotedAsRequested ==
  state \in {"READY_FOR_APPROVAL", "APPROVED"} => Fulfils(order, Effective, basis)

\* An order whose total reaches the threshold was approved by the elevated
\* role, although approval looks only at a warning that an earlier validation,
\* perhaps of an earlier draft, has stored.
HighValueIsElevated ==
  approver # None /\ Total(order.lines) >= HighValueThreshold =>
    approver = "ELEVATED_APPROVER"

\* The preflight applies its own list of rules to the promoted order: customer,
\* products, stock, currency and tolerance.  By these rules it refuses an
\* approved order only when the reference data has changed since the validation
\* read it.  What else a sale depends on (Odoo's own checks) is not meant here.
RefusedOnlyAfterChange ==
  verdict # None /\ ~verdict.passed => verdict.world # basis
==============================================================================
