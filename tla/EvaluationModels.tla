--------------------------- MODULE EvaluationModels ---------------------------
(***************************************************************************)
(* The contracts of the benchmark's data (evaluation/models.py): what a    *)
(* corpus case may ask for, and what a result may say.  A case is checked  *)
(* when the manifest is loaded.  A result is not checked while it is made: *)
(* the runner builds it by model_copy, which validates nothing, and only   *)
(* the publication, at the end of the run, looks at it.                    *)
(*                                                                         *)
(* Source documents, extraction truth, durations, token counts and prices  *)
(* are left out; so are seed cases, each duplicate being its own seed.     *)
(***************************************************************************)
EXTENDS EvaluationScoring

Domain == INSTANCE OrderDomain

Maybe(S) == S \cup {None}

Routes     == {"NEEDS_REVIEW", "READY_FOR_APPROVAL"}
Levels     == {"STANDARD", "ELEVATED"}
Roles      == {"REVIEWER", "APPROVER", "ELEVATED_APPROVER"}
Categories == {"NORMAL", "EDGE", "SECURITY", "DETERMINISTIC_VIOLATION", "DUPLICATE",
               "RETRY_RECOVERY"}

IssueCodes ==
    { "AMBIGUOUS_CUSTOMER", "CATALOGUE_PRICE_UNAVAILABLE", "CURRENCY_REQUIRED",
      "CUSTOMER_REQUIRED", "DELIVERY_BEFORE_ORDER_DATE", "DELIVERY_DATE_IN_PAST",
      "DELIVERY_DATE_REQUIRED", "DOCUMENT_ALREADY_PROCESSED", "DUPLICATE_CUSTOMER_PO",
      "HIGH_VALUE_APPROVAL_REQUIRED", "INACTIVE_CUSTOMER", "INACTIVE_SKU",
      "INSUFFICIENT_INVENTORY", "INVENTORY_UNAVAILABLE", "ORDER_DATE_IN_FUTURE",
      "ORDER_DATE_REQUIRED", "ORDER_LINES_REQUIRED", "PO_NUMBER_REQUIRED",
      "PRICE_OUTSIDE_TOLERANCE", "PRODUCT_CURRENCY_MISMATCH", "QUANTITY_NOT_POSITIVE",
      "QUANTITY_REQUIRED", "SKU_REQUIRED", "SUBMITTED_PRICE_NEGATIVE",
      "SUBMITTED_PRICE_REQUIRED", "UNKNOWN_CUSTOMER", "UNKNOWN_SKU",
      "UNSUPPORTED_CURRENCY" }

IsBag(b) == \A code \in DOMAIN b : b[code] \in Nat \ {0}

------------------------------------------------------------------------------
(* A corpus case.                                                          *)

ValidExpectation(e) ==
    /\ e.route \in Routes /\ e.level \in Maybe(Levels)
    /\ IsBag(e.issues) /\ DOMAIN e.issues \subseteq IssueCodes
    /\ e.state \in Domain!OrderStates
    /\ e.eligible \in BOOLEAN

\* Who may approve an order of each level.
AllowedRoles(level) ==
    CASE level = "STANDARD" -> {"APPROVER", "ELEVATED_APPROVER"}
      [] level = "ELEVATED" -> {"ELEVATED_APPROVER"}
      [] OTHER -> {}

ValidReplay(p) ==
    p = [disposition |-> "REPLAYED_EXISTING", execution |-> "STANDING_DOWN"]

\* The failure that can be injected at each durable origin.
InjectedCode ==
    [ PROCESSING |-> "PROVIDER_UNAVAILABLE",
      EXTRACTED  |-> "BUSINESS_DATA_PROVIDER_ERROR",
      SYNCING    |-> "WORKER_LEASE_EXHAUSTED" ]

ValidRecovery(v) ==
    /\ v.stage \in DOMAIN InjectedCode
    /\ v.code = InjectedCode[v.stage]
    /\ v.final \in Domain!OrderStates

\* Which sections a case carries, and how they fit each other.
ValidCase(c) ==
    /\ c.category \in Categories
    /\ c.expected # None => ValidExpectation(c.expected)
    /\ ("approval" \in c.tags) = (c.approval # None)
    /\ c.approval # None =>
          /\ c.expected # None
          /\ c.expected.route = "READY_FOR_APPROVAL"
          /\ c.expected.state = "READY_FOR_APPROVAL"
          /\ c.expected.eligible
          /\ c.approval \in AllowedRoles(c.expected.level)
    /\ c.expected # None /\ c.expected.eligible => c.approval # None
    /\ (c.category = "DUPLICATE") = (c.replay # None)
    /\ c.replay # None => ValidReplay(c.replay)
    /\ (c.category = "RETRY_RECOVERY") = (c.recovery # None)
    /\ c.recovery # None =>
          /\ ValidRecovery(c.recovery)
          /\ c.recovery.stage = "SYNCING" => c.approval # None
          /\ c.approval = None =>
                /\ c.expected # None /\ ~c.expected.eligible
                /\ c.recovery.final = c.expected.state

------------------------------------------------------------------------------
(* The result of a case.                                                   *)

ProbeStatus == {"PASS", "FAIL", "ERROR", "NOT_APPLICABLE"}

AuthorityEvidences ==
    [ bound : Maybe(BOOLEAN), actor : Maybe(STRING), roles : SUBSET Roles,
      source : Maybe({"EVALUATOR_CONFIGURATION", "SOURCE_OR_PROVIDER", "UNKNOWN"}),
      approvalApplies : Maybe(BOOLEAN), approvalProbe : Maybe(ProbeStatus),
      approvalSeen : Maybe(BOOLEAN),
      retryApplies : Maybe(BOOLEAN), retryProbe : Maybe(ProbeStatus),
      retrySeen : Maybe(BOOLEAN),
      genBefore : Maybe(Nat), genAfter : Maybe(Nat), retryUnchanged : Maybe(BOOLEAN),
      noticeSeen : Maybe(BOOLEAN), transitions : Maybe(Nat), intents : Maybe(Nat),
      noticeProbe : Maybe(ProbeStatus),
      syncSeen : Maybe(BOOLEAN), syncIntents : Maybe(Nat), syncReached : Maybe(BOOLEAN),
      authorized : Maybe(BOOLEAN), externalProbe : Maybe(ProbeStatus),
      contentApplies : Maybe(BOOLEAN), contentSeen : Maybe(BOOLEAN),
      contentIgnored : Maybe(BOOLEAN), contentProbe : Maybe(ProbeStatus),
      violations : Maybe(Nat) ]

\* The counts of objects are cardinalities here and agree by construction.
LogicalObjects ==
    [ reached : Maybe(BOOLEAN),
      original : SUBSET [stable : STRING, id : STRING],
      resulting : SUBSET [stable : STRING, id : STRING],
      duplicates : Maybe(Nat), extra : Maybe(BOOLEAN), rerun : Maybe(BOOLEAN),
      before : Seq(STRING), after : Seq(STRING) ]

ReplayEvidences ==
    [ disposition : Maybe({"CREATED_BY_THIS_COMMAND", "REPLAYED_EXISTING"}),
      execution : Maybe({"COMPLETED", "STANDING_DOWN"}),
      seedOrder : Maybe(STRING), replayOrder : Maybe(STRING), ordersCreated : Maybe(Nat),
      callsBefore : Maybe(Nat), callsAfter : Maybe(Nat),
      intentsBefore : Maybe(Nat), intentsAfter : Maybe(Nat),
      syncsBefore : Maybe(Nat), syncsAfter : Maybe(Nat),
      objects : Maybe(Nat), stoodDown : Maybe(BOOLEAN) ]

RecoveryEvidences ==
    [ stage : Maybe(Domain!OrderStates), code : Maybe(STRING),
      failedState : Maybe(Domain!OrderStates), origin : Maybe(Domain!OrderStates),
      retryUsed : Maybe(BOOLEAN), genBefore : Maybe(Nat), gen : Maybe(Nat),
      finalState : Maybe(Domain!OrderStates),
      prior : Seq(STRING), atRetry : Seq(STRING), final : Seq(STRING),
      resumed : Seq(STRING), preserved : Maybe(BOOLEAN),
      receipts : Maybe({"NO_PRIOR_RECEIPTS", "PRESERVED", "LOST", "REPLACED",
                        "UNEXPECTED_RECEIPTS"}) ]

CaseScores ==
    [ validation : Maybe(BOOLEAN), reliability : Maybe(BOOLEAN),
      replay : Maybe(BOOLEAN), safety : Maybe(BOOLEAN) ]

\* `failed` belongs to the measurements of the run, not to the case.
ProviderSummaries ==
    [name : Maybe({"fake", "gemini"}), calls : Nat, failed : Nat]

SideEffects == [status : Maybe(STRING), count : Maybe(Nat)]

\* What the fields of a case result may hold, and what relates them: an ERROR
\* is exactly a result with a failure code, and a provider that is named was
\* called.
ValidCaseResult(r) ==
    /\ r.status \in {"PASS", "FAIL", "ERROR"}
    /\ r.route \in Maybe(Routes) /\ r.level \in Maybe(Levels)
    /\ r.state \in Maybe(Domain!OrderStates)
    /\ r.order \in Maybe(STRING) /\ r.external \in Maybe(STRING)
    /\ IsBag(r.issues)
    /\ r.idempotent \in Maybe(BOOLEAN) /\ r.eligible \in Maybe(BOOLEAN)
    /\ r.execution \in Maybe({"COMPLETED", "STANDING_DOWN"})
    /\ r.authority = None \/ r.authority \in AuthorityEvidences
    /\ r.logical = None \/ r.logical \in LogicalObjects
    /\ r.replay = None \/ r.replay \in ReplayEvidences
    /\ r.recovery = None \/ r.recovery \in RecoveryEvidences
    /\ r.scores \in CaseScores
    /\ r.provider \in ProviderSummaries
    /\ r.orderSync \in SideEffects /\ r.objects \in SideEffects
    /\ (r.status = "ERROR") = (r.code # None)
    /\ r.provider.calls = 0 => r.provider.name = None

------------------------------------------------------------------------------
(* The result of a run.                                                    *)

ValidRate(q) ==
    q = None \/ (q.passing \in Nat /\ q.of \in Nat /\ q.passing <= q.of)

ValidRouting(m) ==
    /\ \A q \in DOMAIN m \ {"duplication"} : ValidRate(m[q])
    /\ m.duplication \in Maybe(Nat)

ValidGate(g) ==
    /\ g.status \in {"PASS", "FAIL", "ERROR"}
    /\ g.count \in Maybe(Nat) /\ g.of \in Maybe(Nat)

\* A summary of samples exists exactly where something was measured.
ValidTiming(count, p50) == (count = 0) = (p50 = None)

ValidRunResult(run) ==
    /\ \A n \in DOMAIN run.results : ValidCaseResult(run.results[n])
    /\ \A g \in DOMAIN run.gates : ValidGate(run.gates[g])
    /\ ValidRouting(run.routing)
    /\ ValidTiming(run.samples.replay, run.p50)
    /\ run.mode = "provider_free" =>
          \A n \in DOMAIN run.results : run.results[n].provider.name # "gemini"
==============================================================================
