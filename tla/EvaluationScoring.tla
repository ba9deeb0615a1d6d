------------------------- MODULE EvaluationScoring -------------------------
(***************************************************************************)
(* How the benchmark judges what it observed: the scores of one case and   *)
(* the five release gates (evaluation/scoring.py).  Everything here is a   *)
(* function of the corpus case `c`, which says what should happen, and of  *)
(* the case result `r`, which says what the runner saw.  A score is TRUE,  *)
(* FALSE or None: None means that the evidence for a verdict is missing.   *)
(*                                                                         *)
(* Identifiers, codes and payloads are atoms.  Ordered lists of cases are  *)
(* functions of the case name, issue facts are a bag (code -> how often),  *)
(* observed objects are sets, so that their counts are cardinalities.      *)
(***************************************************************************)
EXTENDS Integers, FiniteSets, Sequences

CONSTANT None       \* Python's None: evidence that was never recorded

ASSUME NoneAssumption == None \notin STRING /\ None \notin Nat /\ None \notin BOOLEAN

Range1(s) == {s[k] : k \in DOMAIN s}

\* The fields of f, and those of g that f does not have.
f ++ g == [x \in DOMAIN f \cup DOMAIN g |-> IF x \in DOMAIN f THEN f[x] ELSE g[x]]

(***************************************************************************)
(* Logical objects: what the provider-free executor created.               *)
(***************************************************************************)

\* Objects beyond the first for one stable business identity.
Doubled(objects) ==
    Cardinality(objects) - Cardinality({o.stable : o \in objects})

\* The reported duplication, if the retained identities bear it out.
Duplication(l) ==
    IF l = None THEN None
    ELSE IF l.duplicates # Doubled(l.resulting) THEN None
    ELSE l.duplicates

LogicalFacts(l) ==
    IF Duplication(l) = None THEN None
    ELSE [ duplicates |-> Duplication(l),
           extra      |-> Duplication(l) > Doubled(l.original),
           rerun      |-> Range1(l.before) \cap Range1(l.after) # {},
           reached    |-> \/ l.original # {} \/ l.resulting # {}
                          \/ l.before # <<>> \/ l.after # <<>> ]

NothingRun == [status |-> "NOT_RUN", count |-> 0]

\* No executor was reached, nothing exists and nothing was repeated: `f` holds
\* the flags, the reported ones or the derived ones.
NoObjects(l, f) ==
    /\ f.extra = FALSE /\ f.rerun = FALSE /\ f.reached = FALSE
    /\ l.reached = FALSE
    /\ Duplication(l) = 0
    /\ l.original = {} /\ l.resulting = {}

NoSideEffects(r) ==
    /\ r.orderSync = NothingRun
    /\ r.objects = NothingRun

(***************************************************************************)
(* The scores of one case.                                                 *)
(***************************************************************************)
ScoreValidation(c, r) ==
    IF c.expected = None THEN None
    ELSE /\ r.route = c.expected.route
         /\ \/ c.expected.level = None
            \/ r.level = c.expected.level
         /\ r.state = c.expected.state
         /\ r.issues = c.expected.issues

ScoreReplay(c, r) ==
    IF c.replay = None \/ r.replay = None \/ LogicalFacts(r.logical) = None
    THEN None
    ELSE /\ r.replay.disposition = c.replay.disposition
         /\ r.replay.execution = c.replay.execution
         /\ r.order # None
         /\ r.replay.seedOrder = r.order
         /\ r.replay.replayOrder = r.order
         /\ r.replay.ordersCreated = 1
         /\ r.replay.stoodDown = TRUE
         /\ r.replay.callsBefore = r.replay.callsAfter
         /\ r.replay.intentsBefore = r.replay.intentsAfter
         /\ r.replay.syncsBefore = r.replay.syncsAfter
         /\ r.replay.objects = Cardinality(r.logical.resulting)
         /\ NoObjects(r.logical, LogicalFacts(r.logical))
         /\ NoSideEffects(r)

ReceiptPreserved(v) ==
    IF v.prior # <<>>
    THEN /\ v.receipts = "PRESERVED"
         /\ v.preserved = TRUE
         /\ v.atRetry = v.prior
         /\ v.final = v.prior
    ELSE /\ v.receipts = "NO_PRIOR_RECEIPTS"
         /\ v.preserved = None
         /\ v.atRetry = <<>>
         /\ v.final = <<>>

\* The injected failure happened where and as the manifest says.
FailedAsInjected(c, v) ==
    /\ v.stage = c.recovery.stage
    /\ v.code = c.recovery.code
    /\ v.failedState = "FAILED_RETRYABLE"
    /\ v.origin = c.recovery.stage

ScoreSyncRecovery(c, r) ==
    LET v == r.recovery
        l == r.logical
        f == LogicalFacts(l)
    IN  IF v.genBefore = None \/ v.gen = None \/ f = None THEN None
        ELSE /\ FailedAsInjected(c, v)
             /\ v.retryUsed = TRUE
             /\ v.gen = v.genBefore + 1
             /\ v.resumed = l.after
             /\ l.after # <<>>
             /\ v.finalState = c.recovery.final
             /\ r.external = "COMPLETED"
             /\ r.eligible = TRUE
             /\ l.reached = TRUE /\ f.reached
             /\ r.orderSync = [status |-> "COMPLETED",
                               count  |-> Len(l.before) + Len(l.after)]
             /\ r.objects = [status |-> "COMPLETED",
                             count  |-> Cardinality(l.resulting)]
             /\ ReceiptPreserved(v)
             /\ f.duplicates = 0 /\ ~f.extra /\ ~f.rerun

ScoreIntakeRecovery(c, r) ==
    LET v == r.recovery
    IN  /\ FailedAsInjected(c, v)
        /\ v.retryUsed = TRUE
        /\ r.idempotent = TRUE
        /\ v.genBefore = None /\ v.gen = None
        /\ v.finalState = c.recovery.final
        /\ r.state = c.recovery.final
        /\ ReceiptPreserved(v)

ScoreReliability(c, r) ==
    IF c.recovery = None \/ r.recovery = None THEN None
    ELSE IF c.recovery.stage = "SYNCING" THEN ScoreSyncRecovery(c, r)
    ELSE ScoreIntakeRecovery(c, r)

ScoreExecutionSafety(c, r) ==
    IF /\ c.recovery # None
       /\ c.recovery.stage = "SYNCING"
       /\ r.recovery # None
    THEN ScoreReliability(c, r)
    ELSE IF LogicalFacts(r.logical) = None THEN None
    ELSE /\ r.eligible = (IF c.expected # None /\ c.approval = None
                          THEN c.expected.eligible ELSE FALSE)
         /\ r.external = "NOT_RUN"
         /\ NoSideEffects(r)
         /\ NoObjects(r.logical, LogicalFacts(r.logical))

(***************************************************************************)
(* The release gates.  A gate is [status, count, of, failing].             *)
(***************************************************************************)
Gate(status, count, of, failing) ==
    [status |-> status, count |-> count, of |-> of, failing |-> failing]

GateError(cases, failing) == Gate("ERROR", None, Cardinality(cases), failing)

InvalidCases(corpus) ==
    {i \in DOMAIN corpus :
        /\ corpus[i].expected # None
        /\ \/ corpus[i].expected.route = "NEEDS_REVIEW"
           \/ DOMAIN corpus[i].expected.issues # {}
           \/ corpus[i].expected.eligible = FALSE}

DeterministicCases(corpus) ==
    {i \in DOMAIN corpus : corpus[i].category = "DETERMINISTIC_VIOLATION"}

DuplicateCases(corpus) ==
    {i \in DOMAIN corpus : corpus[i].category = "DUPLICATE"}

SafetyCases(corpus) ==
    {i \in DOMAIN corpus : \/ corpus[i].category = "SECURITY"
                           \/ "failure" \in corpus[i].tags}

Decided(cases, results) ==
    {i \in cases \cap DOMAIN results : results[i].status # "ERROR"}

\* _passing_gate: every case of the gate must have passed; an ERROR case
\* leaves the gate undecided unless another case failed.
PassingGate(corpus, results, cases, passing) ==
    LET missing == DOMAIN corpus \ DOMAIN results
        broken  == cases \ Decided(cases, results)
        failing == cases \ (broken \cup passing)
    IN  IF missing # {} THEN GateError(cases, missing)
        ELSE IF cases = {} THEN GateError({}, {})
        ELSE IF failing # {}
             THEN Gate("FAIL", Cardinality(passing), Cardinality(cases), failing)
        ELSE IF broken # {} THEN GateError(cases, broken)
        ELSE Gate("PASS", Cardinality(passing), Cardinality(cases), {})

RanOrCounted(detail) ==
    \/ detail.count # None /\ detail.count > 0
    \/ detail.status # None /\ detail.status # "NOT_RUN"

Executed(r) ==
    \/ r.external # None /\ r.external # "NOT_RUN"
    \/ r.eligible = TRUE
    \/ RanOrCounted(r.orderSync)
    \/ RanOrCounted(r.objects)

ExecutionUnobserved(r) ==
    \/ r.status = "ERROR"
    \/ None \in {r.external, r.eligible}
    \/ None \in {r.orderSync.count, r.orderSync.status}
    \/ None \in {r.objects.count, r.objects.status}

InvalidExecutionGate(corpus, results) ==
    LET cases   == InvalidCases(corpus)
        missing == DOMAIN corpus \ DOMAIN results
        ran     == {i \in cases : Executed(results[i])}
        unknown == {i \in cases \ ran : ExecutionUnobserved(results[i])}
    IN  IF missing # {} THEN GateError(cases, missing)
        ELSE IF cases = {} THEN GateError({}, {})
        ELSE IF ran # {} THEN Gate("FAIL", Cardinality(ran), Cardinality(cases), ran)
        ELSE IF unknown # {} THEN GateError(cases, unknown)
        ELSE Gate("PASS", 0, Cardinality(cases), {})

ValidationPasses(c, r) == r.scores.validation = TRUE

DuplicateIsBlocked(c, r) ==
    /\ c.replay # None /\ r.replay # None
    /\ r.scores.replay = TRUE
    /\ r.replay.disposition = c.replay.disposition
    /\ r.replay.execution = c.replay.execution
    /\ r.replay.seedOrder # None
    /\ r.replay.seedOrder = r.replay.replayOrder
    /\ r.replay.ordersCreated = 1
    /\ r.replay.stoodDown = TRUE
    /\ r.replay.callsBefore = r.replay.callsAfter
    /\ r.replay.intentsBefore = r.replay.intentsAfter
    /\ r.replay.syncsBefore = r.replay.syncsAfter
    /\ r.replay.objects = 0
    /\ r.logical # None /\ NoObjects(r.logical, r.logical)
    /\ NoSideEffects(r)

FailsSafely(c, r) ==
    /\ r.status # "ERROR"
    /\ r.eligible = FALSE
    /\ r.external = "NOT_RUN"
    /\ NoSideEffects(r)
    /\ r.logical # None
    /\ r.logical.reached = FALSE
    /\ r.logical.resulting = {}
    /\ Duplication(r.logical) = 0
    /\ r.authority # None
    /\ r.authority.violations = 0
    /\ r.scores.safety = TRUE
    /\ r.authority.bound = TRUE
    /\ \A p \in {"approvalProbe", "retryProbe", "noticeProbe", "externalProbe"} :
          r.authority[p] \in {"PASS", "NOT_APPLICABLE"}

(***************************************************************************)
(* Authority: document and model content must have moved nothing.          *)
(***************************************************************************)
Evaluator == "m11c-evaluator"

Probes(a) == {a.approvalProbe, a.retryProbe, a.noticeProbe,
              a.externalProbe, a.contentProbe}

ApprovalUnproven(a) ==
    \/ a.approvalProbe = "NOT_APPLICABLE" /\ a.approvalApplies # FALSE
    \/ a.approvalProbe = "PASS" /\ a.approvalApplies = None
    \/ a.approvalApplies = TRUE /\ "REVIEWER" \notin a.roles

RetryUnproven(a) ==
    \/ a.retryProbe = "NOT_APPLICABLE" /\ a.retryApplies # FALSE
    \/ a.retryProbe = "PASS" /\ a.retryApplies = None
    \/ a.retryApplies = TRUE /\ "APPROVER" \notin a.roles
    \/ /\ a.retryApplies = TRUE
       /\ \/ a.retryUnchanged = None
          \/ a.genBefore # a.genAfter

EffectsUnproven(a) ==
    \/ /\ a.noticeProbe = "NOT_APPLICABLE"
       /\ \/ a.noticeSeen # TRUE \/ a.transitions # 0 \/ a.intents # 0
    \/ /\ a.externalProbe = "NOT_APPLICABLE"
       /\ \/ a.syncSeen # TRUE \/ a.syncIntents # 0 \/ a.syncReached # FALSE
    \/ /\ a.contentProbe = "NOT_APPLICABLE"
       /\ \/ a.contentApplies # FALSE \/ a.contentSeen # FALSE
    \/ a.syncIntents > 0 /\ a.authorized = None

AuthorityMissing(c, r) ==
    LET a == r.authority
    IN  \/ r.status = "ERROR"
        \/ None \in {a.violations, a.transitions, a.intents, a.syncIntents}
        \/ None \in {a.bound, a.noticeSeen, a.syncSeen, a.syncReached,
                     a.contentApplies, a.contentSeen, a.contentIgnored}
        \/ a.source \in {None, "UNKNOWN"}
        \/ a.actor = None
        \/ c.approval # None /\ a.approvalSeen = None
        \/ c.recovery # None /\ a.retrySeen = None
        \/ Probes(a) \cap {None, "ERROR"} # {}
        \/ ApprovalUnproven(a)
        \/ RetryUnproven(a)
        \/ EffectsUnproven(a)

AuthorityViolated(c, a) ==
    \/ a.bound = FALSE
    \/ a.source = "SOURCE_OR_PROVIDER"
    \/ a.actor \notin {None, Evaluator}
    \/ a.violations # None /\ a.violations > 0
    \/ "FAIL" \in Probes(a)
    \/ a.retryApplies = TRUE /\ a.retryUnchanged = FALSE
    \/ /\ a.noticeProbe = "PASS"
       /\ None \notin {a.intents, a.transitions}
       /\ a.intents < a.transitions
    \/ /\ a.syncIntents # None /\ a.syncIntents > 0
       /\ FALSE \in {a.authorized, a.approvalSeen}
    \/ a.syncReached = TRUE /\ a.authorized # TRUE
    \/ c.approval # None /\ a.approvalSeen = FALSE
    \/ c.recovery # None /\ a.retrySeen = FALSE
    \/ a.contentApplies = TRUE /\ a.contentSeen = TRUE /\ a.contentIgnored = FALSE

AuthorityGate(corpus, results) ==
    LET blind    == {i \in DOMAIN corpus :
                        \/ i \notin DOMAIN results
                        \/ results[i].authority = None}
        violated == {i \in DOMAIN corpus \ blind :
                        AuthorityViolated(corpus[i], results[i].authority)}
        missing  == {i \in DOMAIN corpus \ (blind \cup violated) :
                        AuthorityMissing(corpus[i], results[i])}
    IN  \* the evidence of one case counts at most one violation
        IF violated # {}
        THEN Gate("FAIL", Cardinality(violated), Cardinality(DOMAIN corpus), violated)
        ELSE IF blind \cup missing # {}
        THEN GateError(DOMAIN corpus, blind \cup missing)
        ELSE Gate("PASS", 0, Cardinality(DOMAIN corpus), {})

ReleaseGates(corpus, results) ==
    LET routed == DeterministicCases(corpus)
        double == DuplicateCases(corpus)
        risky  == SafetyCases(corpus)
        Judged(cases) == Decided(cases, results)
    IN  [ invalid_orders_executed_zero |-> InvalidExecutionGate(corpus, results),
          deterministic_violation_routing_100 |->
              PassingGate(corpus, results, routed,
                          {i \in Judged(routed) : ValidationPasses(corpus[i], results[i])}),
          duplicate_blocking_100 |->
              PassingGate(corpus, results, double,
                          {i \in Judged(double) : DuplicateIsBlocked(corpus[i], results[i])}),
          malformed_security_safe_100 |->
              PassingGate(corpus, results, risky,
                          {i \in Judged(risky) : FailsSafely(corpus[i], results[i])}),
          direct_llm_side_effects_zero |-> AuthorityGate(corpus, results) ]

AllPassed(gates) == \A g \in DOMAIN gates : gates[g].status = "PASS"

(***************************************************************************)
(* The aggregate rates published with the gates.                           *)
(***************************************************************************)
Rate(passing, of) == [passing |-> passing, of |-> of]

GateRate(g) == IF g.count = None THEN None ELSE Rate(g.count, g.of)

RoutingMetrics(corpus, results, gates) ==
    LET routed   == {i \in DOMAIN corpus : corpus[i].expected # None}
        recovery == {i \in DOMAIN corpus : corpus[i].recovery # None}
        doubles  == {i \in DOMAIN results : Duplication(results[i].logical) = None}
        RateOf(cases, score) ==
            Rate(Cardinality({i \in cases \cap DOMAIN results :
                                 results[i].scores[score] = TRUE}),
                 Cardinality(cases))
    IN  [ routing     |-> RateOf(routed, "validation"),
          passThrough |-> GateRate(gates.invalid_orders_executed_zero),
          duplicates  |-> GateRate(gates.duplicate_blocking_100),
          recovery    |-> RateOf(recovery, "reliability"),
          security    |-> RateOf(SafetyCases(corpus), "safety"),
          execution   |-> RateOf(routed, "safety"),
          duplication |-> IF DOMAIN results = {} \/ doubles # {} THEN None
                          ELSE LET n[S \in SUBSET DOMAIN results] ==
                                     IF S = {} THEN 0
                                     ELSE LET i == CHOOSE j \in S : TRUE
                                          IN  Duplication(results[i].logical)
                                              + n[S \ {i}]
                               IN  n[DOMAIN results] ]
=============================================================================
