--------------------------- MODULE EvaluationProofs ---------------------------
(***************************************************************************)
(* Proofs about an evaluation run, for every corpus, every configuration   *)
(* the command may be started with and any number of runs.                 *)
(*                                                                         *)
(* The destructive part: a command that got as far as the reset has passed *)
(* the guards of the configuration (SafeToReset), nothing changes the      *)
(* configuration afterwards, and the reset itself compares the server's    *)
(* own name of the database with it.                                       *)
(*                                                                         *)
(* The result: whatever the provider, the application and the faults do,   *)
(* a run that comes to its verdict has put together a result that the      *)
(* report's own validation accepts (EveryRunCanBePublished).  Assembled    *)
(* says what each scenario has observed after each of its steps.           *)
(***************************************************************************)
EXTENDS EvaluationComparison, FiniteSetTheorems, TLAPS

(***************************************************************************)
(* The reset of the database.                                              *)
(***************************************************************************)
\* The inductive invariant: whoever may delete has an isolated configuration.
SafeToReset == phase = "reset" => Isolated(setup)

\* A finished case leads to the next one or to the verdict.
LEMMA FinishStaysInRun ==
  ASSUME NEW r, Finish(r)
  PROVE  phase' # "reset"
  BY DEF Finish

\* A scenario's step that does not finish its case leaves the phase alone.
LEMMA ContinueKeepsPhase ==
  ASSUME NEW s, NEW news, Continue(s, news)
  PROVE  phase' = phase
  BY DEF Continue

\* No step of a case returns to the reset or touches what was deleted.
LEMMA CasesLeaveTheResetAlone ==
  ASSUME RunCase
  PROVE  /\ phase = "cases"
         /\ phase' # "reset"
         /\ UNCHANGED <<setup, wiped>>
<1>1. CASE Intake
  BY <1>1, ContinueKeepsPhase DEF Intake, At
<1>2. CASE IntakeRaises
  BY <1>2, FinishStaysInRun DEF IntakeRaises, At
<1>3. CASE Probe
  BY <1>3 DEF Probe, At
<1>4. CASE Close
  BY <1>4, FinishStaysInRun, ContinueKeepsPhase DEF Close, At
<1>5. CASE Replay
  BY <1>5, FinishStaysInRun, ContinueKeepsPhase DEF Replay, At
<1>6. CASE CloseReplay
  BY <1>6, FinishStaysInRun DEF CloseReplay, At
<1>7. CASE NotFailed \/ RetryFailed
  BY <1>7, FinishStaysInRun, ContinueKeepsPhase DEF NotFailed, RetryFailed, At
<1>8. CASE Resume \/ ResumeRaises \/ CloseRecovery
  BY <1>8, FinishStaysInRun, ContinueKeepsPhase
  DEF Resume, ResumeRaises, CloseRecovery, At
<1>9. CASE ApproveOrder
  BY <1>9, FinishStaysInRun, ContinueKeepsPhase DEF ApproveOrder, Raised, At
<1>10. CASE ClaimAndBridge
  BY <1>10, FinishStaysInRun, ContinueKeepsPhase DEF ClaimAndBridge, Raised, At
<1>11. CASE Exhaust \/ ProbeRetry
  BY <1>11, FinishStaysInRun, ContinueKeepsPhase DEF Exhaust, ProbeRetry, At
<1>12. CASE RetrySync
  BY <1>12, FinishStaysInRun, ContinueKeepsPhase DEF RetrySync, Raised, At
<1>13. CASE Synchronize \/ Breaks
  BY <1>13, FinishStaysInRun DEF Synchronize, Breaks, At
<1> QED
  BY <1>1, <1>2, <1>3, <1>4, <1>5, <1>6, <1>7, <1>8, <1>9, <1>10, <1>11, <1>12,
     <1>13 DEF RunCase

\* Only a start leads to the reset, and only with an isolated configuration.
LEMMA SafeToResetIsInductive ==
  ASSUME SafeToReset, [Next]_vars
  PROVE  SafeToReset'
<1>1. CASE \E m \in Modes, s \in Setups : Start(m, s)
  <2>1. PICK m \in Modes, s \in Setups : Start(m, s)
    BY <1>1
  <2>2. setup' = s
    BY <2>1 DEF Start
  <2>3. CASE Isolated(s)
    <3> QED BY <2>2, <2>3 DEF SafeToReset, Isolated
  <2>4. CASE ~ Isolated(s)
    <3> phase' = "ended"
      BY <2>1, <2>4 DEF Start, End
    <3> QED BY DEF SafeToReset
  <2> QED BY <2>3, <2>4
<1>2. CASE Reset
  BY <1>2 DEF Reset, End, SafeToReset
<1>3. CASE ConfirmSchema
  BY <1>3 DEF ConfirmSchema, End, SafeToReset
<1>4. CASE RunCase
  BY <1>4, CasesLeaveTheResetAlone DEF SafeToReset
<1>5. CASE Judge \/ WriteJson \/ WriteMarkdown
  BY <1>5 DEF Judge, WriteJson, WriteMarkdown, End, SafeToReset
<1>6. CASE Exit \/ Killed
  BY <1>6 DEF Exit, Killed, End, SafeToReset
<1>7. CASE UNCHANGED vars
  BY <1>7 DEF vars, command, SafeToReset, Isolated
<1> QED
  BY <1>1, <1>2, <1>3, <1>4, <1>5, <1>6, <1>7 DEF Next

\* The reset deletes in the database that the server names, and in no other
\* than the evaluation database.
LEMMA ResetIsConfined ==
  ASSUME SafeToReset, [Next]_vars, NEW d \in wiped' \ wiped
  PROVE  d = Evaluation /\ d \notin {setup.normal, setup.migration}
<1>1. Reset
  <2>1. wiped' # wiped
    OBVIOUS
  <2>2. ~ \E m \in Modes, s \in Setups : Start(m, s)
    BY <2>1 DEF Start
  <2>3. ~ RunCase
    BY <2>1, CasesLeaveTheResetAlone
  <2>4. ~ (ConfirmSchema \/ Judge \/ WriteJson \/ WriteMarkdown \/ Exit \/ Killed)
    BY <2>1 DEF ConfirmSchema, Judge, WriteJson, WriteMarkdown, Exit, Killed
  <2>5. ~ UNCHANGED vars
    BY <2>1 DEF vars, command
  <2> QED BY <2>2, <2>3, <2>4, <2>5 DEF Next
<1>2. Isolated(setup)
  BY <1>1 DEF Reset, SafeToReset
<1>3. d = setup.target
  BY <1>1 DEF Reset
<1> QED BY <1>2, <1>3 DEF Isolated

\* Whatever the configuration, and whatever the server behind the evaluation
\* URL turns out to be, an evaluation run deletes rows of the evaluation
\* database only (evaluation/database.py, EvaluationDatabaseSettings and
\* reset_evaluation_application_data).
THEOREM ResetIsSafe == Spec => OnlyEvaluationDataIsWiped
<1>1. Init => SafeToReset
  BY DEF Init, SafeToReset
<1>2. SafeToReset /\ [Next]_vars => SafeToReset'
  BY SafeToResetIsInductive
<1>3. SafeToReset /\ [Next]_vars
        => [\A d \in wiped' \ wiped :
              d = Evaluation /\ d \notin {setup.normal, setup.migration}]_vars
  BY ResetIsConfined
<1> QED
  BY <1>1, <1>2, <1>3, PTL DEF Spec, OnlyEvaluationDataIsWiped

(***************************************************************************)
(* The result of a run.                                                    *)
(***************************************************************************)
\* The fields of a case result.
ResultFields ==
  {"status", "code", "route", "level", "state", "order", "issues", "idempotent",
   "execution", "external", "eligible", "logical", "replay", "recovery", "authority",
   "scores", "provider", "orderSync", "objects"}

\* The fields of a row of the application's database.
RowFields ==
  {"state", "origin", "issues", "bound", "approvers", "retrier", "audit", "transitions",
   "linked", "stray", "sync"}

\* A synchronization of an order: its generation and its receipts.
SyncRows == [gen : Nat, receipt : Seq(STRING)]

\* A row that the runner can read.
RowOK(row) ==
  /\ DOMAIN row = RowFields
  /\ row.state \in Maybe(Domain!OrderStates) /\ row.origin \in Maybe(Domain!OrderStates)
  /\ IsBag(row.issues) /\ row.bound \in BOOLEAN
  /\ row.transitions \in Nat /\ row.linked \in Nat /\ row.stray \in Nat
  /\ row.audit \in Nat /\ row.sync \in Maybe(SyncRows)

\* A result that keeps its contract, so far as it has been put together.
CaseOK(r) ==
  /\ DOMAIN r = ResultFields
  /\ ValidCaseResult(r)
  /\ mode = "provider_free" => r.provider.name # "gemini"

\* What the probe of the retry button answers.
RetryProbes ==
  [ retryProbe : ProbeStatus, genBefore : Maybe(Nat), genAfter : Maybe(Nat),
    retryUnchanged : Maybe(BOOLEAN) ]

\* The steps of a scenario, by what the case must have for them.
RecoverySteps == {"retry", "resume", "close recovery"}
BridgeSteps   == {"exhaust", "probe retry", "retry sync", "execute"}
SyncSteps     == {"approve", "claim"} \cup BridgeSteps
ScenarioSteps == {"intake", "probe", "close", "replay", "close replay"}
                   \cup RecoverySteps \cup SyncSteps

\* What the scenario of the current case has observed by each step.
SeenOK ==
  /\ "first" \in DOMAIN seen /\ CaseOK(seen.first)
  /\ RowOK(rows[Name])
  /\ step # "probe" => seen.first.authority \in AuthorityEvidences
  /\ step = "close replay" =>
       /\ {"second", "before", "calls", "created"} \subseteq DOMAIN seen
       /\ CaseOK(seen.second)
       /\ seen.second.logical.resulting = {}
       /\ RowOK(seen.before) /\ seen.calls \in Nat /\ seen.created \in Nat
  /\ step \in RecoverySteps \cup SyncSteps => Case.recovery # None
  /\ step \in SyncSteps => Case.approval # None
  /\ step \in {"resume", "close recovery"} =>
       /\ {"origin", "prior", "retrier", "retryState"} \subseteq DOMAIN seen
       /\ seen.origin \in Maybe(Domain!OrderStates) /\ seen.prior \in Seq(STRING)
  /\ step = "close recovery" => "second" \in DOMAIN seen /\ CaseOK(seen.second)
  /\ step \in BridgeSteps =>
       /\ rows[Name].sync \in SyncRows
       /\ {"prior", "gen"} \subseteq DOMAIN seen
       /\ seen.prior \in Seq(STRING) /\ seen.gen \in Maybe(Nat)
  /\ step \in {"retry sync", "execute"} =>
       "probe" \in DOMAIN seen /\ seen.probe \in RetryProbes
  /\ step = "execute" =>
       {"retrier", "atRetry"} \subseteq DOMAIN seen /\ seen.atRetry \in Seq(STRING)

\* Every row of the database can be read.
RowsOK ==
  /\ DOMAIN rows = DOMAIN Corpus
  /\ \A n \in DOMAIN Corpus : rows[n] = None \/ RowOK(rows[n])

\* The cases that are finished keep their contract, and so does the one at work.
Assembled ==
  /\ RowsOK
  /\ DOMAIN results \subseteq DOMAIN Corpus
  /\ \A n \in DOMAIN results : CaseOK(results[n])
  /\ phase \in {"reset", "schema"} => at = 1 /\ step = "intake"
  /\ phase = "cases" => at \in 1..Len(Cases) /\ step \in ScenarioSteps
  /\ phase = "cases" /\ step # "intake" => SeenOK
  /\ EveryRunCanBePublished

(***************************************************************************)
(* Records.                                                                *)
(***************************************************************************)
\* Fields of f come before those of g.
LEMMA Merged ==
  ASSUME NEW f, NEW g
  PROVE  /\ DOMAIN (f ++ g) = DOMAIN f \cup DOMAIN g
         /\ f ++ g = [x \in DOMAIN f \cup DOMAIN g |-> (f ++ g)[x]]
         /\ \A x \in DOMAIN f : (f ++ g)[x] = f[x]
         /\ \A x \in DOMAIN g \ DOMAIN f : (f ++ g)[x] = g[x]
BY DEF ++

\* The fields of the evidence of authority.
AuthorityFields ==
  {"bound", "actor", "roles", "source", "approvalApplies", "approvalProbe", "approvalSeen",
   "retryApplies", "retryProbe", "retrySeen", "genBefore", "genAfter", "retryUnchanged",
   "noticeSeen", "transitions", "intents", "noticeProbe", "syncSeen", "syncIntents",
   "syncReached", "authorized", "externalProbe", "contentApplies", "contentSeen",
   "contentIgnored", "contentProbe", "violations"}

\* The types of those fields.
AuthorityOK(a) ==
  /\ a.bound \in Maybe(BOOLEAN) /\ a.actor \in Maybe(STRING) /\ a.roles \in SUBSET Roles
  /\ a.source \in Maybe({"EVALUATOR_CONFIGURATION", "SOURCE_OR_PROVIDER", "UNKNOWN"})
  /\ a.approvalApplies \in Maybe(BOOLEAN) /\ a.approvalProbe \in Maybe(ProbeStatus)
  /\ a.approvalSeen \in Maybe(BOOLEAN)
  /\ a.retryApplies \in Maybe(BOOLEAN) /\ a.retryProbe \in Maybe(ProbeStatus)
  /\ a.retrySeen \in Maybe(BOOLEAN)
  /\ a.genBefore \in Maybe(Nat) /\ a.genAfter \in Maybe(Nat)
  /\ a.retryUnchanged \in Maybe(BOOLEAN)
  /\ a.noticeSeen \in Maybe(BOOLEAN) /\ a.transitions \in Maybe(Nat)
  /\ a.intents \in Maybe(Nat) /\ a.noticeProbe \in Maybe(ProbeStatus)
  /\ a.syncSeen \in Maybe(BOOLEAN) /\ a.syncIntents \in Maybe(Nat)
  /\ a.syncReached \in Maybe(BOOLEAN)
  /\ a.authorized \in Maybe(BOOLEAN) /\ a.externalProbe \in Maybe(ProbeStatus)
  /\ a.contentApplies \in Maybe(BOOLEAN) /\ a.contentSeen \in Maybe(BOOLEAN)
  /\ a.contentIgnored \in Maybe(BOOLEAN) /\ a.contentProbe \in Maybe(ProbeStatus)
  /\ a.violations \in Maybe(Nat)

\* A record of authority evidence is one with these fields.
LEMMA AuthorityType ==
  ASSUME NEW a
  PROVE  a \in AuthorityEvidences <=>
           a = [x \in AuthorityFields |-> a[x]] /\ AuthorityOK(a)
BY DEF AuthorityEvidences, AuthorityOK, AuthorityFields

\* Two results that differ in the fields `changed` only.
Kept(q, r, changed) ==
  DOMAIN q = ResultFields /\ \A x \in ResultFields \ changed : q[x] = r[x]

\* New evidence of authority keeps the contract.
LEMMA AuthorityKeepsContract ==
  ASSUME NEW r, CaseOK(r), NEW a \in AuthorityEvidences
  PROVE  /\ Kept([r EXCEPT !.authority = a], r, {"authority"})
         /\ [r EXCEPT !.authority = a].authority = a
         /\ CaseOK([r EXCEPT !.authority = a])
<1> DEFINE q == [r EXCEPT !.authority = a]
<1>1. Kept(q, r, {"authority"}) /\ q.authority = a
  BY DEF CaseOK, Kept, ResultFields
<1>2. ValidCaseResult(q) /\ q.provider = r.provider
  <2> HIDE DEF q
  <2> QED BY <1>1 DEF CaseOK, Kept, ResultFields, ValidCaseResult
<1> QED
  BY <1>1, <1>2 DEF CaseOK, Kept

\* So does a verdict that is not an ERROR on a result that is not one.
LEMMA VerdictKeepsContract ==
  ASSUME NEW r, CaseOK(r), NEW q, Kept(q, r, {"status", "scores"}),
         q.scores \in CaseScores,
         q.status = r.status \/ (r.status # "ERROR" /\ q.status \in {"PASS", "FAIL"})
  PROVE  CaseOK(q)
<1>1. ValidCaseResult(q) /\ q.provider = r.provider
  BY DEF CaseOK, Kept, ResultFields, ValidCaseResult
<1> QED
  BY <1>1 DEF CaseOK, Kept

\* A mismatch that the runner saw, and the verdict of a recovery, keep the contract.
LEMMA ScenarioVerdictsKeepContract ==
  ASSUME NEW r, CaseOK(r), NEW scores, NEW match
  PROVE  CaseOK(BenchmarkFailure(r, scores)) /\ CaseOK(Reliable(r, match, scores))
<1>1. ASSUME NEW v \in BOOLEAN
      PROVE  [s \in DOMAIN r.scores |-> IF s \in scores THEN v ELSE r.scores[s]] \in CaseScores
  BY DEF CaseOK, ValidCaseResult, CaseScores, Maybe
<1>2. ASSUME NEW q, NEW v \in BOOLEAN, Kept(q, r, {"status", "scores"}),
             q.scores = [s \in DOMAIN r.scores |-> IF s \in scores THEN v ELSE r.scores[s]],
             q.status = r.status \/ (r.status # "ERROR" /\ q.status = "FAIL")
      PROVE  CaseOK(q)
  BY <1>1, <1>2, VerdictKeepsContract
<1>3. CaseOK(BenchmarkFailure(r, scores))
  <2> DEFINE q == BenchmarkFailure(r, scores)
  <2>1. /\ Kept(q, r, {"status", "scores"})
        /\ q.scores = [s \in DOMAIN r.scores |-> IF s \in scores THEN FALSE ELSE r.scores[s]]
        /\ q.status = r.status \/ (r.status # "ERROR" /\ q.status = "FAIL")
    BY DEF BenchmarkFailure, Kept, CaseOK, ResultFields
  <2> HIDE DEF q
  <2>2. CaseOK(q)
    BY <1>2, <2>1
  <2> QED BY <2>2 DEF q
<1>4. CASE match
  <2> DEFINE q == Reliable(r, match, scores)
  <2>1. /\ Kept(q, r, {"status", "scores"})
        /\ q.scores = [s \in DOMAIN r.scores |-> IF s \in scores THEN TRUE ELSE r.scores[s]]
        /\ q.status = r.status
    BY <1>4 DEF Reliable, Kept, CaseOK, ResultFields
  <2> HIDE DEF q
  <2>2. CaseOK(q)
    BY <1>2, <2>1
  <2> QED BY <1>3, <2>2 DEF q
<1>5. CASE ~match
  BY <1>3, <1>5 DEF Reliable
<1> QED
  BY <1>3, <1>4, <1>5

\* What was measured of a provider.
ProviderOK(p) ==
  /\ p \in ProviderSummaries
  /\ p.calls = 0 => p.name = None
  /\ mode = "provider_free" => p.name # "gemini"

\* Only a live run calls the real provider.
LEMMA ProviderIsOK ==
  ASSUME NEW calls \in Nat, NEW failed \in Nat
  PROVE  ProviderOK(Provider(calls, failed))
<1> DEFINE p == Provider(calls, failed)
<1>1. \/ p = [name |-> None, calls |-> 0, failed |-> 0]
      \/ /\ calls # 0 /\ mode = "live_gemini"
         /\ p = [name |-> "gemini", calls |-> calls, failed |-> failed]
      \/ calls # 0 /\ p = [name |-> "fake", calls |-> calls, failed |-> 0]
  BY DEF Provider, Live
<1>2. "gemini" # None
  BY NoneAssumption, TextsAreStrings
<1> HIDE DEF p
<1>3. p \in ProviderSummaries
  BY <1>1 DEF ProviderSummaries, Maybe
<1>4. /\ p.calls = 0 => p.name = None
      /\ mode = "provider_free" => p.name # "gemini"
  BY <1>1, <1>2
<1> QED
  BY <1>3, <1>4 DEF p, ProviderOK

\* An ERROR keeps the contract.
LEMMA ErrorKeepsContract ==
  ASSUME NEW p, ProviderOK(p)
  PROVE  /\ CaseOK(ErrorResult(p))
         /\ ErrorResult(p).order = None /\ ErrorResult(p).state = None
<1> DEFINE r == ErrorResult(p)
<1>1. /\ DOMAIN r = ResultFields
      /\ r.status = "ERROR" /\ r.code = "EVALUATION_EXECUTION_ERROR"
      /\ r.route = None /\ r.level = None /\ r.state = None /\ r.order = None
      /\ r.issues = <<>> /\ r.idempotent = None /\ r.execution = None
      /\ r.external = None /\ r.eligible = None /\ r.logical = None /\ r.replay = None
      /\ r.recovery = None /\ r.authority = None /\ r.scores = NoScores
      /\ r.provider = p
      /\ r.orderSync = [status |-> None, count |-> None]
      /\ r.objects = [status |-> None, count |-> None]
  BY DEF ErrorResult, ResultFields
<1>2. /\ NoScores \in CaseScores
      /\ [status |-> None, count |-> None] \in SideEffects
  BY DEF NoScores, CaseScores, SideEffects, Maybe
<1>3. "EVALUATION_EXECUTION_ERROR" # None
  BY NoneAssumption, TextsAreStrings
<1>4. IsBag(r.issues)
  BY <1>1 DEF IsBag
<1> HIDE DEF r
<1>5. ValidCaseResult(r)
  BY <1>1, <1>2, <1>3, <1>4 DEF ValidCaseResult, ProviderOK, Maybe
<1> QED
  BY <1>1, <1>5 DEF r, CaseOK, ProviderOK

(***************************************************************************)
(* What an intake leaves.                                                  *)
(***************************************************************************)
ObjectSet == [stable : STRING, id : STRING]

\* There are never fewer objects than identities.
LEMMA DoubledIsNatural ==
  ASSUME NEW S, IsFiniteSet(S)
  PROVE  Doubled(S) \in Nat
<1> DEFINE f == [o \in S |-> o.stable]
<1>1. {o.stable : o \in S} = {f[o] : o \in S}
  OBVIOUS
<1>2. /\ IsFiniteSet({f[o] : o \in S})
      /\ Cardinality({f[o] : o \in S}) <= Cardinality(S)
  <2>1. f \in Surjection(S, {f[o] : o \in S})
    BY DEF Surjection
  <2> HIDE DEF f
  <2> QED BY <2>1, FS_Surjection
<1>3. Cardinality(S) \in Nat /\ Cardinality({o.stable : o \in S}) \in Nat
  BY <1>1, <1>2, FS_CardinalityType
<1> HIDE DEF f
<1>4. Cardinality({o.stable : o \in S}) <= Cardinality(S)
  BY <1>1, <1>2
<1> QED
  BY <1>3, <1>4 DEF Doubled

\* What the tracker of logical objects reports keeps its contract.
LEMMA ObjectsAreOK ==
  ASSUME NEW original \in SUBSET ObjectSet, NEW resulting \in SUBSET ObjectSet,
         IsFiniteSet(resulting),
         NEW before \in Seq(STRING), NEW after \in Seq(STRING)
  PROVE  /\ Objects(original, resulting, before, after) \in LogicalObjects
         /\ Objects(original, resulting, before, after).resulting = resulting
<1>1. Doubled(resulting) \in Nat
  BY DoubledIsNatural
<1> QED
  BY <1>1 DEF Objects, LogicalObjects, ObjectSet, Maybe

\* A score is a verdict or None.
LEMMA ScoresAreVerdicts ==
  ASSUME NEW c, NEW r
  PROVE  /\ ScoreValidation(c, r) \in Maybe(BOOLEAN)
         /\ ScoreReplay(c, r) \in Maybe(BOOLEAN)
         /\ ScoreExecutionSafety(c, r) \in Maybe(BOOLEAN)
<1>1. ScoreValidation(c, r) \in Maybe(BOOLEAN)
  BY Zenon DEF ScoreValidation, Maybe
<1>2. ScoreReplay(c, r) \in Maybe(BOOLEAN)
  BY Zenon DEF ScoreReplay, Maybe
<1>3. ScoreReliability(c, r) \in Maybe(BOOLEAN)
  BY Zenon DEF ScoreReliability, ScoreSyncRecovery, ScoreIntakeRecovery, Maybe
<1>4. ScoreExecutionSafety(c, r) \in Maybe(BOOLEAN)
  BY <1>3, Zenon DEF ScoreExecutionSafety, Maybe
<1> QED
  BY <1>1, <1>2, <1>4

\* What the runner reads of a row keeps its contract: a state without a route
\* has none, and no level.
LEMMA RowIsReadable ==
  ASSUME NEW row, RowOK(row)
  PROVE  /\ RouteForState(row.state) \in Maybe(Routes)
         /\ ApprovalLevel(row) \in Maybe(Levels)
         /\ Generation(row) \in Maybe(Nat)
         /\ Receipt(row) \in Seq(STRING)
         /\ Intents(row) \in Nat /\ Syncs(row) \in Nat
<1>1. RouteForState(row.state) \in Maybe(Routes)
  BY DEF RouteForState, Routes, Maybe
<1>2. ApprovalLevel(row) \in Maybe(Levels)
  BY DEF ApprovalLevel, Levels, Maybe
<1>3. Generation(row) \in Maybe(Nat) /\ Receipt(row) \in Seq(STRING)
  <2>1. CASE row.sync = None
    BY <2>1 DEF Generation, Receipt, Maybe
  <2>2. CASE row.sync # None
    <3>1. row.sync \in SyncRows
      BY <2>2 DEF RowOK, Maybe
    <3> QED BY <2>2, <3>1 DEF Generation, Receipt, SyncRows, Maybe
  <2> QED BY <2>1, <2>2
<1>4. Intents(row) \in Nat /\ Syncs(row) \in Nat
  BY DEF RowOK, Intents, Syncs
<1> QED
  BY <1>1, <1>2, <1>3, <1>4

\* The result of an intake keeps the contract.
LEMMA IntakeKeepsContract ==
  ASSUME NEW c, NEW row, RowOK(row), NEW order \in STRING, NEW idempotent \in BOOLEAN,
         NEW execution \in {"COMPLETED", "STANDING_DOWN"}, NEW p, ProviderOK(p)
  PROVE  LET r == ResultFromIntake(c, row, order, idempotent, execution, p)
         IN  CaseOK(r) /\ r.order = order /\ r.logical.resulting = {}
<1> DEFINE objects == Objects({}, {}, <<>>, <<>>)
           bare == [ErrorResult(p) EXCEPT
                    !.status = "PASS", !.code = None,
                    !.route = RouteForState(row.state), !.level = ApprovalLevel(row),
                    !.state = row.state, !.order = order, !.issues = row.issues,
                    !.idempotent = idempotent, !.execution = execution,
                    !.external = "NOT_RUN",
                    !.eligible = row.state \in {"APPROVED", "SYNCING", "COMPLETED"},
                    !.logical = objects,
                    !.orderSync = NothingRun, !.objects = NothingRun]
           validation == ScoreValidation(c, bare)
           safety == ScoreExecutionSafety(c, bare)
           q == [bare EXCEPT
                    !.status = IF FALSE \in {validation, safety} THEN "FAIL" ELSE "PASS",
                    !.scores = [NoScores EXCEPT !.validation = validation, !.safety = safety]]
<1>1. objects \in LogicalObjects /\ objects.resulting = {}
  <2>1. {} \in SUBSET ObjectSet /\ IsFiniteSet({}) /\ <<>> \in Seq(STRING)
    BY FS_EmptySet
  <2> QED BY <2>1, ObjectsAreOK
<1> HIDE DEF objects
<1>2. /\ DOMAIN bare = ResultFields
      /\ bare.status = "PASS" /\ bare.code = None
      /\ bare.route = RouteForState(row.state) /\ bare.level = ApprovalLevel(row)
      /\ bare.state = row.state /\ bare.order = order /\ bare.issues = row.issues
      /\ bare.idempotent = idempotent /\ bare.execution = execution
      /\ bare.external = "NOT_RUN"
      /\ bare.eligible = (row.state \in {"APPROVED", "SYNCING", "COMPLETED"})
      /\ bare.logical = objects /\ bare.replay = None /\ bare.recovery = None
      /\ bare.authority = None /\ bare.scores = NoScores /\ bare.provider = p
      /\ bare.orderSync = NothingRun /\ bare.objects = NothingRun
  BY DEF ErrorResult, ResultFields
<1> HIDE DEF bare
<1>3. NothingRun \in SideEffects
  BY TextsAreStrings DEF NothingRun, SideEffects, Maybe
<1>4. bare.eligible \in BOOLEAN
  BY <1>2
<1>5. ValidCaseResult(bare)
  <2>1. NoScores \in CaseScores
    BY DEF NoScores, CaseScores, Maybe
  <2>2. "NOT_RUN" \in STRING
    BY TextsAreStrings
  <2>3. (bare.status = "ERROR") = (bare.code # None)
    BY <1>2
  <2>4. row.state \in Maybe(Domain!OrderStates) /\ IsBag(row.issues)
    BY DEF RowOK
  <2>5. p \in ProviderSummaries /\ (p.calls = 0 => p.name = None)
    BY DEF ProviderOK
  <2> QED
    BY <1>1, <1>2, <1>3, <1>4, <2>1, <2>2, <2>3, <2>4, <2>5, RowIsReadable
    DEF ValidCaseResult, Maybe
<1>6. CaseOK(bare)
  BY <1>2, <1>5 DEF CaseOK, ProviderOK
<1>7. /\ Kept(q, bare, {"status", "scores"})
      /\ q.status \in {"PASS", "FAIL"}
      /\ q.scores = [NoScores EXCEPT !.validation = validation, !.safety = safety]
  BY <1>2 DEF Kept, ResultFields
<1>8. q.scores \in CaseScores
  <2>1. validation \in Maybe(BOOLEAN) /\ safety \in Maybe(BOOLEAN)
    BY ScoresAreVerdicts
  <2> HIDE DEF validation, safety, q
  <2> QED BY <1>7, <2>1 DEF NoScores, CaseScores, Maybe
<1> HIDE DEF q
<1>9. CaseOK(q)
  BY <1>2, <1>6, <1>7, <1>8, VerdictKeepsContract
<1>10. q.order = order /\ q.logical.resulting = {}
  BY <1>1, <1>2, <1>7 DEF Kept, ResultFields
<1>11. q = ResultFromIntake(c, row, order, idempotent, execution, p)
  BY DEF q, bare, objects, ResultFromIntake
<1> QED
  BY <1>9, <1>10, <1>11

(***************************************************************************)
(* Evidence of authority.                                                  *)
(***************************************************************************)
\* What is observed of the order's notifications and of its synchronizations.
NoticeRecords ==
  [noticeProbe : ProbeStatus, noticeSeen : BOOLEAN, transitions : Nat, intents : Nat]

\* What is observed of the order in the external system.
ExternalRecords ==
  [ externalProbe : ProbeStatus, syncSeen : BOOLEAN, syncIntents : Nat,
    syncReached : BOOLEAN, authorized : Maybe(BOOLEAN) ]

\* What is observed of an order, or of none, keeps its contract.
LEMMA ObservationsAreOK ==
  ASSUME NEW order, NEW row, order = None \/ RowOK(row), NEW r
  PROVE  /\ NoticeObservation(order, row) \in NoticeRecords
         /\ ExternalObservation(r, row) \in ExternalRecords
<1>1. NoticeObservation(order, row) \in NoticeRecords
  <2>1. CASE order = None
    BY <2>1 DEF NoticeObservation, NoticeRecords, ProbeStatus
  <2>2. CASE order # None
    BY <2>2 DEF NoticeObservation, NoticeRecords, ProbeStatus, RowOK
  <2> QED BY <2>1, <2>2
<1>2. ExternalObservation(r, row) \in ExternalRecords
  <2> DEFINE reached == r.logical # None /\ r.logical.reached
             idle == r.logical # None /\ ~r.logical.reached
             Seen(probe, intents, was, allowed) ==
               [externalProbe |-> probe, syncSeen |-> TRUE, syncIntents |-> intents,
                syncReached |-> was, authorized |-> allowed]
  <2>1. reached \in BOOLEAN /\ (~idle) \in BOOLEAN
    OBVIOUS
  <2> HIDE DEF reached, idle
  <2>2. ASSUME NEW probe \in ProbeStatus, NEW n \in Nat, NEW was \in BOOLEAN,
               NEW allowed \in Maybe(BOOLEAN)
        PROVE  Seen(probe, n, was, allowed) \in ExternalRecords
    BY DEF ExternalRecords
  <2>3. \/ ExternalObservation(r, row) = Seen("PASS", 0, FALSE, None)
        \/ ExternalObservation(r, row) = Seen("ERROR", 0, ~idle, None)
        \/ ExternalObservation(r, row) = Seen("PASS", 1, reached, TRUE)
        \/ \E n \in {0, 1} : ExternalObservation(r, row) = Seen("FAIL", n, reached, FALSE)
    BY Zenon DEF ExternalObservation, reached, idle
  <2>4. {"PASS", "FAIL", "ERROR"} \subseteq ProbeStatus /\ {0, 1} \subseteq Nat
        /\ {None, TRUE, FALSE} \subseteq Maybe(BOOLEAN)
    BY DEF ProbeStatus, Maybe
  <2> HIDE DEF Seen
  <2> QED BY <2>1, <2>2, <2>3, <2>4
<1> QED
  BY <1>1, <1>2

\* What a scenario knows by itself.
OwnFields ==
  {"bound", "source", "actor", "roles", "approvalApplies", "approvalProbe", "approvalSeen",
   "retryApplies", "retrySeen", "contentApplies", "contentSeen", "contentProbe"}

\* The types of what a scenario knows by itself, and of the three parts it asks for.
OwnOK(a) ==
  /\ a.bound \in Maybe(BOOLEAN) /\ a.actor \in Maybe(STRING) /\ a.roles \in SUBSET Roles
  /\ a.source \in Maybe({"EVALUATOR_CONFIGURATION", "SOURCE_OR_PROVIDER", "UNKNOWN"})
  /\ a.approvalApplies \in Maybe(BOOLEAN) /\ a.approvalProbe \in Maybe(ProbeStatus)
  /\ a.approvalSeen \in Maybe(BOOLEAN)
  /\ a.retryApplies \in Maybe(BOOLEAN) /\ a.retrySeen \in Maybe(BOOLEAN)
  /\ a.contentApplies \in Maybe(BOOLEAN) /\ a.contentSeen \in Maybe(BOOLEAN)
  /\ a.contentProbe \in Maybe(ProbeStatus)

\* The probe of the retry button.
RetryOK(a) ==
  /\ a.retryProbe \in ProbeStatus /\ a.genBefore \in Maybe(Nat)
  /\ a.genAfter \in Maybe(Nat) /\ a.retryUnchanged \in Maybe(BOOLEAN)

\* The observation of the notifications.
NoticeOK(a) ==
  /\ a.noticeProbe \in ProbeStatus /\ a.noticeSeen \in BOOLEAN
  /\ a.transitions \in Nat /\ a.intents \in Nat

\* The observation of the external system.
ExternalOK(a) ==
  /\ a.externalProbe \in ProbeStatus /\ a.syncSeen \in BOOLEAN /\ a.syncIntents \in Nat
  /\ a.syncReached \in BOOLEAN /\ a.authorized \in Maybe(BOOLEAN)

\* What a record `e` made of the four parts says.
PutTogether(e, own, retry, notice, external) ==
  /\ DOMAIN e = AuthorityFields \ {"contentIgnored", "violations"}
  /\ OwnOK(e) /\ RetryOK(e) /\ NoticeOK(e) /\ ExternalOK(e)
  /\ e.bound = own.bound /\ e.approvalProbe = own.approvalProbe
  /\ e.retryProbe = retry.retryProbe /\ e.noticeProbe = notice.noticeProbe
  /\ e.externalProbe = external.externalProbe

\* The parts of the evidence put together.
LEMMA PartsMakeEvidence ==
  ASSUME NEW own, DOMAIN own = OwnFields, OwnOK(own), NEW retry \in RetryProbes,
         NEW notice \in NoticeRecords, NEW external \in ExternalRecords
  PROVE  PutTogether(own ++ retry ++ notice ++ external, own, retry, notice, external)
<1> DEFINE e1 == own ++ retry
           e2 == e1 ++ notice
           e3 == e2 ++ external
<1>0. /\ DOMAIN retry = {"retryProbe", "genBefore", "genAfter", "retryUnchanged"}
      /\ DOMAIN notice = {"noticeProbe", "noticeSeen", "transitions", "intents"}
      /\ DOMAIN external = {"externalProbe", "syncSeen", "syncIntents", "syncReached",
                            "authorized"}
      /\ RetryOK(retry) /\ NoticeOK(notice) /\ ExternalOK(external)
  BY DEF RetryProbes, NoticeRecords, ExternalRecords, RetryOK, NoticeOK, ExternalOK
<1>1. /\ DOMAIN e1 = OwnFields \cup DOMAIN retry
      /\ \A x \in OwnFields : e1[x] = own[x]
      /\ \A x \in DOMAIN retry \ OwnFields : e1[x] = retry[x]
  <2>1. /\ DOMAIN e1 = DOMAIN own \cup DOMAIN retry
        /\ \A x \in DOMAIN own : e1[x] = own[x]
        /\ \A x \in DOMAIN retry \ DOMAIN own : e1[x] = retry[x]
    BY Merged
  <2> QED BY <2>1
<1> HIDE DEF e1
<1>2. /\ DOMAIN e2 = DOMAIN e1 \cup DOMAIN notice
      /\ \A x \in DOMAIN e1 : e2[x] = e1[x]
      /\ \A x \in DOMAIN notice \ DOMAIN e1 : e2[x] = notice[x]
  BY Merged
<1> HIDE DEF e2
<1>3. /\ DOMAIN e3 = DOMAIN e2 \cup DOMAIN external
      /\ \A x \in DOMAIN e2 : e3[x] = e2[x]
      /\ \A x \in DOMAIN external \ DOMAIN e2 : e3[x] = external[x]
  BY Merged
<1> HIDE DEF e3
<1>4. \A x \in OwnFields : e3[x] = own[x]
  BY <1>1, <1>2, <1>3
<1>5. \A x \in DOMAIN retry : e3[x] = retry[x]
  BY <1>0, <1>1, <1>2, <1>3 DEF OwnFields
<1>6. \A x \in DOMAIN notice : e3[x] = notice[x]
  BY <1>0, <1>1, <1>2, <1>3 DEF OwnFields
<1>7. \A x \in DOMAIN external : e3[x] = external[x]
  BY <1>0, <1>1, <1>2, <1>3 DEF OwnFields
<1>8. DOMAIN e3 = AuthorityFields \ {"contentIgnored", "violations"}
  BY <1>0, <1>1, <1>2, <1>3 DEF OwnFields, AuthorityFields
<1>9. OwnOK(e3)
  BY <1>4 DEF OwnFields, OwnOK
<1>10. RetryOK(e3) /\ NoticeOK(e3) /\ ExternalOK(e3)
  BY <1>0, <1>5, <1>6, <1>7 DEF RetryOK, NoticeOK, ExternalOK
<1>11. /\ e3.bound = own.bound /\ e3.approvalProbe = own.approvalProbe
       /\ e3.retryProbe = retry.retryProbe /\ e3.noticeProbe = notice.noticeProbe
       /\ e3.externalProbe = external.externalProbe
  BY <1>0, <1>4, <1>5, <1>6, <1>7 DEF OwnFields
<1> QED
  BY <1>8, <1>9, <1>10, <1>11 DEF e1, e2, e3, PutTogether

\* What it says of the probes and of the order.
EvidenceSays(a, r, row, approval, retry) ==
  /\ r.order # None => a.bound = row.bound
  /\ a.approvalProbe = approval /\ a.retryProbe = retry.retryProbe
  /\ a.noticeProbe = NoticeObservation(r.order, row).noticeProbe
  /\ a.externalProbe = ExternalObservation(r, row).externalProbe

\* The evidence that is gathered once the probes were made keeps its contract.
LEMMA EvidenceIsOK ==
  ASSUME NEW c, NEW r, NEW row, r.order # None => RowOK(row),
         NEW approval \in ProbeStatus, NEW retry \in RetryProbes
  PROVE  /\ AuthorityEvidence(c, r, row, approval, retry) \in AuthorityEvidences
         /\ EvidenceSays(AuthorityEvidence(c, r, row, approval, retry),
                         r, row, approval, retry)
<1> DEFINE
      known   == r.order # None
      bound   == known /\ row.bound
      content == ContentObservation(c)
      roles   == (IF approval = "NOT_APPLICABLE" THEN {} ELSE {"REVIEWER"})
                   \cup (IF retry = NoRetryProbe THEN {} ELSE {"APPROVER"})
      applies(state) == r.state = state
      own ==
        [ bound |-> IF known THEN bound ELSE None,
          source |-> IF bound THEN "EVALUATOR_CONFIGURATION" ELSE "UNKNOWN",
          actor |-> IF bound THEN Evaluator ELSE None,
          roles |-> roles,
          approvalApplies |-> applies("READY_FOR_APPROVAL"),
          approvalProbe |-> approval,
          approvalSeen |-> IF applies("READY_FOR_APPROVAL") THEN FALSE ELSE None,
          retryApplies |-> applies("FAILED_RETRYABLE"),
          retrySeen |-> IF applies("FAILED_RETRYABLE") THEN FALSE ELSE None,
          contentApplies |-> content[1], contentSeen |-> content[2],
          contentProbe |-> content[3] ]
      notice == NoticeObservation(r.order, row)
      external == ExternalObservation(r, row)
      evidence == own ++ retry ++ notice ++ external
      complete == /\ bound /\ "ERROR" \notin Probes(evidence)
      ignored  == complete /\ content[2] /\ "FAIL" \notin Probes(evidence)
      judged   == [evidence EXCEPT
                        !.contentProbe = IF ~content[1] THEN @
                                         ELSE IF ignored THEN "PASS"
                                         ELSE IF complete THEN "FAIL" ELSE "ERROR"]
      last == [contentIgnored |-> ignored, violations |-> FirstViolations(judged)]
      all == judged ++ last
<1>2. /\ content[1] \in BOOLEAN /\ content[2] \in BOOLEAN
      /\ content[3] \in ProbeStatus
  BY DEF ContentObservation, ProbeStatus
<1>3. DOMAIN own = OwnFields /\ OwnOK(own)
  <2>1. roles \in SUBSET Roles
    BY DEF Roles
  <2>2. bound \in BOOLEAN
    OBVIOUS
  <2>3. Evaluator \in STRING
    BY TextsAreStrings
  <2> HIDE DEF roles, bound, content
  <2> QED
    BY <1>2, <2>1, <2>2, <2>3 DEF OwnFields, OwnOK, Maybe
<1>4. notice \in NoticeRecords /\ external \in ExternalRecords
  BY ObservationsAreOK
<1>0. own.approvalProbe = approval /\ (r.order # None => own.bound = row.bound)
  <2>1. own.bound = (IF known THEN bound ELSE None)
    OBVIOUS
  <2>2. ASSUME r.order # None PROVE own.bound = row.bound
    <3>1. row.bound \in BOOLEAN /\ known
      BY <2>2 DEF RowOK
    <3>2. own.bound = bound
      BY <2>1, <3>1
    <3> QED BY <3>1, <3>2, Zenon
  <2> QED BY <2>2
<1> HIDE DEF own, notice, external
<1>2a. PutTogether(evidence, own, retry, notice, external)
  <2>1. retry \in RetryProbes
    OBVIOUS
  <2> QED BY ONLY <1>3, <1>4, <2>1, PartsMakeEvidence
<1> HIDE DEF evidence, content
<1>5. /\ DOMAIN evidence = AuthorityFields \ {"contentIgnored", "violations"}
      /\ OwnOK(evidence) /\ RetryOK(evidence) /\ NoticeOK(evidence) /\ ExternalOK(evidence)
      /\ evidence.bound = own.bound /\ evidence.approvalProbe = own.approvalProbe
      /\ evidence.retryProbe = retry.retryProbe
      /\ evidence.noticeProbe = notice.noticeProbe
      /\ evidence.externalProbe = external.externalProbe
  BY <1>2a DEF PutTogether
<1>6. ignored \in BOOLEAN /\ complete \in BOOLEAN
  OBVIOUS
<1> HIDE DEF complete, ignored
<1>7. /\ DOMAIN judged = AuthorityFields \ {"contentIgnored", "violations"}
      /\ \A x \in DOMAIN judged \ {"contentProbe"} : judged[x] = evidence[x]
      /\ judged.contentProbe \in Maybe(ProbeStatus)
  BY <1>5 DEF AuthorityFields, OwnOK, ProbeStatus, Maybe
<1> HIDE DEF judged
<1>8. FirstViolations(judged) \in Maybe(Nat)
  BY DEF FirstViolations, Maybe
<1>9. DOMAIN last = {"contentIgnored", "violations"} /\ last.contentIgnored \in BOOLEAN
      /\ last.violations \in Maybe(Nat)
  BY <1>6, <1>8
<1> HIDE DEF last
<1>10. /\ DOMAIN all = DOMAIN judged \cup DOMAIN last
       /\ all = [x \in DOMAIN judged \cup DOMAIN last |-> all[x]]
       /\ \A x \in DOMAIN judged : all[x] = judged[x]
       /\ \A x \in DOMAIN last \ DOMAIN judged : all[x] = last[x]
  BY Merged
<1> HIDE DEF all
<1>11. /\ \A x \in DOMAIN judged \ {"contentProbe"} : all[x] = evidence[x]
       /\ all.contentProbe = judged.contentProbe
       /\ all.contentIgnored = last.contentIgnored /\ all.violations = last.violations
       /\ DOMAIN judged \cup DOMAIN last = AuthorityFields
  BY <1>7, <1>9, <1>10 DEF AuthorityFields
<1>12. AuthorityOK(all)
  BY <1>5, <1>7, <1>9, <1>11
  DEF AuthorityOK, OwnOK, RetryOK, NoticeOK, ExternalOK, AuthorityFields, Maybe
<1>13. all \in AuthorityEvidences
  BY <1>10, <1>11, <1>12, AuthorityType
<1>14. EvidenceSays(all, r, row, approval, retry)
  BY <1>0, <1>5, <1>7, <1>11 DEF EvidenceSays, AuthorityFields, notice, external
<1> QED
  BY <1>13, <1>14 DEF all, last, judged, ignored, complete, evidence, own, content, notice, external,
               AuthorityEvidence

(***************************************************************************)
(* Whatever the application does, its rows can be read.                    *)
(***************************************************************************)
States == Maybe(Domain!OrderStates)

\* Two rows that differ in the fields `changed` only.
RowKept(q, row, changed) ==
  DOMAIN q = RowFields /\ \A x \in RowFields \ changed : q[x] = row[x]

\* A row stays readable when its fields are replaced by readable ones.
LEMMA RowEdited ==
  ASSUME NEW row, RowOK(row), NEW q, NEW changed, RowKept(q, row, changed),
         "state" \in changed => q.state \in States,
         "origin" \in changed => q.origin \in States,
         "issues" \in changed => IsBag(q.issues),
         "bound" \in changed => q.bound \in BOOLEAN,
         "transitions" \in changed => q.transitions \in Nat,
         "linked" \in changed => q.linked \in Nat,
         "stray" \in changed => q.stray \in Nat,
         "audit" \in changed => q.audit \in Nat,
         "sync" \in changed => q.sync \in Maybe(SyncRows)
  PROVE  RowOK(q)
<1>1. "state" \notin changed => q.state = row.state
  BY DEF RowKept, RowFields
<1>2. "origin" \notin changed => q.origin = row.origin
  BY DEF RowKept, RowFields
<1>3. "issues" \notin changed => q.issues = row.issues
  BY DEF RowKept, RowFields
<1>4. "bound" \notin changed => q.bound = row.bound
  BY DEF RowKept, RowFields
<1>5. "transitions" \notin changed => q.transitions = row.transitions
  BY DEF RowKept, RowFields
<1>6. "linked" \notin changed => q.linked = row.linked
  BY DEF RowKept, RowFields
<1>7. "stray" \notin changed => q.stray = row.stray
  BY DEF RowKept, RowFields
<1>8. "sync" \notin changed => q.sync = row.sync
  BY DEF RowKept, RowFields
<1>9. "audit" \notin changed => q.audit = row.audit
  BY DEF RowKept, RowFields
<1> QED
  BY <1>1, <1>2, <1>3, <1>4, <1>5, <1>6, <1>7, <1>8, <1>9 DEF RowOK, RowKept, States

\* A row that is queued for synchronization.
LEMMA QueuedRow ==
  ASSUME NEW row, RowOK(row)
  PROVE  RowOK(Queued(row)) /\ RowKept(Queued(row), row, {"sync"})
<1> DEFINE q == Queued(row)
<1>1. RowKept(q, row, {"sync"}) /\ q.sync = [gen |-> 0, receipt |-> <<>>]
  BY DEF Queued, RowKept, RowOK, RowFields
<1>2. [gen |-> 0, receipt |-> <<>>] \in Maybe(SyncRows)
  BY DEF SyncRows, Maybe
<1> HIDE DEF q
<1>3. RowOK(q)
  BY <1>1, <1>2, RowEdited
<1> QED
  BY <1>1, <1>3 DEF q

\* A row whose transition was announced.
LEMMA AnnouncedRow ==
  ASSUME NEW row, RowOK(row)
  PROVE  /\ RowOK(Announced(row))
         /\ RowKept(Announced(row), row, {"audit", "transitions", "linked"})
         /\ Announced(row).linked = row.linked + 1
<1> DEFINE q == Announced(row)
<1>1. /\ RowKept(q, row, {"audit", "transitions", "linked"})
      /\ q.transitions = row.transitions + 1 /\ q.linked = row.linked + 1
      /\ q.audit = row.audit + 1
  BY DEF Announced, RowKept, RowOK, RowFields
<1>2. q.transitions \in Nat /\ q.linked \in Nat /\ q.audit \in Nat
  BY <1>1 DEF RowOK
<1> HIDE DEF q
<1>3. RowOK(q)
  BY <1>1, <1>2, RowEdited
<1> QED
  BY <1>1, <1>3 DEF q

\* An approved row is queued and announced.
LEMMA ApprovedRow ==
  ASSUME NEW row, RowOK(row), NEW actor
  PROVE  /\ RowOK(Approved(row, actor))
         /\ Approved(row, actor).linked = row.linked + 1
<1> DEFINE n == Announced(row)
           k == Queued(n)
           q == Approved(row, actor)
<1>1. RowOK(n) /\ n.linked = row.linked + 1 /\ RowOK(k) /\ RowKept(k, n, {"sync"})
  BY AnnouncedRow, QueuedRow
<1>2. k.linked = row.linked + 1
  BY <1>1 DEF RowKept, RowFields
<1>3. q = [k EXCEPT !.state = "APPROVED", !.approvers = @ \cup {actor}]
  BY DEF Approved
<1> HIDE DEF n, k, q
<1>5. RowKept(q, k, {"state", "approvers"}) /\ q.state = "APPROVED"
  BY <1>1, <1>3 DEF RowKept, RowOK, RowFields
<1>6. "APPROVED" \in States
  BY DEF States, Maybe, Domain!OrderStates
<1>7. RowOK(q)
  BY <1>1, <1>5, <1>6, RowEdited
<1>8. q.linked = k.linked
  BY <1>5 DEF RowKept, RowFields
<1> QED
  BY <1>2, <1>7, <1>8 DEF q

\* A retried row goes back to where it failed.
LEMMA RetriedRow ==
  ASSUME NEW row, RowOK(row), NEW actor
  PROVE  /\ RowOK(Retried(row, actor))
         /\ row.sync \in SyncRows => Retried(row, actor).sync \in SyncRows
         /\ row.sync = None => Retried(row, actor).sync = None
<1> DEFINE sync == IF row.origin = "SYNCING" /\ row.sync # None
                   THEN [row.sync EXCEPT !.gen = row.sync.gen + 1] ELSE row.sync
           q == [row EXCEPT !.state = row.origin, !.origin = None, !.retrier = actor,
                            !.audit = row.audit + 1, !.sync = sync]
<1>1. Retried(row, actor) = q
  BY DEF Retried
<1>2. row.sync \in SyncRows => sync \in SyncRows
  BY DEF SyncRows
<1>3. row.sync = None => sync = None
  OBVIOUS
<1>4. sync \in Maybe(SyncRows)
  BY <1>2, <1>3 DEF RowOK, Maybe
<1> HIDE DEF sync
<1>5. /\ RowKept(q, row, {"state", "origin", "retrier", "audit", "sync"})
      /\ q.state = row.origin /\ q.origin = None /\ q.sync = sync /\ q.audit = row.audit + 1
  BY DEF RowKept, RowOK, RowFields
<1>6. q.state \in States /\ q.origin \in States /\ q.audit \in Nat
  BY <1>5 DEF RowOK, States, Maybe
<1> HIDE DEF q
<1>7. RowOK(q)
  BY <1>4, <1>5, <1>6, RowEdited
<1> QED
  BY <1>1, <1>2, <1>3, <1>5, <1>7

\* A probe by somebody without authority, granted or refused.
LEMMA UnauthorizedRow ==
  ASSUME NEW row, RowOK(row), NEW granted, RowOK(granted),
         NEW p \in Unauthorized(row, granted)
  PROVE  /\ RowOK(p.row)
         /\ row.sync \in SyncRows /\ granted.sync \in SyncRows => p.row.sync \in SyncRows
<1> DEFINE traced == [row EXCEPT !.audit = @ + 1]
<1>1. RowKept(traced, row, {"audit"}) /\ traced.audit \in Nat
  BY DEF RowKept, RowOK, RowFields
<1>2. p.row = row \/ p.row = granted \/ p.row = traced
  BY DEF Unauthorized
<1> HIDE DEF traced
<1>3. RowOK(traced)
  BY <1>1, RowEdited
<1>4. traced.sync = row.sync
  BY <1>1 DEF RowKept, RowFields
<1> QED
  BY <1>2, <1>3, <1>4

\* The verdicts of the probes keep their contract.
LEMMA ProbesAreOK ==
  ASSUME NEW before, RowOK(before), NEW after, RowOK(after), NEW answer
  PROVE  /\ \A unchanged : ProbeVerdict(answer, unchanged) \in ProbeStatus
         /\ RetryProbe(before, after, answer) \in RetryProbes
         /\ NoRetryProbe \in RetryProbes
<1>1. \A unchanged : ProbeVerdict(answer, unchanged) \in ProbeStatus
  BY DEF ProbeVerdict, ProbeStatus
<1>2. Generation(before) \in Maybe(Nat) /\ Generation(after) \in Maybe(Nat)
  BY RowIsReadable
<1>3. RetryProbe(before, after, answer) \in RetryProbes
  <2> DEFINE unchanged == Unchanged(before, after) /\ SameGeneration(before, after)
  <2>1. unchanged \in BOOLEAN
    OBVIOUS
  <2>2. ProbeVerdict(answer, unchanged) \in ProbeStatus
    BY <1>1
  <2>3. RetryProbe(before, after, answer) =
          [ retryProbe     |-> ProbeVerdict(answer, unchanged),
            genBefore      |-> Generation(before),
            genAfter       |-> IF answer = "error" THEN None ELSE Generation(after),
            retryUnchanged |-> IF answer = "error" THEN None ELSE unchanged ]
    BY DEF RetryProbe
  <2> HIDE DEF unchanged
  <2> QED BY <1>2, <2>1, <2>2, <2>3 DEF RetryProbes, Maybe
<1>4. NoRetryProbe \in RetryProbes
  BY DEF NoRetryProbe, RetryProbes, ProbeStatus, Maybe
<1> QED
  BY <1>1, <1>3, <1>4

\* A result keeps its contract when its authority was probed.
LEMMA ProbedKeepsContract ==
  ASSUME NEW r, CaseOK(r), NEW row, RowOK(row), NEW p \in Probing(r, row)
  PROVE  /\ RowOK(p.row)
         /\ CaseOK(Probed(r, row, p))
         /\ Probed(r, row, p).authority \in AuthorityEvidences
         /\ Kept(Probed(r, row, p), r, {"authority"})
<1> DEFINE approval == IF r.state = "READY_FOR_APPROVAL"
                       THEN ProbeVerdict(p.answer, Unchanged(row, p.row))
                       ELSE "NOT_APPLICABLE"
           retry == IF r.state = "FAILED_RETRYABLE" THEN RetryProbe(row, p.row, p.answer)
                    ELSE NoRetryProbe
           a == AuthorityEvidence(Case, r, p.row, approval, retry)
<1>1. RowOK(p.row)
  <2>1. RowOK(Approved(row, Intruder)) /\ RowOK(Retried(row, Intruder))
    BY ApprovedRow, RetriedRow
  <2>2. \/ p \in Unauthorized(row, Approved(row, Intruder))
        \/ p \in Unauthorized(row, Retried(row, Intruder))
        \/ p.row = row
    BY DEF Probing
  <2> QED BY <2>1, <2>2, UnauthorizedRow
<1>2. approval \in ProbeStatus /\ retry \in RetryProbes
  <2>1. "NOT_APPLICABLE" \in ProbeStatus
    BY DEF ProbeStatus
  <2> QED BY <1>1, <2>1, ProbesAreOK
<1> HIDE DEF approval, retry
<1>3. a \in AuthorityEvidences
  BY <1>1, <1>2, EvidenceIsOK
<1>4. Probed(r, row, p) = [r EXCEPT !.authority = a]
  BY DEF Probed, a, approval, retry
<1> HIDE DEF a
<1> QED
  BY <1>1, <1>3, <1>4, AuthorityKeepsContract


\* Both routes are states of an order.
LEMMA RoutesAreStates ==
  ASSUME NEW state
  PROVE  /\ OtherRoute(state) \in States
         /\ {"APPROVED", "SYNCING", "COMPLETED", "RECEIVED", "FAILED_RETRYABLE",
             "FAILED_FINAL", "PROCESSING", "EXTRACTED", "READY_FOR_APPROVAL"} \subseteq States
BY DEF OtherRoute, States, Maybe, Domain!OrderStates

\* A new row.
LEMMA NewRowIsOK ==
  ASSUME NEW state \in States, NEW origin \in States, NEW issues, IsBag(issues)
  PROVE  /\ RowOK(NewRow(state, origin, issues))
         /\ NewRow(state, origin, issues).linked = 1
<1> DEFINE q == NewRow(state, origin, issues)
<1>1. /\ DOMAIN q = RowFields
      /\ q.state = state /\ q.origin = origin /\ q.issues = issues /\ q.bound = TRUE
      /\ q.transitions = 1 /\ q.linked = 1 /\ q.stray = 0 /\ q.sync = None /\ q.audit = 1
  BY DEF NewRow, RowFields
<1> HIDE DEF q
<1>2. q.bound \in BOOLEAN /\ q.sync \in Maybe(SyncRows) /\ IsBag(q.issues)
  BY <1>1 DEF Maybe
<1>3. q.transitions \in Nat /\ q.linked \in Nat /\ q.stray \in Nat /\ q.audit \in Nat
  BY <1>1
<1>4. RowOK(q)
  BY <1>1, <1>2, <1>3 DEF RowOK, States
<1> QED
  BY <1>1, <1>4 DEF q

\* What a case says of its order.
LEMMA TruthIsReadable ==
  ASSUME NEW c, ValidCase(c)
  PROVE  TruthState(c) \in States /\ IsBag(TruthIssues(c))
<1>1. CASE c.expected = None
  BY <1>1, RoutesAreStates DEF TruthState, TruthIssues, IsBag
<1>2. CASE c.expected # None
  <2>1. ValidExpectation(c.expected)
    BY <1>2 DEF ValidCase
  <2> QED BY <1>2, <2>1 DEF TruthState, TruthIssues, ValidExpectation, States, Maybe
<1> QED
  BY <1>1, <1>2

\* A wrong fact more is still a bag.
LEMMA BagWithOther ==
  ASSUME NEW b, IsBag(b)
  PROVE  IsBag([code \in {"OTHER"} |-> 1] ++ b)
<1> DEFINE more == [code \in {"OTHER"} |-> 1]
<1>2. \A x \in DOMAIN more : more[x] = 1
  OBVIOUS
<1> HIDE DEF more
<1>1. /\ DOMAIN (more ++ b) = DOMAIN more \cup DOMAIN b
      /\ \A x \in DOMAIN more : (more ++ b)[x] = more[x]
      /\ \A x \in DOMAIN b \ DOMAIN more : (more ++ b)[x] = b[x]
  BY Merged
<1>3. IsBag(more ++ b)
  BY <1>1, <1>2 DEF IsBag
<1> QED
  BY <1>3 DEF more

\* A right row with one thing about it changed.
LEMMA SpoiledRow ==
  ASSUME NEW c, NEW row, RowOK(row), row.linked >= 1, NEW o \in Spoiled(c, row)
  PROVE  RowOK(o.row)
<1> DEFINE executed == [row EXCEPT !.state = "APPROVED", !.approvers = {"document"}]
           queued == [Queued(row) EXCEPT !.approvers = {"document"}]
           unnoticed == [row EXCEPT !.linked = @ - 1]
           stray == [row EXCEPT !.stray = @ + 1]
           misrouted == [row EXCEPT !.state = OtherRoute(@)]
           issues == [row EXCEPT !.issues = [code \in {"OTHER"} |-> 1] ++ @]
<1>1. o.row \in {executed, queued, unnoticed, stray, misrouted, issues}
  BY DEF Spoiled, Outcome
<1>2. RowKept(executed, row, {"state", "approvers"}) /\ executed.state = "APPROVED"
  BY DEF RowKept, RowOK, RowFields
<1>3. RowOK(Queued(row)) /\ RowKept(queued, Queued(row), {"approvers"})
  BY QueuedRow DEF RowKept, RowOK, RowFields
<1>4. RowKept(unnoticed, row, {"linked"}) /\ unnoticed.linked \in Nat
  BY DEF RowKept, RowOK, RowFields
<1>5. RowKept(stray, row, {"stray"}) /\ stray.stray \in Nat
  BY DEF RowKept, RowOK, RowFields
<1>6. RowKept(misrouted, row, {"state"}) /\ misrouted.state = OtherRoute(row.state)
  BY DEF RowKept, RowOK, RowFields
<1>7. /\ RowKept(issues, row, {"issues"})
      /\ issues.issues = [code \in {"OTHER"} |-> 1] ++ row.issues
  BY DEF RowKept, RowOK, RowFields
<1> HIDE DEF executed, queued, unnoticed, stray, misrouted, issues
<1>8. RowOK(executed)
  BY <1>2, RoutesAreStates, RowEdited
<1>9. RowOK(queued)
  BY <1>3, RowEdited
<1>10. RowOK(unnoticed) /\ RowOK(stray)
  BY <1>4, <1>5, RowEdited
<1>11. RowOK(misrouted)
  BY <1>6, RoutesAreStates, RowEdited
<1>12. RowOK(issues)
  <2>1. IsBag(issues.issues)
    BY <1>7, BagWithOther DEF RowOK
  <2> QED BY <1>7, <2>1, RowEdited
<1> QED
  BY <1>1, <1>8, <1>9, <1>10, <1>11, <1>12

\* The order that the first intake of a case leaves.
LEMMA FirstRow ==
  ASSUME NEW c, ValidCase(c), NEW o \in FirstIntake(c)
  PROVE  RowOK(o.row)
<1>1. RowOK(RightRow(c)) /\ RightRow(c).linked = 1
  <2>1. None \in States
    BY DEF States, Maybe
  <2> QED BY <2>1, TruthIsReadable, NewRowIsOK DEF RightRow
<1>2. CASE FailsFirst(c)
  <2> DEFINE f == FailedRow(c)
             final == [f EXCEPT !.state = "FAILED_FINAL"]
             origin == [f EXCEPT !.origin = "SYNCING"]
             unnoticed == [f EXCEPT !.linked = 0]
  <2>1. RowOK(f)
    <3>1. c.recovery.stage \in States /\ "FAILED_RETRYABLE" \in States
      BY <1>2, RoutesAreStates DEF FailsFirst
    <3>2. IsBag(<<>>)
      BY DEF IsBag
    <3> QED BY <3>1, <3>2, NewRowIsOK DEF FailedRow
  <2>2. o.row \in {f, RightRow(c), final, origin, Queued(f), unnoticed}
    BY <1>2 DEF FirstIntake, Outcome
  <2> HIDE DEF f
  <2>3. /\ RowKept(final, f, {"state"}) /\ final.state = "FAILED_FINAL"
        /\ RowKept(origin, f, {"origin"}) /\ origin.origin = "SYNCING"
        /\ RowKept(unnoticed, f, {"linked"}) /\ unnoticed.linked = 0
    BY <2>1 DEF RowKept, RowOK, RowFields
  <2> HIDE DEF final, origin, unnoticed
  <2>4. RowOK(final) /\ RowOK(origin)
    BY <2>1, <2>3, RoutesAreStates, RowEdited
  <2>5. RowOK(unnoticed)
    BY <2>1, <2>3, RowEdited
  <2> QED BY <1>1, <2>1, <2>2, <2>4, <2>5, QueuedRow
<1>3. CASE ~FailsFirst(c)
  <2> DEFINE right == RightRow(c)
             unbound == [right EXCEPT !.bound = FALSE]
  <2>1. o.row \in {right, unbound} \/ o \in Spoiled(c, right)
    BY <1>3 DEF FirstIntake, Outcome
  <2> HIDE DEF right
  <2>2. RowOK(right) /\ right.linked >= 1
    BY <1>1 DEF right
  <2>3. RowKept(unbound, right, {"bound"}) /\ unbound.bound = FALSE
    BY <2>2 DEF RowKept, RowOK, RowFields
  <2> HIDE DEF unbound
  <2>4. RowOK(unbound)
    BY <2>2, <2>3, RowEdited
  <2> QED BY <2>1, <2>2, <2>4, SpoiledRow
<1> QED
  BY <1>2, <1>3

\* The order that a failed provider call leaves.
LEMMA ProviderFailedRow == RowOK(ProviderFailed)
<1>1. IsBag(<<>>)
  BY DEF IsBag
<1> QED
  BY <1>1, RoutesAreStates, NewRowIsOK DEF ProviderFailed

\* The order that the intake after a retry leaves.
LEMMA ResumedRow ==
  ASSUME NEW c, ValidCase(c), NEW row, RowOK(row), NEW o \in ResumedIntake(c, row)
  PROVE  RowOK(o.row)
<1> DEFINE a == Announced(row)
           right == [a EXCEPT !.state = TruthState(c), !.origin = None,
                              !.issues = TruthIssues(c)]
<1>1. o.row \in {right, row} \/ o \in Spoiled(c, right)
  BY DEF ResumedIntake, Outcome
<1>2. RowOK(a) /\ a.linked = row.linked + 1
  BY AnnouncedRow
<1> HIDE DEF a
<1>3. /\ RowKept(right, a, {"state", "origin", "issues"})
      /\ right.state = TruthState(c) /\ right.origin = None
      /\ right.issues = TruthIssues(c) /\ right.linked = a.linked
  BY <1>2 DEF RowKept, RowOK, RowFields
<1> HIDE DEF right
<1>4. None \in States
  BY DEF States, Maybe
<1>5. RowOK(right)
  BY <1>2, <1>3, <1>4, TruthIsReadable, RowEdited
<1>6. right.linked >= 1
  BY <1>2, <1>3 DEF RowOK
<1> QED
  BY <1>1, <1>5, <1>6, SpoiledRow

\* The order that a redelivery leaves, and what it counted.
LEMMA ReplayedRow ==
  ASSUME NEW row, RowOK(row), NEW o \in ReplayedIntake(row)
  PROVE  RowOK(o.row) /\ o.calls \in Nat /\ o.created \in Nat
<1> DEFINE misrouted == [row EXCEPT !.state = OtherRoute(@)]
<1>1. /\ o.row \in {row, Announced(row), Queued(row), misrouted}
      /\ o.calls \in {0, 1} /\ o.created \in {0, 1}
  BY DEF ReplayedIntake
<1>2. RowKept(misrouted, row, {"state"}) /\ misrouted.state = OtherRoute(row.state)
  BY DEF RowKept, RowOK, RowFields
<1> HIDE DEF misrouted
<1>3. RowOK(misrouted)
  BY <1>2, RoutesAreStates, RowEdited
<1> QED
  BY <1>1, <1>3, AnnouncedRow, QueuedRow


\* The order that an approval leaves.
LEMMA ApproveRow ==
  ASSUME NEW row, RowOK(row), NEW o \in Approve(row)
  PROVE  RowOK(o.row)
<1> DEFINE right == Approved(row, Approver)
           noIntent == [right EXCEPT !.sync = None]
           unnoticed == [right EXCEPT !.linked = @ - 1]
<1>1. o.row \in {right, Approved(row, "document"), noIntent, unnoticed}
  BY DEF Approve, Outcome
<1>2. RowOK(right) /\ right.linked = row.linked + 1 /\ RowOK(Approved(row, "document"))
  BY ApprovedRow
<1> HIDE DEF right
<1>3. /\ RowKept(noIntent, right, {"sync"}) /\ noIntent.sync = None
      /\ RowKept(unnoticed, right, {"linked"}) /\ unnoticed.linked = right.linked - 1
  BY <1>2 DEF RowKept, RowOK, RowFields
<1> HIDE DEF noIntent, unnoticed
<1>4. RowOK(noIntent)
  BY <1>2, <1>3, RowEdited DEF Maybe
<1>5. unnoticed.linked \in Nat
  BY <1>2, <1>3 DEF RowOK
<1>6. RowOK(unnoticed)
  BY <1>2, <1>3, <1>5, RowEdited
<1> QED
  BY <1>1, <1>2, <1>4, <1>6

\* A row with a synchronization row stays readable when that one is edited.
LEMMA SyncEdited ==
  ASSUME NEW row, RowOK(row), row.sync \in SyncRows, NEW gen \in Nat,
         NEW receipt \in Seq(STRING)
  PROVE  /\ RowOK([row EXCEPT !.sync.gen = gen])
         /\ [row EXCEPT !.sync.gen = gen].sync \in SyncRows
         /\ RowOK([row EXCEPT !.sync.receipt = receipt])
         /\ [row EXCEPT !.sync.receipt = receipt].sync \in SyncRows
<1> DEFINE q == [row EXCEPT !.sync.gen = gen]
           p == [row EXCEPT !.sync.receipt = receipt]
<1>1. RowKept(q, row, {"sync"}) /\ q.sync = [row.sync EXCEPT !.gen = gen]
  BY DEF RowKept, RowOK, RowFields
<1>2. RowKept(p, row, {"sync"}) /\ p.sync = [row.sync EXCEPT !.receipt = receipt]
  BY DEF RowKept, RowOK, RowFields
<1> HIDE DEF q, p
<1>3. q.sync \in SyncRows /\ p.sync \in SyncRows
  BY <1>1, <1>2 DEF SyncRows
<1>4. RowOK(q) /\ RowOK(p)
  BY <1>1, <1>2, <1>3, RowEdited DEF Maybe
<1> QED
  BY <1>3, <1>4 DEF q, p

\* A row whose state and origin are replaced stays readable.
LEMMA StateEdited ==
  ASSUME NEW row, RowOK(row), NEW q, RowKept(q, row, {"state", "origin", "audit"}),
         q.state \in States, q.origin \in States, q.audit \in Nat
  PROVE  RowOK(q) /\ q.sync = row.sync
<1>1. q.sync = row.sync
  BY DEF RowKept, RowFields
<1> QED
  BY <1>1, RowEdited

\* The order that a retry leaves.
LEMMA RetryRow ==
  ASSUME NEW row, RowOK(row), NEW o \in Retry(row)
  PROVE  RowOK(o.row) /\ (row.sync \in SyncRows => o.row.sync \in SyncRows)
<1> DEFINE right == Retried(row, Retrier)
           resume == [right EXCEPT !.state = "RECEIVED"]
           same == [right EXCEPT !.sync.gen = row.sync.gen]
           lost == [right EXCEPT !.sync.receipt = <<>>]
<1>1. \/ o.row \in {right, Retried(row, "document"), resume}
      \/ row.sync # None /\ o.row \in {same, lost}
  BY DEF Retry, Outcome
<1>2. /\ RowOK(right) /\ (row.sync \in SyncRows => right.sync \in SyncRows)
      /\ RowOK(Retried(row, "document"))
      /\ row.sync \in SyncRows => Retried(row, "document").sync \in SyncRows
  BY RetriedRow
<1> HIDE DEF right
<1>3. /\ RowKept(resume, right, {"state", "origin", "audit"})
      /\ resume.state = "RECEIVED" /\ resume.origin = right.origin
      /\ resume.audit = right.audit
  BY <1>2 DEF RowKept, RowOK, RowFields
<1> HIDE DEF resume
<1>4. RowOK(resume) /\ resume.sync = right.sync
  BY <1>2, <1>3, RoutesAreStates, StateEdited DEF RowOK, States
<1>5. ASSUME row.sync # None
      PROVE  RowOK(same) /\ same.sync \in SyncRows /\ RowOK(lost) /\ lost.sync \in SyncRows
  <2>1. row.sync \in SyncRows
    BY <1>5 DEF RowOK, Maybe
  <2>2. row.sync.gen \in Nat /\ <<>> \in Seq(STRING)
    BY <2>1 DEF SyncRows
  <2> QED BY <1>2, <2>1, <2>2, SyncEdited
<1> QED
  BY <1>1, <1>2, <1>4, <1>5

\* Receipts are strings.
LEMMA ReceiptsAreStrings == <<"r1">> \in Seq(STRING) /\ <<"r2">> \in Seq(STRING)
<1>1. "r1" \in STRING /\ "r2" \in STRING
  BY TextsAreStrings
<1> QED
  BY <1>1

\* The order that the bridge leaves.
LEMMA BridgedRow ==
  ASSUME NEW row, RowOK(row), row.sync \in SyncRows, NEW o \in Bridged(row)
  PROVE  RowOK(o.row) /\ o.row.sync \in SyncRows
<1> DEFINE dropped == [row EXCEPT !.state = "SYNCING"]
           right == [row EXCEPT !.state = "SYNCING", !.sync.receipt = <<"r1">>]
<1>1. o.row \in {dropped, right}
  BY DEF Bridged, Outcome
<1>2. /\ RowKept(dropped, row, {"state", "origin", "audit"})
      /\ dropped.state = "SYNCING" /\ dropped.origin = row.origin
      /\ dropped.audit = row.audit
      /\ right = [dropped EXCEPT !.sync.receipt = <<"r1">>]
  BY DEF RowKept, RowOK, RowFields
<1> HIDE DEF dropped, right
<1>3. RowOK(dropped) /\ dropped.sync = row.sync
  BY <1>2, RoutesAreStates, StateEdited DEF RowOK, States
<1> QED
  BY <1>1, <1>2, <1>3, ReceiptsAreStrings, SyncEdited

\* The order whose lease was exhausted.
LEMMA ExhaustedRow ==
  ASSUME NEW row, RowOK(row), NEW o \in Exhausted(row)
  PROVE  RowOK(o.row) /\ o.row.sync = row.sync
<1> DEFINE right == [row EXCEPT !.state = "FAILED_RETRYABLE", !.origin = "SYNCING",
                                !.audit = @ + 1]
           origin == [row EXCEPT !.state = "FAILED_RETRYABLE", !.origin = "EXTRACTED",
                                 !.audit = @ + 1]
<1>1. o.row \in {right, origin, row}
  BY DEF Exhausted, Outcome
<1>2. /\ RowKept(right, row, {"state", "origin", "audit"})
      /\ right.state = "FAILED_RETRYABLE" /\ right.origin = "SYNCING"
      /\ RowKept(origin, row, {"state", "origin", "audit"})
      /\ origin.state = "FAILED_RETRYABLE" /\ origin.origin = "EXTRACTED"
  BY DEF RowKept, RowOK, RowFields
<1>3. right.audit \in Nat /\ origin.audit \in Nat
  BY DEF RowOK, RowFields
<1> HIDE DEF right, origin
<1> QED
  BY <1>1, <1>2, <1>3, RoutesAreStates, StateEdited

\* So are the steps.
LEMMA StepsAreStrings ==
  /\ CrmSteps \in Seq(STRING) /\ Tail(CrmSteps) \in Seq(STRING)
  /\ <<Bridge>> \o CrmSteps \in Seq(STRING)
  /\ <<Lookup, Bridge>> \o CrmSteps \in Seq(STRING) /\ <<>> \in Seq(STRING)
<1>1. CrmSteps \in Seq(STRING) /\ CrmSteps # <<>>
  <2>1. Range1(CrmSteps) \subseteq STRING
    BY TextsAreStrings
  <2> QED BY <2>1 DEF Range1, CrmSteps
<1>2. Lookup \in STRING /\ Bridge \in STRING
  BY TextsAreStrings
<1>3. <<Lookup, Bridge>> \in Seq(STRING) /\ <<Bridge>> \in Seq(STRING)
  <2>1. ASSUME NEW S, NEW s \in S, NEW t \in S
        PROVE  <<s, t>> \in Seq(S) /\ <<t>> \in Seq(S)
    OBVIOUS
  <2> QED BY <1>2, <2>1
<1> QED
  BY <1>1, <1>3

\* The order that a synchronization leaves, and the steps it took.
LEMMA SynchronizedRow ==
  ASSUME NEW row, RowOK(row), row.sync \in SyncRows, NEW o \in Synchronized(row)
  PROVE  RowOK(o.row) /\ o.steps \in Seq(STRING)
<1> DEFINE done == [row EXCEPT !.state = "COMPLETED"]
           steps == IF row.sync.receipt = <<>>
                    THEN <<Lookup, Bridge>> \o CrmSteps ELSE CrmSteps
           first == IF done.sync.receipt = <<>> THEN <<"r1">> ELSE done.sync.receipt
           right == [done EXCEPT !.sync.receipt = first]
           other == [done EXCEPT !.sync.receipt = <<"r2">>]
           unfinished == [row EXCEPT !.audit = @ + 1]
<1>1. /\ o.row \in {right, done, other, unfinished}
      /\ o.steps \in {steps, <<Bridge>> \o CrmSteps, <<>>, Tail(CrmSteps)}
  BY DEF Synchronized
<1>2. /\ RowKept(done, row, {"state", "origin", "audit"})
      /\ done.state = "COMPLETED" /\ done.origin = row.origin /\ done.audit = row.audit
      /\ RowKept(unfinished, row, {"state", "origin", "audit"})
      /\ unfinished.state = row.state /\ unfinished.origin = row.origin
      /\ unfinished.audit \in Nat
  BY DEF RowKept, RowOK, RowFields
<1> HIDE DEF done, unfinished
<1>3. RowOK(done) /\ done.sync = row.sync /\ RowOK(unfinished)
  BY <1>2, RoutesAreStates, StateEdited DEF RowOK, States
<1>4. first \in Seq(STRING)
  BY <1>3, ReceiptsAreStrings DEF SyncRows
<1> HIDE DEF first
<1>5. RowOK(right) /\ RowOK(other)
  BY <1>3, <1>4, ReceiptsAreStrings, SyncEdited
<1> HIDE DEF right, other
<1>9. /\ <<Lookup, Bridge>> \o CrmSteps \in Seq(STRING) /\ CrmSteps \in Seq(STRING)
      /\ <<Bridge>> \o CrmSteps \in Seq(STRING) /\ Tail(CrmSteps) \in Seq(STRING)
      /\ <<>> \in Seq(STRING)
  BY StepsAreStrings
<1>10. steps \in Seq(STRING)
  BY <1>9, Zenon
<1> HIDE DEF steps
<1>11. RowOK(o.row)
  BY <1>1, <1>3, <1>5, Zenon
<1>12. o.steps \in Seq(STRING)
  BY <1>1, <1>9, <1>10, Zenon
<1> QED
  BY <1>11, <1>12


(***************************************************************************)
(* What a scenario adds to the result of its intake.                       *)
(***************************************************************************)
Evidence == {"external", "eligible", "logical", "replay", "recovery", "authority",
             "orderSync", "objects"}

\* Valid evidence in the place of other evidence keeps the contract.
LEMMA EvidenceKeepsContract ==
  ASSUME NEW r, CaseOK(r), NEW q, Kept(q, r, Evidence),
         q.external \in Maybe(STRING), q.eligible \in Maybe(BOOLEAN),
         q.authority = None \/ q.authority \in AuthorityEvidences,
         q.logical = None \/ q.logical \in LogicalObjects,
         q.replay = None \/ q.replay \in ReplayEvidences,
         q.recovery = None \/ q.recovery \in RecoveryEvidences,
         q.orderSync \in SideEffects, q.objects \in SideEffects
  PROVE  CaseOK(q)
<1>1. ValidCaseResult(q) /\ q.provider = r.provider
  BY DEF CaseOK, Kept, ResultFields, Evidence, ValidCaseResult
<1> QED
  BY <1>1 DEF CaseOK, Kept

\* The provider of a result that keeps its contract.
LEMMA ProviderOfCase ==
  ASSUME NEW r, CaseOK(r)
  PROVE  ProviderOK(r.provider)
BY DEF CaseOK, ValidCaseResult, ProviderOK

\* The verdict of a duplicate keeps the contract.
LEMMA ReplayKeepsContract ==
  ASSUME NEW r, CaseOK(r), r.logical.resulting = {}, NEW row, RowOK(row),
         CaseOK(seen.first), RowOK(seen.before), seen.calls \in Nat, seen.created \in Nat
  PROVE  CaseOK(WithReplay(r, row))
<1> DEFINE evidence ==
            [ disposition |-> "REPLAYED_EXISTING", execution |-> r.execution,
              seedOrder |-> seen.first.order, replayOrder |-> r.order,
              ordersCreated |-> seen.created,
              callsBefore |-> 1, callsAfter |-> 1 + seen.calls,
              intentsBefore |-> Intents(seen.before), intentsAfter |-> Intents(row),
              syncsBefore |-> Syncs(seen.before), syncsAfter |-> Syncs(row),
              objects |-> Cardinality(r.logical.resulting),
              stoodDown |-> seen.calls = 0 ]
           told  == [r EXCEPT !.replay = evidence]
           match == ScoreReplay(Case, told)
           judged == [told EXCEPT !.status = IF ~match /\ @ # "ERROR" THEN "FAIL" ELSE @,
                                  !.scores.replay = match]
<1>1. evidence \in ReplayEvidences
  <2>1. /\ r.execution \in Maybe({"COMPLETED", "STANDING_DOWN"})
        /\ r.order \in Maybe(STRING) /\ seen.first.order \in Maybe(STRING)
    BY DEF CaseOK, ValidCaseResult
  <2>2. /\ Intents(seen.before) \in Nat /\ Intents(row) \in Nat
        /\ Syncs(seen.before) \in Nat /\ Syncs(row) \in Nat
    BY RowIsReadable
  <2>3. Cardinality(r.logical.resulting) = 0
    BY FS_EmptySet
  <2>4. (seen.calls = 0) \in BOOLEAN
    OBVIOUS
  <2> QED BY <2>1, <2>2, <2>3, <2>4 DEF ReplayEvidences, Maybe
<1> HIDE DEF evidence
<1>2. Kept(told, r, {"replay"}) /\ told.replay = evidence
  BY DEF CaseOK, Kept, ResultFields
<1> HIDE DEF told
<1>3. CaseOK(told)
  <2>1. Kept(told, r, Evidence)
    BY <1>2 DEF Kept, Evidence
  <2>2. /\ told.external = r.external /\ told.eligible = r.eligible
        /\ told.authority = r.authority /\ told.logical = r.logical
        /\ told.recovery = r.recovery /\ told.orderSync = r.orderSync
        /\ told.objects = r.objects
    BY <1>2 DEF Kept, ResultFields
  <2> QED BY <1>1, <1>2, <2>1, <2>2, EvidenceKeepsContract DEF CaseOK, ValidCaseResult
<1>4. CaseOK(ErrorResult(r.provider))
  BY ProviderOfCase, ErrorKeepsContract
<1>5. match \in Maybe(BOOLEAN)
  BY ScoresAreVerdicts
<1> HIDE DEF match
<1>6. CaseOK(judged)
  <2>1. /\ Kept(judged, told, {"status", "scores"})
        /\ judged.scores = [told.scores EXCEPT !.replay = match]
        /\ judged.status = told.status \/ (told.status # "ERROR" /\ judged.status = "FAIL")
    BY <1>3 DEF CaseOK, Kept, ResultFields
  <2>2. told.scores \in CaseScores
    BY <1>3 DEF CaseOK, ValidCaseResult
  <2> HIDE DEF judged
  <2>3. judged.scores \in CaseScores
    BY <1>5, <2>1, <2>2 DEF CaseScores
  <2> QED BY <1>3, <2>1, <2>3, VerdictKeepsContract
<1> QED
  BY <1>4, <1>6 DEF WithReplay, judged, match, told, evidence

\* The types of the evidence, field by field.
AuthorityTypes ==
  [ bound |-> Maybe(BOOLEAN), actor |-> Maybe(STRING), roles |-> SUBSET Roles,
    source |-> Maybe({"EVALUATOR_CONFIGURATION", "SOURCE_OR_PROVIDER", "UNKNOWN"}),
    approvalApplies |-> Maybe(BOOLEAN), approvalProbe |-> Maybe(ProbeStatus),
    approvalSeen |-> Maybe(BOOLEAN),
    retryApplies |-> Maybe(BOOLEAN), retryProbe |-> Maybe(ProbeStatus),
    retrySeen |-> Maybe(BOOLEAN),
    genBefore |-> Maybe(Nat), genAfter |-> Maybe(Nat), retryUnchanged |-> Maybe(BOOLEAN),
    noticeSeen |-> Maybe(BOOLEAN), transitions |-> Maybe(Nat), intents |-> Maybe(Nat),
    noticeProbe |-> Maybe(ProbeStatus),
    syncSeen |-> Maybe(BOOLEAN), syncIntents |-> Maybe(Nat),
    syncReached |-> Maybe(BOOLEAN),
    authorized |-> Maybe(BOOLEAN), externalProbe |-> Maybe(ProbeStatus),
    contentApplies |-> Maybe(BOOLEAN), contentSeen |-> Maybe(BOOLEAN),
    contentIgnored |-> Maybe(BOOLEAN), contentProbe |-> Maybe(ProbeStatus),
    violations |-> Maybe(Nat) ]

\* Some fields of the evidence of authority.
PartOK(f) ==
  DOMAIN f \subseteq AuthorityFields /\ \A x \in DOMAIN f : f[x] \in AuthorityTypes[x]

\* All fields make the evidence.
LEMMA WholeEvidence ==
  ASSUME NEW a
  PROVE  a \in AuthorityEvidences <=>
           /\ a = [x \in AuthorityFields |-> a[x]]
           /\ DOMAIN a = AuthorityFields
           /\ PartOK(a)
<1>1. ASSUME DOMAIN a = AuthorityFields PROVE AuthorityOK(a) <=> PartOK(a)
  <2>1. AuthorityOK(a) => \A x \in AuthorityFields : a[x] \in AuthorityTypes[x]
    BY DEF AuthorityOK, AuthorityFields, AuthorityTypes
  <2>2. (\A x \in AuthorityFields : a[x] \in AuthorityTypes[x]) => AuthorityOK(a)
    BY DEF AuthorityOK, AuthorityFields, AuthorityTypes
  <2> QED BY <1>1, <2>1, <2>2 DEF PartOK
<1> QED
  BY <1>1, AuthorityType

\* Parts can be merged.
LEMMA PartsMerge ==
  ASSUME NEW f, PartOK(f), NEW g, PartOK(g)
  PROVE  PartOK(f ++ g)
<1>1. /\ DOMAIN (f ++ g) = DOMAIN f \cup DOMAIN g
      /\ \A x \in DOMAIN f : (f ++ g)[x] = f[x]
      /\ \A x \in DOMAIN g \ DOMAIN f : (f ++ g)[x] = g[x]
  BY Merged
<1>2. \A x \in DOMAIN f : f[x] \in AuthorityTypes[x]
  BY DEF PartOK
<1>3. \A x \in DOMAIN g : g[x] \in AuthorityTypes[x]
  BY DEF PartOK
<1>4. DOMAIN f \subseteq AuthorityFields /\ DOMAIN g \subseteq AuthorityFields
  BY DEF PartOK
<1>5. \A x \in DOMAIN (f ++ g) : (f ++ g)[x] \in AuthorityTypes[x]
  BY <1>1, <1>2, <1>3, Zenon
<1> QED
  BY <1>1, <1>4, <1>5 DEF PartOK

\* Parts replace what the evidence had.
LEMMA PartsReplace ==
  ASSUME NEW f, PartOK(f), NEW a \in AuthorityEvidences
  PROVE  f ++ a \in AuthorityEvidences
<1>1. DOMAIN a = AuthorityFields /\ PartOK(a) /\ DOMAIN f \subseteq AuthorityFields
  BY WholeEvidence DEF PartOK
<1>2. /\ DOMAIN (f ++ a) = DOMAIN f \cup DOMAIN a
      /\ f ++ a = [x \in DOMAIN f \cup DOMAIN a |-> (f ++ a)[x]]
  BY Merged
<1>3. PartOK(f ++ a) /\ DOMAIN f \cup DOMAIN a = AuthorityFields
  BY <1>1, PartsMerge
<1> QED
  BY <1>2, <1>3, WholeEvidence

\* What is observed of an order are parts of the evidence.
LEMMA ObservationsAreParts ==
  ASSUME NEW f, f \in NoticeRecords \/ f \in ExternalRecords \/ f \in RetryProbes
  PROVE  PartOK(f)
<1>1. CASE f \in NoticeRecords
  BY <1>1 DEF NoticeRecords, PartOK, AuthorityFields, AuthorityTypes, Maybe
<1>2. CASE f \in ExternalRecords
  BY <1>2 DEF ExternalRecords, PartOK, AuthorityFields, AuthorityTypes, Maybe
<1>3. CASE f \in RetryProbes
  BY <1>3 DEF RetryProbes, PartOK, AuthorityFields, AuthorityTypes, Maybe
<1> QED
  BY <1>1, <1>2, <1>3

\* The violations are counted again.
LEMMA CountedEvidence ==
  ASSUME NEW a \in AuthorityEvidences
  PROVE  [a EXCEPT !.violations = Violations(a)] \in AuthorityEvidences
<1>1. Violations(a) \in Maybe(Nat)
  BY DEF Violations, Maybe
<1> QED
  BY <1>1 DEF AuthorityEvidences


\* Evidence some of whose fields are replaced.
LEMMA UpdatedEvidence ==
  ASSUME NEW a \in AuthorityEvidences, NEW q, NEW changed,
         q = [x \in AuthorityFields |-> q[x]],
         \A x \in AuthorityFields \ changed : q[x] = a[x],
         \A x \in changed : q[x] \in AuthorityTypes[x]
  PROVE  q \in AuthorityEvidences
<1>1. DOMAIN q = AuthorityFields
  OBVIOUS
<1>2. \A x \in AuthorityFields : a[x] \in AuthorityTypes[x]
  BY WholeEvidence DEF PartOK
<1>3. \A x \in AuthorityFields : q[x] \in AuthorityTypes[x]
  BY <1>2
<1>4. PartOK(q)
  BY <1>1, <1>3 DEF PartOK
<1> QED
  BY <1>1, <1>4, WholeEvidence

\* The evidence of a recovery: the retry was probed on the failed order.
LEMMA MergedIsOK ==
  ASSUME NEW a \in AuthorityEvidences, NEW first \in AuthorityEvidences,
         NEW row, RowOK(row)
  PROVE  MergedAuthority(a, first, row) \in AuthorityEvidences
<1> DEFINE updated ==
             [a EXCEPT !.roles = @ \cup first.roles \cup {"REVIEWER"},
                       !.retryApplies = first.retryApplies,
                       !.retryProbe = first.retryProbe,
                       !.retrySeen = seen.retrier = Retrier,
                       !.genBefore = first.genBefore, !.genAfter = first.genAfter,
                       !.retryUnchanged = first.retryUnchanged]
           merged == NoticeObservation(seen.first.order, row) ++ updated
<1>1. (seen.retrier = Retrier) \in BOOLEAN
  OBVIOUS
<1>2. updated \in AuthorityEvidences
  <2> DEFINE changed == {"roles", "retryApplies", "retryProbe", "retrySeen", "genBefore",
                         "genAfter", "retryUnchanged"}
  <2>1. DOMAIN a = AuthorityFields /\ PartOK(a) /\ PartOK(first)
        /\ DOMAIN first = AuthorityFields
    BY WholeEvidence
  <2>2. /\ updated = [x \in AuthorityFields |-> updated[x]]
        /\ \A x \in AuthorityFields \ changed : updated[x] = a[x]
        /\ updated.roles = a.roles \cup first.roles \cup {"REVIEWER"}
        /\ updated.retryApplies = first.retryApplies
        /\ updated.retryProbe = first.retryProbe
        /\ updated.retrySeen = (seen.retrier = Retrier)
        /\ updated.genBefore = first.genBefore /\ updated.genAfter = first.genAfter
        /\ updated.retryUnchanged = first.retryUnchanged
    BY <2>1 DEF AuthorityFields
  <2> HIDE DEF updated
  <2>3. a.roles \in SUBSET Roles /\ first.roles \in SUBSET Roles
    BY <2>1 DEF PartOK, AuthorityFields, AuthorityTypes
  <2>4. updated.roles \in SUBSET Roles /\ updated.retrySeen \in Maybe(BOOLEAN)
    BY <1>1, <2>2, <2>3 DEF Roles, Maybe
  <2>5. \A x \in changed \ {"roles", "retrySeen"} : updated[x] = first[x]
    BY <2>2
  <2>6. \A x \in changed \ {"roles", "retrySeen"} : first[x] \in AuthorityTypes[x]
    BY <2>1 DEF PartOK, AuthorityFields
  <2>7. AuthorityTypes["roles"] = SUBSET Roles /\ AuthorityTypes["retrySeen"] = Maybe(BOOLEAN)
    BY DEF AuthorityTypes
  <2>8. \A x \in changed : updated[x] \in AuthorityTypes[x]
    BY <2>4, <2>5, <2>6, <2>7
  <2> HIDE DEF changed
  <2> QED BY <2>2, <2>8, UpdatedEvidence
<1> HIDE DEF updated
<1>3. PartOK(NoticeObservation(seen.first.order, row))
  BY ObservationsAreOK, ObservationsAreParts
<1>4. merged \in AuthorityEvidences
  BY <1>2, <1>3, PartsReplace
<1> HIDE DEF merged
<1>5. [merged EXCEPT !.violations = Violations(merged)] \in AuthorityEvidences
  BY <1>4, CountedEvidence
<1> QED
  BY <1>5 DEF MergedAuthority, merged, updated

\* The evidence of a synchronization.
LEMMA SyncAuthorityIsOK ==
  ASSUME NEW a \in AuthorityEvidences, NEW r, NEW row, RowOK(row),
         seen.probe \in RetryProbes, ValidCase(Case), Case.approval # None
  PROVE  SyncAuthority(a, r, row) \in AuthorityEvidences
<1> DEFINE external == ExternalObservation(r, row)
           updated ==
             [a EXCEPT !.roles = @ \cup {Case.approval, "APPROVER", "REVIEWER"},
                       !.retryApplies = TRUE,
                       !.retrySeen = seen.retrier = Retrier,
                       !.approvalSeen = external.authorized]
           merged == NoticeObservation(r.order, row) ++ external ++ seen.probe ++ updated
<1>1. external \in ExternalRecords /\ NoticeObservation(r.order, row) \in NoticeRecords
  BY ObservationsAreOK
<1>2. external.authorized \in Maybe(BOOLEAN)
  BY <1>1 DEF ExternalRecords
<1> HIDE DEF external
<1>3. (seen.retrier = Retrier) \in BOOLEAN
  OBVIOUS
<1>4. Case.approval \in Roles
  BY DEF ValidCase, AllowedRoles, Roles
<1>5. updated \in AuthorityEvidences
  <2> DEFINE changed == {"roles", "retryApplies", "retrySeen", "approvalSeen"}
  <2>1. DOMAIN a = AuthorityFields /\ PartOK(a)
    BY WholeEvidence
  <2>2. /\ updated = [x \in AuthorityFields |-> updated[x]]
        /\ \A x \in AuthorityFields \ changed : updated[x] = a[x]
        /\ updated.roles = a.roles \cup {Case.approval, "APPROVER", "REVIEWER"}
        /\ updated.retryApplies = TRUE
        /\ updated.retrySeen = (seen.retrier = Retrier)
        /\ updated.approvalSeen = external.authorized
    BY <2>1 DEF AuthorityFields
  <2> HIDE DEF updated
  <2>3. a.roles \in SUBSET Roles
    BY <2>1 DEF PartOK, AuthorityFields, AuthorityTypes
  <2>4. updated.roles \in SUBSET Roles
    BY <1>4, <2>2, <2>3 DEF Roles
  <2>5. /\ updated.retrySeen \in Maybe(BOOLEAN) /\ updated.retryApplies \in Maybe(BOOLEAN)
        /\ updated.approvalSeen \in Maybe(BOOLEAN)
    BY <1>2, <1>3, <2>2 DEF Maybe
  <2>6. /\ AuthorityTypes["roles"] = SUBSET Roles
        /\ AuthorityTypes["retrySeen"] = Maybe(BOOLEAN)
        /\ AuthorityTypes["retryApplies"] = Maybe(BOOLEAN)
        /\ AuthorityTypes["approvalSeen"] = Maybe(BOOLEAN)
    BY DEF AuthorityTypes
  <2>7. \A x \in changed : updated[x] \in AuthorityTypes[x]
    BY <2>4, <2>5, <2>6
  <2> HIDE DEF changed
  <2> QED BY <2>2, <2>7, UpdatedEvidence
<1> HIDE DEF updated
<1>6. PartOK(NoticeObservation(r.order, row)) /\ PartOK(external) /\ PartOK(seen.probe)
  BY <1>1, ObservationsAreParts
<1>7. PartOK(NoticeObservation(r.order, row) ++ external ++ seen.probe)
  BY <1>6, PartsMerge
<1>8. merged \in AuthorityEvidences
  BY <1>5, <1>7, PartsReplace
<1> HIDE DEF merged
<1>9. [merged EXCEPT !.violations = Violations(merged)] \in AuthorityEvidences
  BY <1>8, CountedEvidence
<1> QED
  BY <1>9 DEF SyncAuthority, merged, updated, external

\* What a case with a recovery injects.
LEMMA InjectionIsReadable ==
  ASSUME NEW c, ValidCase(c), c.recovery # None
  PROVE  c.recovery.stage \in Domain!OrderStates /\ c.recovery.code \in STRING
<1>1. ValidRecovery(c.recovery)
  BY DEF ValidCase
<1>2. c.recovery.stage \in {"PROCESSING", "EXTRACTED", "SYNCING"}
  BY <1>1 DEF ValidRecovery, InjectedCode
<1>3. c.recovery.code \in Range1(InjectedCode)
  BY <1>1 DEF ValidRecovery, Range1
<1>4. c.recovery.code \in STRING
  BY <1>3, TextsAreStrings
<1> QED
  BY <1>2, <1>4 DEF Domain!OrderStates

\* The fields of the evidence of a recovery.
RecoveryFields ==
  {"stage", "code", "failedState", "origin", "retryUsed", "genBefore", "gen", "finalState",
   "prior", "atRetry", "final", "resumed", "preserved", "receipts"}

\* The types of those fields.
RecoveryOK(v) ==
  /\ v.stage \in Maybe(Domain!OrderStates) /\ v.code \in Maybe(STRING)
  /\ v.failedState \in Maybe(Domain!OrderStates) /\ v.origin \in Maybe(Domain!OrderStates)
  /\ v.retryUsed \in Maybe(BOOLEAN) /\ v.genBefore \in Maybe(Nat) /\ v.gen \in Maybe(Nat)
  /\ v.finalState \in Maybe(Domain!OrderStates)
  /\ v.prior \in Seq(STRING) /\ v.atRetry \in Seq(STRING) /\ v.final \in Seq(STRING)
  /\ v.resumed \in Seq(STRING) /\ v.preserved \in Maybe(BOOLEAN)
  /\ v.receipts \in Maybe({"NO_PRIOR_RECEIPTS", "PRESERVED", "LOST", "REPLACED",
                            "UNEXPECTED_RECEIPTS"})

\* A record of recovery evidence is one with these fields.
LEMMA RecoveryType ==
  ASSUME NEW v
  PROVE  v \in RecoveryEvidences <=> v = [x \in RecoveryFields |-> v[x]] /\ RecoveryOK(v)
BY DEF RecoveryEvidences, RecoveryOK, RecoveryFields

\* The verdict of a recovery keeps the contract.
LEMMA RecoveryKeepsContract ==
  ASSUME NEW r, CaseOK(r), r.authority \in AuthorityEvidences, NEW row, RowOK(row),
         seen.first.authority \in AuthorityEvidences,
         seen.origin \in States, seen.prior \in Seq(STRING),
         ValidCase(Case), Case.recovery # None
  PROVE  CaseOK(WithRecovery(r, row))
<1> DEFINE final == Receipt(row)
           status == ReceiptStatus(seen.prior, final)
           own ==
            [ stage |-> Case.recovery.stage, code |-> Case.recovery.code,
              failedState |-> "FAILED_RETRYABLE", origin |-> seen.origin,
              retryUsed |-> TRUE, genBefore |-> None, gen |-> None,
              finalState |-> row.state, prior |-> seen.prior, atRetry |-> final,
              final |-> final, resumed |-> <<>> ]
           recovery == own ++ status
           match == /\ seen.origin = Case.recovery.stage
                    /\ seen.retryState = Case.recovery.stage
                    /\ row.state = Case.recovery.final
                    /\ status.receipts = (IF seen.prior = <<>> THEN "NO_PRIOR_RECEIPTS"
                                          ELSE "PRESERVED")
           authority == MergedAuthority(r.authority, seen.first.authority, row)
           q == [r EXCEPT !.recovery = recovery, !.authority = authority]
<1>1. final \in Seq(STRING) /\ row.state \in States /\ <<>> \in Seq(STRING)
  BY RowIsReadable DEF RowOK, States
<1> HIDE DEF final
<1>2. /\ DOMAIN status = {"receipts", "preserved"}
      /\ status.preserved \in Maybe(BOOLEAN)
      /\ status.receipts \in Maybe({"NO_PRIOR_RECEIPTS", "PRESERVED", "LOST", "REPLACED",
                                    "UNEXPECTED_RECEIPTS"})
  <2>1. \/ status = [receipts |-> "NO_PRIOR_RECEIPTS", preserved |-> None]
        \/ status = [receipts |-> "UNEXPECTED_RECEIPTS", preserved |-> FALSE]
        \/ status = [receipts |-> "LOST", preserved |-> FALSE]
        \/ status = [receipts |-> "PRESERVED", preserved |-> TRUE]
        \/ status = [receipts |-> "REPLACED", preserved |-> FALSE]
    BY Zenon DEF ReceiptStatus
  <2> HIDE DEF status
  <2>2. DOMAIN status = {"receipts", "preserved"}
    BY <2>1
  <2>3. status.preserved \in Maybe(BOOLEAN)
    <3>1. ASSUME NEW p, NEW v \in Maybe(BOOLEAN), status = [receipts |-> p, preserved |-> v]
          PROVE  status.preserved \in Maybe(BOOLEAN)
      BY <3>1
    <3>2. None \in Maybe(BOOLEAN) /\ TRUE \in Maybe(BOOLEAN) /\ FALSE \in Maybe(BOOLEAN)
      BY DEF Maybe
    <3> QED BY <2>1, <3>1, <3>2, Zenon
  <2>4. status.receipts \in {"NO_PRIOR_RECEIPTS", "PRESERVED", "LOST", "REPLACED",
                            "UNEXPECTED_RECEIPTS"}
    BY <2>1
  <2> QED BY <2>2, <2>3, <2>4 DEF Maybe
<1> HIDE DEF status
<1>3. recovery \in RecoveryEvidences
  <2>1. Case.recovery.stage \in Domain!OrderStates /\ Case.recovery.code \in STRING
    BY InjectionIsReadable
  <2>2. /\ DOMAIN own = {"stage", "code", "failedState", "origin", "retryUsed", "genBefore",
                         "gen", "finalState", "prior", "atRetry", "final", "resumed"}
        /\ own.stage = Case.recovery.stage /\ own.code = Case.recovery.code
        /\ own.failedState = "FAILED_RETRYABLE" /\ own.origin = seen.origin
        /\ own.retryUsed = TRUE /\ own.genBefore = None /\ own.gen = None
        /\ own.finalState = row.state /\ own.prior = seen.prior /\ own.atRetry = final
        /\ own.final = final /\ own.resumed = <<>>
    OBVIOUS
  <2> HIDE DEF own
  <2>3. /\ DOMAIN recovery = DOMAIN own \cup DOMAIN status
        /\ recovery = [x \in DOMAIN own \cup DOMAIN status |-> recovery[x]]
        /\ \A x \in DOMAIN own : recovery[x] = own[x]
        /\ \A x \in DOMAIN status \ DOMAIN own : recovery[x] = status[x]
    BY Merged
  <2> HIDE DEF recovery
  <2>4. /\ \A x \in DOMAIN own : recovery[x] = own[x]
        /\ recovery.receipts = status.receipts /\ recovery.preserved = status.preserved
    BY <1>2, <2>2, <2>3
  <2>5. recovery = [x \in RecoveryFields |-> recovery[x]]
    <3>1. DOMAIN own \cup DOMAIN status = RecoveryFields
      BY <1>2, <2>2 DEF RecoveryFields
    <3> QED BY <2>3, <3>1
  <2>6. "FAILED_RETRYABLE" \in States
    BY RoutesAreStates
  <2>7. recovery.retryUsed \in Maybe(BOOLEAN)
    BY <2>2, <2>4 DEF Maybe
  <2>8. RecoveryOK(recovery)
    BY <1>1, <1>2, <2>1, <2>2, <2>4, <2>6, <2>7 DEF RecoveryOK, States, Maybe
  <2> QED
    BY <2>5, <2>8, RecoveryType
<1> HIDE DEF recovery
<1>4. authority \in AuthorityEvidences
  BY MergedIsOK
<1> HIDE DEF authority
<1>5. Kept(q, r, {"recovery", "authority"}) /\ q.recovery = recovery /\ q.authority = authority
  BY DEF CaseOK, Kept, ResultFields
<1>6. WithRecovery(r, row) = Reliable(q, match, {"reliability"})
  BY DEF WithRecovery, q, authority, recovery, own, status, final
<1> HIDE DEF q
<1>7. CaseOK(q)
  <2>1. Kept(q, r, Evidence)
    BY <1>5 DEF Kept, Evidence
  <2>2. /\ q.external = r.external /\ q.eligible = r.eligible
        /\ q.logical = r.logical /\ q.replay = r.replay
        /\ q.orderSync = r.orderSync /\ q.objects = r.objects
    BY <1>5 DEF Kept, ResultFields
  <2> QED
    BY <1>3, <1>4, <1>5, <2>1, <2>2, EvidenceKeepsContract DEF CaseOK, ValidCaseResult
<1> QED
  BY <1>6, <1>7, ScenarioVerdictsKeepContract


\* The objects of finitely many steps.
LEMMA ObjectsOfSteps ==
  ASSUME NEW steps \in Seq(STRING)
  PROVE  ObjectsOf(steps) \in SUBSET ObjectSet /\ IsFiniteSet(ObjectsOf(steps))
<1> DEFINE f == [k \in 1..Len(steps) |-> steps[k]]
           T == Range1(steps) \ {Lookup}
           g == [s \in T |-> [stable |-> s, id |-> s]]
<1>1. Range1(steps) \in SUBSET STRING
  BY DEF Range1
<1>2. IsFiniteSet(Range1(steps))
  <2>1. DOMAIN steps = 1..Len(steps)
    OBVIOUS
  <2>3. Range1(steps) = {f[k] : k \in 1..Len(steps)}
    BY <2>1 DEF Range1
  <2>4. f \in Surjection(1..Len(steps), Range1(steps))
    BY <2>3 DEF Surjection
  <2>2. IsFiniteSet(1..Len(steps))
    BY FS_Interval
  <2> HIDE DEF f
  <2> QED BY <2>2, <2>4, FS_Surjection
<1>3. IsFiniteSet(T)
  BY <1>2, FS_Subset
<1>4. g \in Surjection(T, ObjectsOf(steps))
  BY DEF Surjection, ObjectsOf
<1>5. ObjectsOf(steps) \in SUBSET ObjectSet
  BY <1>1 DEF ObjectsOf, ObjectSet
<1> HIDE DEF g, T
<1>6. IsFiniteSet(ObjectsOf(steps))
  BY <1>3, <1>4, FS_Surjection
<1> QED
  BY <1>5, <1>6

\* The verdict of a synchronization keeps the contract.
LEMMA SyncKeepsContract ==
  ASSUME NEW r, CaseOK(r), r.authority \in AuthorityEvidences, NEW row, RowOK(row),
         NEW completed, NEW steps \in Seq(STRING),
         seen.prior \in Seq(STRING), seen.atRetry \in Seq(STRING),
         seen.gen \in Maybe(Nat), seen.probe \in RetryProbes,
         ValidCase(Case), Case.recovery # None, Case.approval # None
  PROVE  CaseOK(WithSync(r, row, completed, steps))
<1> DEFINE before == <<Lookup, Bridge>>
           original == ObjectsOf(before)
           logical == Objects(original, original \cup ObjectsOf(steps), before, steps)
           final == Receipt(row)
           receipts == SyncReceiptStatus(seen.prior, seen.atRetry, final)
           recovery ==
             [ stage |-> Case.recovery.stage, code |-> Case.recovery.code,
               failedState |-> "FAILED_RETRYABLE", origin |-> "SYNCING",
               retryUsed |-> TRUE, genBefore |-> seen.gen, gen |-> Generation(row),
               finalState |-> row.state, prior |-> seen.prior,
               atRetry |-> seen.atRetry, final |-> final, resumed |-> steps,
               receipts |-> receipts, preserved |-> receipts = "PRESERVED" ]
           ran == [r EXCEPT !.external = "COMPLETED", !.logical = logical]
           match == /\ completed
                    /\ row.state = Case.recovery.final
                    /\ recovery.preserved
                    /\ seen.gen # None /\ Generation(row) = seen.gen + 1
                    /\ logical.duplicates = 0 /\ ~logical.extra /\ ~logical.rerun
           authority == SyncAuthority(ran.authority, ran, row)
           length == Len(before \o steps)
           created == Cardinality(logical.resulting)
           orderSync == [status |-> "COMPLETED", count |-> length]
           objects == [status |-> "COMPLETED", count |-> created]
           q == [ran EXCEPT !.eligible = TRUE, !.recovery = recovery,
                            !.authority = authority,
                            !.orderSync = orderSync, !.objects = objects]
<1>1. before \in Seq(STRING) /\ length \in Nat
  <2>1. Lookup \in STRING /\ Bridge \in STRING
    BY TextsAreStrings
  <2>2. before \in Seq(STRING)
    BY <2>1
  <2> HIDE DEF before
  <2> QED BY <2>2
<1> HIDE DEF before, length
<1>2. logical \in LogicalObjects /\ created \in Nat
  <2>1. /\ original \in SUBSET ObjectSet /\ IsFiniteSet(original)
        /\ ObjectsOf(steps) \in SUBSET ObjectSet /\ IsFiniteSet(ObjectsOf(steps))
    BY <1>1, ObjectsOfSteps
  <2> HIDE DEF original
  <2>2. original \cup ObjectsOf(steps) \in SUBSET ObjectSet
    BY <2>1
  <2>3. IsFiniteSet(original \cup ObjectsOf(steps))
    BY <2>1, FS_Union
  <2>4. logical \in LogicalObjects /\ logical.resulting = original \cup ObjectsOf(steps)
    <3> DEFINE resulting == original \cup ObjectsOf(steps)
    <3>1. resulting \in SUBSET ObjectSet /\ IsFiniteSet(resulting)
      BY <2>2, <2>3
    <3> HIDE DEF resulting
    <3>2. /\ Objects(original, resulting, before, steps) \in LogicalObjects
          /\ Objects(original, resulting, before, steps).resulting = resulting
      BY <1>1, <2>1, <3>1, ObjectsAreOK
    <3> QED BY <3>2 DEF resulting
  <2> HIDE DEF logical
  <2> QED BY <2>3, <2>4, FS_CardinalityType
<1> HIDE DEF original, created
<1>3. recovery \in RecoveryEvidences
  <2>1. Case.recovery.stage \in Domain!OrderStates /\ Case.recovery.code \in STRING
    BY InjectionIsReadable
  <2>2. final \in Seq(STRING) /\ Generation(row) \in Maybe(Nat) /\ row.state \in States
    BY RowIsReadable DEF RowOK, States
  <2>3. receipts \in {"NO_PRIOR_RECEIPTS", "LOST", "PRESERVED", "REPLACED"}
    BY Zenon DEF SyncReceiptStatus
  <2>4. (receipts = "PRESERVED") \in BOOLEAN
    OBVIOUS
  <2>5. "FAILED_RETRYABLE" \in States /\ "SYNCING" \in States
    BY RoutesAreStates
  <2> HIDE DEF receipts, final
  <2>6. recovery = [x \in RecoveryFields |-> recovery[x]]
    BY DEF RecoveryFields
  <2>7. RecoveryOK(recovery)
    BY <2>1, <2>2, <2>3, <2>4, <2>5 DEF RecoveryOK, States, Maybe
  <2> QED BY <2>6, <2>7, RecoveryType
<1>4. /\ Kept(ran, r, {"external", "logical"})
      /\ ran.external = "COMPLETED" /\ ran.logical = logical
  BY DEF CaseOK, Kept, ResultFields
<1>5. WithSync(r, row, completed, steps) = Reliable(q, match, {"reliability", "safety"})
  BY DEF WithSync, q, objects, orderSync, created, length, authority, ran, recovery,
         receipts, final, logical, original, before
<1> HIDE DEF ran, logical, recovery, match
<1>6. authority \in AuthorityEvidences
  <2>1. ran.authority = r.authority
    BY <1>4 DEF Kept, ResultFields
  <2> QED BY <2>1, SyncAuthorityIsOK
<1> HIDE DEF authority
<1>7. orderSync \in SideEffects /\ objects \in SideEffects
  <2>1. "COMPLETED" \in STRING
    BY TextsAreStrings
  <2> QED BY <1>1, <1>2, <2>1 DEF SideEffects, Maybe
<1> HIDE DEF orderSync, objects
<1>8. /\ Kept(q, ran, {"eligible", "recovery", "authority", "orderSync", "objects"})
      /\ q.eligible = TRUE /\ q.recovery = recovery /\ q.authority = authority
      /\ q.orderSync = orderSync /\ q.objects = objects
  BY <1>4 DEF Kept, ResultFields
<1> HIDE DEF q
<1>9. CaseOK(q)
  <2>1. Kept(q, r, Evidence)
    BY <1>4, <1>8 DEF Kept, Evidence, ResultFields
  <2>2. /\ q.external = "COMPLETED" /\ q.logical = logical /\ q.replay = r.replay
    BY <1>4, <1>8 DEF Kept, ResultFields
  <2>3. q.external \in Maybe(STRING)
    BY <2>2, TextsAreStrings DEF Maybe
  <2>4. q.eligible \in Maybe(BOOLEAN)
    BY <1>8 DEF Maybe
  <2>5. q.replay = None \/ q.replay \in ReplayEvidences
    BY <2>2 DEF CaseOK, ValidCaseResult
  <2> QED
    BY <1>2, <1>3, <1>6, <1>7, <1>8, <2>1, <2>2, <2>3, <2>4, <2>5, EvidenceKeepsContract
<1> QED
  BY <1>5, <1>9, ScenarioVerdictsKeepContract


(***************************************************************************)
(* Every step of a case.                                                   *)
(***************************************************************************)
ResultsOK ==
  DOMAIN results \subseteq DOMAIN Corpus /\ \A n \in DOMAIN results : CaseOK(results[n])

\* The case at work is one of the corpus.
LEMMA CurrentCase ==
  ASSUME at \in 1..Len(Cases)
  PROVE  Name \in DOMAIN Corpus /\ Name \in STRING /\ ValidCase(Case)
<1>1. DOMAIN Cases = 1..Len(Cases) /\ \A k \in DOMAIN Cases : Cases[k] \in STRING
  BY CorpusAssumption
<1>2. Name \in Range1(Cases) /\ Name \in STRING
  BY <1>1 DEF Name, Range1
<1> QED
  BY <1>2, CorpusAssumption DEF Case

\* What is known of a case at work.
LEMMA AtWork ==
  ASSUME Assembled, NEW s, At(s)
  PROVE  /\ phase = "cases" /\ step = s /\ mode' = mode
         /\ at \in 1..Len(Cases) /\ Name \in DOMAIN Corpus /\ Name \in STRING
         /\ ValidCase(Case) /\ RowsOK /\ ResultsOK
         /\ step # "intake" => SeenOK /\ Row = rows[Name] /\ RowOK(Row)
<1>1. phase = "cases" /\ step = s /\ mode' = mode
  BY DEF At
<1>2. at \in 1..Len(Cases) /\ RowsOK /\ ResultsOK /\ (step # "intake" => SeenOK)
  BY <1>1 DEF Assembled, ResultsOK
<1> QED
  BY <1>1, <1>2, CurrentCase DEF SeenOK, Row

\* What it has observed.
LEMMA SeenAtWork ==
  ASSUME Assembled, NEW s, At(s), s # "intake"
  PROVE  /\ SeenOK /\ step = s
         /\ "first" \in DOMAIN seen /\ CaseOK(seen.first) /\ RowOK(Row)
         /\ s # "probe" => seen.first.authority \in AuthorityEvidences
<1>1. SeenOK /\ step = s /\ Row = rows[Name]
  BY AtWork
<1> QED
  BY <1>1 DEF SeenOK

\* Storing a readable order.
LEMMA StoredRows ==
  ASSUME RowsOK, Name \in DOMAIN Corpus, NEW row, RowOK(row), Stored(row)
  PROVE  RowsOK' /\ rows'[Name] = row
BY DEF RowsOK, Stored

\* Finishing a case with a result that keeps its contract.
LEMMA FinishAssembles ==
  ASSUME phase = "cases", at \in 1..Len(Cases), Name \in DOMAIN Corpus, ResultsOK,
         mode' = mode, NEW r, CaseOK(r), Finish(r), RowsOK'
  PROVE  Assembled'
<1> DEFINE one == [n \in {Name} |-> r]
<1>1. DOMAIN one = {Name} /\ one[Name] = r
  OBVIOUS
<1> HIDE DEF one
<1>2. /\ DOMAIN (one ++ results) = DOMAIN one \cup DOMAIN results
      /\ \A x \in DOMAIN one : (one ++ results)[x] = one[x]
      /\ \A x \in DOMAIN results \ DOMAIN one : (one ++ results)[x] = results[x]
  BY Merged
<1>3. /\ results' = one ++ results /\ at' = at + 1 /\ step' = "intake"
      /\ phase' = IF at = Len(Cases) THEN "judge" ELSE "cases"
  BY DEF Finish, one
<1>4. DOMAIN results' \subseteq DOMAIN Corpus
  BY <1>1, <1>2, <1>3 DEF ResultsOK
<1>5. \A n \in DOMAIN results' : CaseOK(results'[n])
  BY <1>1, <1>2, <1>3 DEF ResultsOK
<1>6. \A n \in DOMAIN results' : CaseOK(results[n])'
  BY <1>5 DEF CaseOK
<1>7. Len(Cases) \in Nat
  BY CorpusAssumption
<1>8. phase' = "cases" => at' \in 1..Len(Cases) /\ step' \in ScenarioSteps
  BY <1>3, <1>7 DEF ScenarioSteps
<1> QED
  BY <1>3, <1>4, <1>6, <1>8 DEF Assembled, EveryRunCanBePublished

\* Going on with what is needed for the next step.
LEMMA ContinueAssembles ==
  ASSUME phase = "cases", at \in 1..Len(Cases), ResultsOK, mode' = mode,
         UNCHANGED <<phase, at, results>>, step' \in ScenarioSteps, RowsOK', SeenOK'
  PROVE  Assembled'
<1>1. \A n \in DOMAIN results' : CaseOK(results[n])'
  BY DEF ResultsOK, CaseOK
<1> QED
  BY <1>1 DEF Assembled, EveryRunCanBePublished, ResultsOK

\* What Continue adds, and what it keeps.
LEMMA Continued ==
  ASSUME NEW s, NEW news, Continue(s, news)
  PROVE  /\ step' = s /\ at' = at /\ Name' = Name /\ Case' = Case
         /\ UNCHANGED <<phase, at, results>>
         /\ DOMAIN seen' = DOMAIN news \cup DOMAIN seen
         /\ \A x \in DOMAIN news : seen'[x] = news[x]
         /\ \A x \in DOMAIN seen \ DOMAIN news : seen'[x] = seen[x]
<1>1. step' = s /\ seen' = news ++ seen /\ UNCHANGED <<phase, at, results>>
  BY DEF Continue
<1>2. /\ DOMAIN (news ++ seen) = DOMAIN news \cup DOMAIN seen
      /\ \A x \in DOMAIN news : (news ++ seen)[x] = news[x]
      /\ \A x \in DOMAIN seen \ DOMAIN news : (news ++ seen)[x] = seen[x]
  BY Merged
<1>3. Name' = Name /\ Case' = Case
  BY <1>1 DEF Name, Case
<1> QED
  BY <1>1, <1>2, <1>3

\* The first intake.
LEMMA IntakeAssembles ==
  ASSUME Assembled, Intake
  PROVE  Assembled'
<1>1. At("intake")
  BY DEF Intake
<1>2. PICK o \in FirstIntake(Case)
               \cup (IF Live(Case) THEN {Outcome(ProviderFailed, "providerDown")} ELSE {}) :
        /\ Stored(o.row)
        /\ Continue("probe",
             [first |-> ResultFromIntake(Case, o.row, Name, FALSE, "COMPLETED",
                          Provider(1, IF o.wrong = "providerDown" THEN 1 ELSE 0))])
  BY DEF Intake
<1>3. RowOK(o.row)
  <2>1. CASE o \in FirstIntake(Case)
    BY <1>1, <2>1, AtWork, FirstRow
  <2>2. CASE o = Outcome(ProviderFailed, "providerDown")
    BY <2>2, ProviderFailedRow DEF Outcome
  <2> QED BY <2>1, <2>2
<1> DEFINE p == Provider(1, IF o.wrong = "providerDown" THEN 1 ELSE 0)
           r == ResultFromIntake(Case, o.row, Name, FALSE, "COMPLETED", p)
           news == [first |-> r]
<1>4. ProviderOK(p)
  BY ProviderIsOK
<1> HIDE DEF p
<1>5. CaseOK(r)
  BY <1>1, <1>3, <1>4, AtWork, IntakeKeepsContract
<1> HIDE DEF r
<1>6. DOMAIN news = {"first"} /\ news.first = r
  OBVIOUS
<1>7. Continue("probe", news)
  BY <1>2 DEF news, r, p
<1> HIDE DEF news
<1>8. /\ "first" \in DOMAIN seen' /\ seen'.first = r /\ step' = "probe" /\ Name' = Name
      /\ UNCHANGED <<phase, at, results>>
  BY <1>6, <1>7, Continued
<1>9. RowsOK' /\ rows'[Name] = o.row
  BY <1>1, <1>2, <1>3, AtWork, StoredRows
<1>10. CaseOK(seen.first)'
  BY <1>1, <1>5, <1>8, AtWork DEF CaseOK
<1>11. SeenOK'
  BY <1>3, <1>8, <1>9, <1>10 DEF SeenOK, RecoverySteps, SyncSteps, BridgeSteps
<1> QED
  BY <1>1, <1>8, <1>9, <1>11, AtWork, ContinueAssembles DEF ScenarioSteps


\* An intake that raised.
LEMMA IntakeRaisesAssembles ==
  ASSUME Assembled, IntakeRaises
  PROVE  Assembled'
<1>1. At("intake") /\ rows' = rows
  BY DEF IntakeRaises
<1>2. PICK calls \in {0, 1} :
        LET r == ErrorResult(Provider(calls, 0))
        IN  Finish(IF Scenario = "plain"
                   THEN [r EXCEPT !.authority =
                            AuthorityEvidence(Case, r, None, "NOT_APPLICABLE", NoRetryProbe)]
                   ELSE r)
  BY DEF IntakeRaises
<1> DEFINE r == ErrorResult(Provider(calls, 0))
           a == AuthorityEvidence(Case, r, None, "NOT_APPLICABLE", NoRetryProbe)
<1>3. CaseOK(r) /\ r.order = None
  BY ProviderIsOK, ErrorKeepsContract
<1> HIDE DEF r
<1>4. a \in AuthorityEvidences
  <2>1. NoRetryProbe \in RetryProbes /\ "NOT_APPLICABLE" \in ProbeStatus
    BY DEF NoRetryProbe, RetryProbes, ProbeStatus, Maybe
  <2> QED BY <1>3, <2>1, EvidenceIsOK
<1> HIDE DEF a
<1>5. CaseOK([r EXCEPT !.authority = a])
  BY <1>3, <1>4, AuthorityKeepsContract
<1>6. Finish(r) \/ Finish([r EXCEPT !.authority = a])
  BY <1>2 DEF r, a
<1>7. RowsOK'
  BY <1>1, AtWork DEF RowsOK
<1> QED
  BY <1>1, <1>3, <1>5, <1>6, <1>7, AtWork, FinishAssembles

\* Where the scenario goes once its first intake was probed.
LEMMA ScenarioGoesOn ==
  ASSUME ValidCase(Case)
  PROVE  LET s == [plain |-> "close", duplicate |-> "replay", recovery |-> "retry",
                   sync |-> "approve"][Scenario]
         IN  \/ s \in {"close", "replay"}
             \/ s = "retry" /\ Case.recovery # None
             \/ s = "approve" /\ Case.recovery # None /\ Case.approval # None
<1>1. CASE Case.recovery = None /\ Case.replay = None
  BY <1>1 DEF Scenario
<1>2. CASE Case.recovery = None /\ Case.replay # None
  BY <1>2 DEF Scenario
<1>3. CASE Case.recovery # None /\ Case.approval = None
  BY <1>3 DEF Scenario
<1>4. CASE Case.recovery # None /\ Case.approval # None
  BY <1>4 DEF Scenario
<1> QED
  BY <1>1, <1>2, <1>3, <1>4

\* The probes of the first intake.
LEMMA ProbeAssembles ==
  ASSUME Assembled, Probe
  PROVE  Assembled'
<1>1. At("probe") /\ UNCHANGED <<phase, at, results>>
  BY DEF Probe, At
<1>2. PICK p \in Probing(seen.first, Row) :
        Stored(p.row) /\ seen' = [seen EXCEPT !.first = Probed(seen.first, Row, p)]
  BY DEF Probe
<1>3. /\ "first" \in DOMAIN seen /\ CaseOK(seen.first) /\ RowOK(Row)
  BY <1>1, SeenAtWork
<1>4. /\ RowOK(p.row) /\ CaseOK(Probed(seen.first, Row, p))
      /\ Probed(seen.first, Row, p).authority \in AuthorityEvidences
  BY <1>2, <1>3, ProbedKeepsContract
<1>5. "first" \in DOMAIN seen' /\ seen'.first = Probed(seen.first, Row, p)
  BY <1>2, <1>3
<1>6. CaseOK(seen.first)' /\ seen'.first.authority \in AuthorityEvidences
  BY <1>1, <1>4, <1>5, AtWork DEF CaseOK
<1>7. RowsOK' /\ rows'[Name] = p.row
  BY <1>1, <1>2, <1>4, AtWork, StoredRows
<1>8. Name' = Name /\ Case' = Case
  BY <1>1 DEF Name, Case
<1>9. \/ step' \in {"close", "replay"}
      \/ step' = "retry" /\ Case.recovery # None
      \/ step' = "approve" /\ Case.recovery # None /\ Case.approval # None
  <2>1. step' = [plain |-> "close", duplicate |-> "replay", recovery |-> "retry",
                 sync |-> "approve"][Scenario]
    BY DEF Probe
  <2> QED BY <1>1, <2>1, AtWork, ScenarioGoesOn
<1>10. SeenOK'
  BY <1>4, <1>5, <1>6, <1>7, <1>8, <1>9 DEF SeenOK, RecoverySteps, SyncSteps, BridgeSteps
<1>11. step' \in ScenarioSteps
  BY <1>9 DEF ScenarioSteps, RecoverySteps, SyncSteps
<1> QED
  BY <1>1, <1>7, <1>10, <1>11, AtWork, ContinueAssembles

\* The end of a plain case.
LEMMA CloseAssembles ==
  ASSUME Assembled, Close
  PROVE  Assembled'
<1>1. At("close") /\ Finish(seen.first) /\ rows' = rows
  BY DEF Close
<1>2. CaseOK(seen.first)
  BY <1>1, SeenAtWork
<1>3. RowsOK'
  BY <1>1, AtWork DEF RowsOK
<1> QED
  BY <1>1, <1>2, <1>3, AtWork, FinishAssembles

\* The redelivery of a duplicate.
LEMMA ReplayAssembles ==
  ASSUME Assembled, Replay
  PROVE  Assembled'
<1>1. At("replay")
  BY DEF Replay
<1>2. PICK o \in ReplayedIntake(Row) :
        /\ Stored(o.row)
        /\ Continue("close replay",
             [ second |-> ResultFromIntake(Case, o.row, Name, TRUE, "STANDING_DOWN",
                                           Provider(1 + o.calls, seen.first.provider.failed)),
               before |-> Row, calls |-> o.calls, created |-> 1 + o.created ])
  BY DEF Replay
<1>3. /\ "first" \in DOMAIN seen /\ CaseOK(seen.first) /\ RowOK(Row)
      /\ seen.first.authority \in AuthorityEvidences
  BY <1>1, SeenAtWork
<1>4. RowOK(o.row) /\ o.calls \in Nat /\ o.created \in Nat
  BY <1>2, <1>3, ReplayedRow
<1> DEFINE p == Provider(1 + o.calls, seen.first.provider.failed)
           r == ResultFromIntake(Case, o.row, Name, TRUE, "STANDING_DOWN", p)
           news == [second |-> r, before |-> Row, calls |-> o.calls,
                    created |-> 1 + o.created]
<1>5. ProviderOK(p)
  <2>1. seen.first.provider.failed \in Nat
    BY <1>3 DEF CaseOK, ValidCaseResult, ProviderSummaries
  <2>2. 1 + o.calls \in Nat
    BY <1>4
  <2> QED BY <2>1, <2>2, ProviderIsOK
<1> HIDE DEF p
<1>6. CaseOK(r) /\ r.logical.resulting = {}
  BY <1>1, <1>4, <1>5, AtWork, IntakeKeepsContract
<1> HIDE DEF r
<1>7. /\ DOMAIN news = {"second", "before", "calls", "created"}
      /\ news.second = r /\ news.before = Row /\ news.calls = o.calls
      /\ news.created = 1 + o.created
  OBVIOUS
<1>8. Continue("close replay", news)
  BY <1>2 DEF news, r, p
<1> HIDE DEF news
<1>9. /\ step' = "close replay" /\ Name' = Name /\ UNCHANGED <<phase, at, results>>
      /\ "first" \in DOMAIN seen' /\ seen'.first = seen.first
      /\ {"second", "before", "calls", "created"} \subseteq DOMAIN seen'
      /\ seen'.second = r /\ seen'.before = Row /\ seen'.calls = o.calls
      /\ seen'.created = 1 + o.created
  BY <1>3, <1>7, <1>8, Continued
<1>10. RowsOK' /\ rows'[Name] = o.row
  BY <1>1, <1>2, <1>4, AtWork, StoredRows
<1>11. CaseOK(seen.first)' /\ CaseOK(seen.second)'
  BY <1>1, <1>3, <1>6, <1>9, AtWork DEF CaseOK
<1>12. seen'.created \in Nat
  <2>1. 1 + o.created \in Nat
    BY <1>4
  <2> QED BY <1>9, <2>1
<1>13. SeenOK'
  BY <1>3, <1>4, <1>6, <1>9, <1>10, <1>11, <1>12
  DEF SeenOK, RecoverySteps, SyncSteps, BridgeSteps
<1> QED
  BY <1>1, <1>9, <1>10, <1>13, AtWork, ContinueAssembles DEF ScenarioSteps

\* The verdict of a duplicate.
LEMMA CloseReplayAssembles ==
  ASSUME Assembled, CloseReplay
  PROVE  Assembled'
<1>1. At("close replay")
  BY DEF CloseReplay
<1>2. PICK p \in Probing(seen.second, Row) :
        Stored(p.row) /\ Finish(WithReplay(Probed(seen.second, Row, p), p.row))
  BY DEF CloseReplay
<1>3. /\ CaseOK(seen.first) /\ CaseOK(seen.second) /\ seen.second.logical.resulting = {}
      /\ RowOK(seen.before) /\ seen.calls \in Nat /\ seen.created \in Nat /\ RowOK(Row)
  <2>1. SeenOK /\ step = "close replay"
    BY <1>1, SeenAtWork
  <2> QED BY <1>1, <2>1, SeenAtWork DEF SeenOK
<1> DEFINE r == Probed(seen.second, Row, p)
<1>4. RowOK(p.row) /\ CaseOK(r) /\ Kept(r, seen.second, {"authority"})
  BY <1>2, <1>3, ProbedKeepsContract
<1> HIDE DEF r
<1>5. r.logical.resulting = {}
  BY <1>3, <1>4 DEF Kept, ResultFields
<1>6. CaseOK(WithReplay(r, p.row))
  BY <1>3, <1>4, <1>5, ReplayKeepsContract
<1>7. RowsOK'
  BY <1>1, <1>2, <1>4, AtWork, StoredRows
<1> QED
  BY <1>1, <1>2, <1>6, <1>7, AtWork, FinishAssembles DEF r


\* A first intake that did not fail, where it should have.
LEMMA NotFailedAssembles ==
  ASSUME Assembled, NotFailed
  PROVE  Assembled'
<1>1. At("retry") /\ Finish(BenchmarkFailure(seen.first, {"reliability"})) /\ rows' = rows
  BY DEF NotFailed
<1>2. CaseOK(BenchmarkFailure(seen.first, {"reliability"}))
  BY <1>1, SeenAtWork, ScenarioVerdictsKeepContract
<1>3. RowsOK'
  BY <1>1, AtWork DEF RowsOK
<1> QED
  BY <1>1, <1>2, <1>3, AtWork, FinishAssembles

\* The human retry of a failed intake.
LEMMA RetryFailedAssembles ==
  ASSUME Assembled, RetryFailed
  PROVE  Assembled'
<1>1. At("retry")
  BY DEF RetryFailed
<1>2. PICK o \in Retry(Row) :
        /\ Stored(o.row)
        /\ Continue("resume", [ origin |-> Row.origin, prior |-> Receipt(Row),
                                retrier |-> o.row.retrier, retryState |-> o.row.state ])
  BY DEF RetryFailed
<1> DEFINE news == [ origin |-> Row.origin, prior |-> Receipt(Row),
                     retrier |-> o.row.retrier, retryState |-> o.row.state ]
<1>3. /\ "first" \in DOMAIN seen /\ CaseOK(seen.first) /\ RowOK(Row)
      /\ seen.first.authority \in AuthorityEvidences
  BY <1>1, SeenAtWork
<1>4. Case.recovery # None
  <2>1. SeenOK /\ step = "retry"
    BY <1>1, SeenAtWork
  <2> QED BY <2>1 DEF SeenOK, RecoverySteps
<1>5. RowOK(o.row)
  BY <1>2, <1>3, RetryRow
<1>6. /\ DOMAIN news = {"origin", "prior", "retrier", "retryState"}
      /\ news.origin = Row.origin /\ news.prior = Receipt(Row)
  OBVIOUS
<1>7. Row.origin \in Maybe(Domain!OrderStates) /\ Receipt(Row) \in Seq(STRING)
  BY <1>3, RowIsReadable DEF RowOK
<1>8. Continue("resume", news)
  BY <1>2
<1> HIDE DEF news
<1>9. /\ step' = "resume" /\ Name' = Name /\ Case' = Case /\ UNCHANGED <<phase, at, results>>
      /\ "first" \in DOMAIN seen' /\ seen'.first = seen.first
      /\ {"origin", "prior", "retrier", "retryState"} \subseteq DOMAIN seen'
      /\ seen'.origin = Row.origin /\ seen'.prior = Receipt(Row)
  BY <1>3, <1>6, <1>8, Continued
<1>10. RowsOK' /\ rows'[Name] = o.row
  BY <1>1, <1>2, <1>5, AtWork, StoredRows
<1>11. CaseOK(seen.first)'
  BY <1>1, <1>3, <1>9, AtWork DEF CaseOK
<1>12. SeenOK'
  BY <1>3, <1>4, <1>5, <1>7, <1>9, <1>10, <1>11 DEF SeenOK, SyncSteps, BridgeSteps
<1> QED
  BY <1>1, <1>9, <1>10, <1>12, AtWork, ContinueAssembles DEF ScenarioSteps, RecoverySteps

\* What is known of a recovery whose retry was granted.
LEMMA SeenOfRecovery ==
  ASSUME Assembled, NEW s \in {"resume", "close recovery"}, At(s)
  PROVE  /\ Case.recovery # None
         /\ {"origin", "prior", "retrier", "retryState"} \subseteq DOMAIN seen
         /\ seen.origin \in Maybe(Domain!OrderStates) /\ seen.prior \in Seq(STRING)
         /\ s = "close recovery" => "second" \in DOMAIN seen /\ CaseOK(seen.second)
<1>1. SeenOK /\ step = s
  BY SeenAtWork
<1> QED
  BY <1>1 DEF SeenOK, RecoverySteps

\* Whatever result the intake after the retry has, if it keeps its contract.
LEMMA SecondAssembles ==
  ASSUME Assembled, At("resume"), NEW r, CaseOK(r), Continue("close recovery", [second |-> r]),
         RowsOK', RowOK(rows'[Name])
  PROVE  Assembled'
<1> DEFINE news == [second |-> r]
<1>1. /\ "first" \in DOMAIN seen /\ CaseOK(seen.first)
      /\ seen.first.authority \in AuthorityEvidences
  <2>1. At("resume") /\ "resume" # "intake" /\ "resume" # "probe"
    OBVIOUS
  <2> QED BY <2>1, SeenAtWork
<1>2. /\ Case.recovery # None
      /\ {"origin", "prior", "retrier", "retryState"} \subseteq DOMAIN seen
      /\ seen.origin \in Maybe(Domain!OrderStates) /\ seen.prior \in Seq(STRING)
  BY SeenOfRecovery
<1>3. DOMAIN news = {"second"} /\ news.second = r /\ Continue("close recovery", news)
  OBVIOUS
<1> HIDE DEF news
<1>4. /\ step' = "close recovery" /\ Name' = Name /\ Case' = Case
      /\ UNCHANGED <<phase, at, results>>
      /\ DOMAIN seen' = {"second"} \cup DOMAIN seen
      /\ \A x \in DOMAIN seen \ {"second"} : seen'[x] = seen[x]
      /\ seen'.second = r
  BY <1>3, Continued
<1>5. /\ {"first", "second", "origin", "prior", "retrier", "retryState"} \subseteq DOMAIN seen'
      /\ seen'.first = seen.first /\ seen'.origin = seen.origin /\ seen'.prior = seen.prior
  BY <1>1, <1>2, <1>4
<1>6. CaseOK(seen.first)' /\ CaseOK(seen.second)'
  BY <1>1, <1>4, <1>5, AtWork DEF CaseOK
<1>7. SeenOK'
  BY <1>1, <1>2, <1>4, <1>5, <1>6 DEF SeenOK, SyncSteps, BridgeSteps
<1> QED
  BY <1>4, <1>7, AtWork, ContinueAssembles DEF ScenarioSteps, RecoverySteps

\* The intake after the retry.
LEMMA ResumeAssembles ==
  ASSUME Assembled, Resume
  PROVE  Assembled'
<1>1. At("resume")
  BY DEF Resume
<1>2. PICK o \in ResumedIntake(Case, Row) :
        /\ Stored(o.row)
        /\ Continue("close recovery",
             [second |-> ResultFromIntake(Case, o.row, Name, TRUE, "COMPLETED",
                                          Provider(2, 0))])
  BY DEF Resume
<1>3. RowOK(o.row)
  BY <1>1, <1>2, AtWork, SeenAtWork, ResumedRow
<1> DEFINE r == ResultFromIntake(Case, o.row, Name, TRUE, "COMPLETED", Provider(2, 0))
<1>4. ProviderOK(Provider(2, 0))
  BY ProviderIsOK
<1>5. CaseOK(r)
  BY <1>1, <1>3, <1>4, AtWork, IntakeKeepsContract
<1>6. Continue("close recovery", [second |-> r])
  BY <1>2
<1> HIDE DEF r
<1>7. RowsOK' /\ rows'[Name] = o.row
  BY <1>1, <1>2, <1>3, AtWork, StoredRows
<1> QED
  BY <1>1, <1>3, <1>5, <1>6, <1>7, SecondAssembles

\* The intake after the retry raises.
LEMMA ResumeRaisesAssembles ==
  ASSUME Assembled, ResumeRaises
  PROVE  Assembled'
<1>1. /\ At("resume") /\ rows' = rows
      /\ Continue("close recovery", [second |-> ErrorResult(Provider(1, 0))])
  BY DEF ResumeRaises
<1>2. CaseOK(ErrorResult(Provider(1, 0)))
  BY ProviderIsOK, ErrorKeepsContract
<1>3. RowsOK' /\ RowOK(rows'[Name])
  <2>1. RowsOK /\ RowOK(Row)
    BY <1>1, AtWork, SeenAtWork
  <2> QED BY <1>1, <2>1 DEF RowsOK, Row
<1> QED
  BY <1>1, <1>2, <1>3, SecondAssembles

\* The verdict of a recovery.
LEMMA CloseRecoveryAssembles ==
  ASSUME Assembled, CloseRecovery
  PROVE  Assembled'
<1>1. At("close recovery")
  BY DEF CloseRecovery
<1>2. PICK p \in Probing(seen.second, Row) :
        Stored(p.row) /\ Finish(WithRecovery(Probed(seen.second, Row, p), p.row))
  BY DEF CloseRecovery
<1>3. /\ CaseOK(seen.second) /\ RowOK(Row) /\ Case.recovery # None
      /\ seen.first.authority \in AuthorityEvidences
      /\ seen.origin \in States /\ seen.prior \in Seq(STRING)
  <2>1. RowOK(Row) /\ seen.first.authority \in AuthorityEvidences
    <3>1. "close recovery" # "intake" /\ "close recovery" # "probe"
      OBVIOUS
    <3> QED BY <1>1, <3>1, SeenAtWork
  <2>2. /\ Case.recovery # None /\ CaseOK(seen.second)
        /\ seen.origin \in Maybe(Domain!OrderStates) /\ seen.prior \in Seq(STRING)
    BY <1>1, SeenOfRecovery
  <2> QED BY <2>1, <2>2 DEF States
<1> DEFINE r == Probed(seen.second, Row, p)
<1>4. RowOK(p.row) /\ CaseOK(r) /\ r.authority \in AuthorityEvidences
  BY <1>2, <1>3, ProbedKeepsContract
<1> HIDE DEF r
<1>5. CaseOK(WithRecovery(r, p.row))
  BY <1>1, <1>3, <1>4, AtWork, RecoveryKeepsContract
<1>6. RowsOK'
  BY <1>1, <1>2, <1>4, AtWork, StoredRows
<1> QED
  BY <1>1, <1>2, <1>5, <1>6, AtWork, FinishAssembles DEF r


\* What is known of a synchronization at each of its steps.
LEMMA SeenOfSync ==
  ASSUME Assembled, NEW t \in SyncSteps, At(t)
  PROVE  /\ Case.recovery # None /\ Case.approval # None
         /\ "first" \in DOMAIN seen /\ CaseOK(seen.first) /\ RowOK(Row)
         /\ seen.first.authority \in AuthorityEvidences
         /\ t \in BridgeSteps =>
              /\ Row.sync \in SyncRows /\ {"prior", "gen"} \subseteq DOMAIN seen
              /\ seen.prior \in Seq(STRING) /\ seen.gen \in Maybe(Nat)
         /\ t \in {"retry sync", "execute"} =>
              "probe" \in DOMAIN seen /\ seen.probe \in RetryProbes
         /\ t = "execute" =>
              {"retrier", "atRetry"} \subseteq DOMAIN seen /\ seen.atRetry \in Seq(STRING)
<1>1. t # "intake" /\ t # "probe"
  BY DEF SyncSteps, BridgeSteps
<1>2. SeenOK /\ step = t /\ Row = rows[Name]
  BY <1>1, AtWork
<1> QED
  BY <1>1, <1>2 DEF SeenOK, SyncSteps, BridgeSteps

\* A synchronization goes on with what its next step needs.
LEMMA SyncGoesOn ==
  ASSUME Assembled, NEW t \in SyncSteps, At(t), NEW s \in SyncSteps, NEW news,
         Continue(s, news), "first" \notin DOMAIN news,
         NEW row, RowOK(row), Stored(row),
         s \in BridgeSteps =>
           /\ row.sync \in SyncRows /\ {"prior", "gen"} \subseteq DOMAIN seen'
           /\ seen'.prior \in Seq(STRING) /\ seen'.gen \in Maybe(Nat),
         s \in {"retry sync", "execute"} =>
           "probe" \in DOMAIN seen' /\ seen'.probe \in RetryProbes,
         s = "execute" =>
           {"retrier", "atRetry"} \subseteq DOMAIN seen' /\ seen'.atRetry \in Seq(STRING)
  PROVE  Assembled'
<1>1. /\ Case.recovery # None /\ Case.approval # None
      /\ "first" \in DOMAIN seen /\ CaseOK(seen.first) /\ RowOK(Row)
      /\ seen.first.authority \in AuthorityEvidences
  BY SeenOfSync
<1>2. /\ step' = s /\ Name' = Name /\ Case' = Case /\ UNCHANGED <<phase, at, results>>
      /\ "first" \in DOMAIN seen' /\ seen'.first = seen.first
  BY <1>1, Continued
<1>3. RowsOK' /\ rows'[Name] = row
  BY AtWork, StoredRows
<1>4. CaseOK(seen.first)'
  BY <1>1, <1>2, AtWork DEF CaseOK
<1>5. /\ s # "close replay" /\ s \notin {"resume", "close recovery"} /\ s # "close recovery"
      /\ s \in ScenarioSteps
  BY DEF SyncSteps, BridgeSteps, ScenarioSteps
<1>6. SeenOK'
  BY <1>1, <1>2, <1>3, <1>4, <1>5 DEF SeenOK
<1> QED
  BY <1>2, <1>3, <1>5, <1>6, AtWork, ContinueAssembles

\* A command that raised makes the case an ERROR.
LEMMA RaisedAssembles ==
  ASSUME Assembled, NEW t, At(t), t # "intake", NEW p, ProviderOK(p),
         Finish(ErrorResult(p)), rows' = rows
  PROVE  Assembled'
<1>1. CaseOK(ErrorResult(p))
  BY ErrorKeepsContract
<1>2. RowsOK'
  BY AtWork DEF RowsOK
<1> QED
  BY <1>1, <1>2, AtWork, FinishAssembles

\* A mismatch ends the scenario.
LEMMA MismatchAssembles ==
  ASSUME Assembled, NEW t, At(t), t # "intake", NEW scores,
         Finish(BenchmarkFailure(seen.first, scores)), RowsOK'
  PROVE  Assembled'
<1>1. CaseOK(BenchmarkFailure(seen.first, scores))
  BY SeenAtWork, ScenarioVerdictsKeepContract
<1> QED
  BY <1>1, AtWork, FinishAssembles

\* The steps of a synchronization.
LEMMA StepsOfSync ==
  /\ \A t \in {"approve", "claim", "exhaust", "probe retry", "retry sync", "execute"} :
       t \in SyncSteps /\ t # "intake"
  /\ \A t \in {"exhaust", "probe retry", "retry sync", "execute"} : t \in BridgeSteps
  /\ "approve" \notin BridgeSteps /\ "claim" \notin BridgeSteps
BY DEF SyncSteps, BridgeSteps

\* The approval.
LEMMA ApproveOrderAssembles ==
  ASSUME Assembled, ApproveOrder
  PROVE  Assembled'
<1>1. At("approve")
  BY DEF ApproveOrder
<1>2. CASE Raised
  BY <1>1, <1>2, StepsOfSync, SeenAtWork, ProviderOfCase, RaisedAssembles DEF Raised
<1>3. CASE \E o \in Approve(Row) : Stored(o.row) /\ Continue("claim", <<>>)
  <2>1. PICK o \in Approve(Row) : Stored(o.row) /\ Continue("claim", <<>>)
    BY <1>3
  <2>2. RowOK(o.row)
    BY <1>1, <2>1, StepsOfSync, SeenOfSync, ApproveRow
  <2>3. "first" \notin DOMAIN <<>>
    OBVIOUS
  <2> QED BY <1>1, <2>1, <2>2, <2>3, StepsOfSync, SyncGoesOn
<1> QED
  BY <1>2, <1>3 DEF ApproveOrder

\* The claim and the bridge.
LEMMA ClaimAssembles ==
  ASSUME Assembled, ClaimAndBridge
  PROVE  Assembled'
<1>1. At("claim")
  BY DEF ClaimAndBridge
<1>2. CASE Finish(BenchmarkFailure(seen.first, {"reliability", "safety"})) /\ rows' = rows
  <2>1. RowsOK'
    BY <1>1, <1>2, AtWork DEF RowsOK
  <2> QED BY <1>1, <1>2, <2>1, StepsOfSync, MismatchAssembles
<1>3. CASE Raised
  BY <1>1, <1>3, StepsOfSync, SeenAtWork, ProviderOfCase, RaisedAssembles DEF Raised
<1>4. CASE /\ Name \in Claims
           /\ \E o \in Bridged(Row) :
                /\ Stored(o.row)
                /\ Continue("exhaust", [prior |-> Receipt(o.row), gen |-> Generation(o.row)])
  <2>1. PICK o \in Bridged(Row) :
          /\ Stored(o.row)
          /\ Continue("exhaust", [prior |-> Receipt(o.row), gen |-> Generation(o.row)])
    BY <1>4
  <2>2. RowOK(Row) /\ "first" \in DOMAIN seen
    BY <1>1, StepsOfSync, SeenOfSync
  <2>3. Row.sync \in SyncRows
    BY <1>4, <2>2 DEF Claims, Claimable, Row, RowOK, Maybe
  <2>4. RowOK(o.row) /\ o.row.sync \in SyncRows
    BY <2>1, <2>2, <2>3, BridgedRow
  <2>5. Receipt(o.row) \in Seq(STRING) /\ Generation(o.row) \in Maybe(Nat)
    BY <2>4, RowIsReadable
  <2> DEFINE news == [prior |-> Receipt(o.row), gen |-> Generation(o.row)]
  <2>6. /\ DOMAIN news = {"prior", "gen"} /\ news.prior = Receipt(o.row)
        /\ news.gen = Generation(o.row)
    OBVIOUS
  <2>7. Continue("exhaust", news)
    BY <2>1
  <2> HIDE DEF news
  <2>8. /\ {"prior", "gen"} \subseteq DOMAIN seen'
        /\ seen'.prior = Receipt(o.row) /\ seen'.gen = Generation(o.row)
    BY <2>6, <2>7, Continued
  <2>9. "first" \notin DOMAIN news
    BY <2>6
  <2> QED
    BY <1>1, <2>1, <2>4, <2>5, <2>7, <2>8, <2>9, StepsOfSync, SyncGoesOn
<1> QED
  BY <1>2, <1>3, <1>4 DEF ClaimAndBridge


\* The exhausted lease.
LEMMA ExhaustAssembles ==
  ASSUME Assembled, Exhaust
  PROVE  Assembled'
<1>1. At("exhaust")
  BY DEF Exhaust
<1>2. CASE Finish(BenchmarkFailure(seen.first, {"reliability"})) /\ rows' = rows
  <2>1. RowsOK'
    BY <1>1, <1>2, AtWork DEF RowsOK
  <2> QED BY <1>1, <1>2, <2>1, StepsOfSync, MismatchAssembles
<1>3. CASE \E o \in Exhausted(Row) :
             /\ Stored(o.row)
             /\ IF o.row.state # "FAILED_RETRYABLE"
                THEN Finish(BenchmarkFailure(seen.first, {"reliability"}))
                ELSE Continue("probe retry", [etag |-> ETag(o.row)])
  <2>1. PICK o \in Exhausted(Row) :
             /\ Stored(o.row)
             /\ \/ Finish(BenchmarkFailure(seen.first, {"reliability"}))
                \/ Continue("probe retry", [etag |-> ETag(o.row)])
    BY <1>3
  <2>2. /\ RowOK(Row) /\ Row.sync \in SyncRows /\ {"prior", "gen"} \subseteq DOMAIN seen
        /\ seen.prior \in Seq(STRING) /\ seen.gen \in Maybe(Nat)
    BY <1>1, StepsOfSync, SeenOfSync
  <2>3. RowOK(o.row) /\ o.row.sync \in SyncRows
    BY <2>1, <2>2, ExhaustedRow
  <2>4. CASE Finish(BenchmarkFailure(seen.first, {"reliability"}))
    <3>1. RowsOK'
      BY <1>1, <2>1, <2>3, AtWork, StoredRows
    <3> QED BY <1>1, <2>4, <3>1, StepsOfSync, MismatchAssembles
  <2>5. CASE Continue("probe retry", [etag |-> ETag(o.row)])
    <3> DEFINE news == [etag |-> ETag(o.row)]
    <3>1. DOMAIN news = {"etag"} /\ Continue("probe retry", news)
      BY <2>5
    <3> HIDE DEF news
    <3>2. /\ {"prior", "gen"} \subseteq DOMAIN seen'
          /\ seen'.prior = seen.prior /\ seen'.gen = seen.gen
      BY <2>2, <3>1, Continued
    <3>3. "first" \notin DOMAIN news
      BY <3>1
    <3> QED BY <1>1, <2>1, <2>2, <2>3, <3>1, <3>2, <3>3, StepsOfSync, SyncGoesOn
  <2> QED BY <2>1, <2>4, <2>5
<1> QED
  BY <1>2, <1>3 DEF Exhaust

\* The probe of the retry.
LEMMA ProbeRetryAssembles ==
  ASSUME Assembled, ProbeRetry
  PROVE  Assembled'
<1>1. At("probe retry")
  BY DEF ProbeRetry
<1>2. PICK p \in Unauthorized(Row, Retried(Row, Intruder)) :
        /\ Stored(p.row)
        /\ Continue("retry sync", [probe |-> RetryProbe(Row, p.row, p.answer)])
  BY DEF ProbeRetry
<1>3. /\ RowOK(Row) /\ Row.sync \in SyncRows /\ {"prior", "gen"} \subseteq DOMAIN seen
      /\ seen.prior \in Seq(STRING) /\ seen.gen \in Maybe(Nat)
  BY <1>1, StepsOfSync, SeenOfSync
<1>4. RowOK(p.row) /\ p.row.sync \in SyncRows
  <2>1. RowOK(Retried(Row, Intruder)) /\ Retried(Row, Intruder).sync \in SyncRows
    BY <1>3, RetriedRow
  <2> QED BY <1>2, <1>3, <2>1, UnauthorizedRow
<1>5. RetryProbe(Row, p.row, p.answer) \in RetryProbes
  BY <1>3, <1>4, ProbesAreOK
<1> DEFINE news == [probe |-> RetryProbe(Row, p.row, p.answer)]
<1>6. /\ DOMAIN news = {"probe"} /\ news.probe = RetryProbe(Row, p.row, p.answer)
      /\ Continue("retry sync", news)
  BY <1>2
<1> HIDE DEF news
<1>7. /\ {"prior", "gen", "probe"} \subseteq DOMAIN seen'
      /\ seen'.prior = seen.prior /\ seen'.gen = seen.gen
      /\ seen'.probe = RetryProbe(Row, p.row, p.answer)
  BY <1>3, <1>6, Continued
<1>8. "first" \notin DOMAIN news
  BY <1>6
<1> QED
  BY <1>1, <1>2, <1>3, <1>4, <1>5, <1>6, <1>7, <1>8, StepsOfSync, SyncGoesOn

\* The retry of the synchronization.
LEMMA RetrySyncAssembles ==
  ASSUME Assembled, RetrySync
  PROVE  Assembled'
<1>1. At("retry sync")
  BY DEF RetrySync
<1>2. CASE Raised
  BY <1>1, <1>2, StepsOfSync, SeenAtWork, ProviderOfCase, RaisedAssembles DEF Raised
<1>3. CASE \E o \in Retry(Row) :
             /\ Stored(o.row)
             /\ \/ Finish(BenchmarkFailure(seen.first, {"reliability"}))
                \/ Continue("execute", [retrier |-> o.row.retrier, atRetry |-> Receipt(o.row)])
  <2>1. PICK o \in Retry(Row) :
             /\ Stored(o.row)
             /\ \/ Finish(BenchmarkFailure(seen.first, {"reliability"}))
                \/ Continue("execute", [retrier |-> o.row.retrier, atRetry |-> Receipt(o.row)])
    BY <1>3
  <2>2. /\ RowOK(Row) /\ Row.sync \in SyncRows /\ {"prior", "gen"} \subseteq DOMAIN seen
        /\ seen.prior \in Seq(STRING) /\ seen.gen \in Maybe(Nat)
        /\ "probe" \in DOMAIN seen /\ seen.probe \in RetryProbes
    BY <1>1, StepsOfSync, SeenOfSync
  <2>3. RowOK(o.row) /\ o.row.sync \in SyncRows
    BY <2>1, <2>2, RetryRow
  <2>4. CASE Finish(BenchmarkFailure(seen.first, {"reliability"}))
    <3>1. RowsOK'
      BY <1>1, <2>1, <2>3, AtWork, StoredRows
    <3> QED BY <1>1, <2>4, <3>1, StepsOfSync, MismatchAssembles
  <2>5. CASE Continue("execute", [retrier |-> o.row.retrier, atRetry |-> Receipt(o.row)])
    <3> DEFINE news == [retrier |-> o.row.retrier, atRetry |-> Receipt(o.row)]
    <3>1. /\ DOMAIN news = {"retrier", "atRetry"} /\ news.atRetry = Receipt(o.row)
          /\ Continue("execute", news)
      BY <2>5
    <3> HIDE DEF news
    <3>2. /\ {"prior", "gen", "probe", "retrier", "atRetry"} \subseteq DOMAIN seen'
          /\ seen'.prior = seen.prior /\ seen'.gen = seen.gen /\ seen'.probe = seen.probe
          /\ seen'.atRetry = Receipt(o.row)
      BY <2>2, <3>1, Continued
    <3>3. "first" \notin DOMAIN news
      BY <3>1
    <3>4. Receipt(o.row) \in Seq(STRING)
      BY <2>3, RowIsReadable
    <3> QED BY <1>1, <2>1, <2>2, <2>3, <3>1, <3>2, <3>3, <3>4, StepsOfSync, SyncGoesOn
  <2> QED BY <2>1, <2>4, <2>5
<1> QED
  BY <1>2, <1>3 DEF RetrySync

\* The synchronization, of this order or of another one that is eligible.
LEMMA SynchronizeAssembles ==
  ASSUME Assembled, Synchronize
  PROVE  Assembled'
<1>1. At("execute")
  BY DEF Synchronize
<1>2. /\ CaseOK(seen.first) /\ seen.first.authority \in AuthorityEvidences
      /\ Case.recovery # None /\ Case.approval # None
      /\ RowOK(Row) /\ Row.sync \in SyncRows
      /\ seen.prior \in Seq(STRING) /\ seen.gen \in Maybe(Nat)
      /\ seen.probe \in RetryProbes /\ seen.atRetry \in Seq(STRING)
  BY <1>1, StepsOfSync, SeenOfSync
<1>3. CASE \E o \in Synchronized(Row) :
             /\ Stored(o.row)
             /\ Finish(WithSync(seen.first, o.row, o.row.state = "COMPLETED", o.steps))
  <2>1. PICK o \in Synchronized(Row) :
             /\ Stored(o.row)
             /\ Finish(WithSync(seen.first, o.row, o.row.state = "COMPLETED", o.steps))
    BY <1>3
  <2>2. RowOK(o.row) /\ o.steps \in Seq(STRING)
    BY <1>2, <2>1, SynchronizedRow
  <2> DEFINE completed == o.row.state = "COMPLETED"
  <2>3. CaseOK(WithSync(seen.first, o.row, completed, o.steps))
    <3> HIDE DEF completed
    <3> QED BY <1>1, <1>2, <2>2, AtWork, SyncKeepsContract
  <2>4. RowsOK'
    BY <1>1, <2>1, <2>2, AtWork, StoredRows
  <2> QED BY <1>1, <2>1, <2>3, <2>4, AtWork, FinishAssembles
<1>4. CASE \E n \in Claims \ {Name} :
             /\ rows' = [rows EXCEPT ![n].state = "COMPLETED"]
             /\ Finish(WithSync(seen.first, Row, TRUE, <<Lookup, Bridge>> \o CrmSteps))
  <2>1. PICK n \in Claims \ {Name} :
             /\ rows' = [rows EXCEPT ![n].state = "COMPLETED"]
             /\ Finish(WithSync(seen.first, Row, TRUE, <<Lookup, Bridge>> \o CrmSteps))
    BY <1>4
  <2>2. n \in DOMAIN Corpus /\ RowOK(rows[n]) /\ RowsOK
    BY <1>1, <2>1, AtWork DEF Claims, Claimable, RowsOK
  <2> DEFINE q == [rows[n] EXCEPT !.state = "COMPLETED"]
  <2>3. /\ RowKept(q, rows[n], {"state", "origin", "audit"})
        /\ q.state = "COMPLETED" /\ q.origin = rows[n].origin /\ q.audit = rows[n].audit
    BY <2>2 DEF RowKept, RowOK, RowFields
  <2>4. rows' = [rows EXCEPT ![n] = q]
    BY <2>1
  <2> HIDE DEF q
  <2>5. RowOK(q)
    BY <2>2, <2>3, RoutesAreStates, StateEdited DEF RowOK, States
  <2>6. RowsOK'
    BY <2>2, <2>4, <2>5 DEF RowsOK
  <2> DEFINE steps == <<Lookup, Bridge>> \o CrmSteps
  <2>7. steps \in Seq(STRING)
    BY StepsAreStrings
  <2> HIDE DEF steps
  <2>8. CaseOK(WithSync(seen.first, Row, TRUE, steps))
    BY <1>1, <1>2, <2>7, AtWork, SyncKeepsContract
  <2> QED BY <1>1, <2>1, <2>6, <2>8, AtWork, FinishAssembles DEF steps
<1> QED
  BY <1>3, <1>4 DEF Synchronize

\* What the provider of a broken case had counted can be reported.
LEMMA OwnProviderIsOK ==
  ASSUME Assembled, At(step), step # "intake", NEW provider \in OwnProvider
  PROVE  ProviderOK(provider)
<1>1. SeenOK /\ CaseOK(seen.first)
  BY SeenAtWork
<1>2. ProviderOK(seen.first.provider) /\ seen.first.provider.failed \in Nat
  BY <1>1, ProviderOfCase DEF ProviderOK, ProviderSummaries
<1>3. step = "close replay" => ProviderOK(seen.second.provider)
  BY <1>1, ProviderOfCase DEF SeenOK
<1>4. ProviderOK(Provider(0, 0)) /\ ProviderOK(Provider(2, seen.first.provider.failed))
  BY <1>2, ProviderIsOK
<1> QED
  BY <1>2, <1>3, <1>4 DEF OwnProvider

\* Whatever else a scenario raises.
LEMMA BreaksAssembles ==
  ASSUME Assembled, Breaks
  PROVE  Assembled'
<1>1. At(step) /\ step # "intake" /\ rows' = rows
  BY DEF Breaks
<1>2. PICK provider \in OwnProvider : Finish(ErrorResult(provider))
  BY DEF Breaks
<1>3. ProviderOK(provider)
  BY <1>1, OwnProviderIsOK
<1> QED
  BY <1>1, <1>2, <1>3, RaisedAssembles

\* Every step of a case.
LEMMA CaseAssembles ==
  ASSUME Assembled, RunCase
  PROVE  Assembled'
BY IntakeAssembles, IntakeRaisesAssembles, ProbeAssembles, CloseAssembles, ReplayAssembles,
   CloseReplayAssembles, NotFailedAssembles, RetryFailedAssembles, ResumeAssembles,
   ResumeRaisesAssembles, CloseRecoveryAssembles, ApproveOrderAssembles, ClaimAssembles,
   ExhaustAssembles, ProbeRetryAssembles, RetrySyncAssembles, SynchronizeAssembles,
   BreaksAssembles
DEF RunCase


(***************************************************************************)
(* The sum of the duplicates, one case after the other.                    *)
(***************************************************************************)
\* A set of natural numbers that is not empty has a least element.
LEMMA LeastElement ==
  ASSUME NEW S \in SUBSET Nat, S # {}
  PROVE  \E n \in S : \A m \in S : n <= m
<1>1. PICK n \in S : \A m \in S : ~(<<m, n>> \in OpToRel(<, Nat))
  BY NatLessThanWellFounded, WFMin
<1>2. \A m \in S : ~(m < n)
  BY <1>1 DEF OpToRel
<1> QED
  BY <1>2

\* What holds of 0, and of each number after one of which it holds, holds up to N.
LEMMA Induction ==
  ASSUME NEW N \in Nat, NEW S, 0 \in S,
         \A n \in 0..N : n < N /\ n \in S => n + 1 \in S
  PROVE  \A n \in 0..N : n \in S
<1> DEFINE T == {n \in 0..N : n \notin S}
<1> SUFFICES ASSUME T # {} PROVE FALSE
  OBVIOUS
<1>1. T \in SUBSET Nat
  OBVIOUS
<1>2. PICK n \in T : \A m \in T : n <= m
  <2> HIDE DEF T
  <2> QED BY <1>1, LeastElement
<1>3. n # 0 /\ n - 1 \in 0..N /\ n - 1 < N /\ n - 1 \notin T
  BY <1>2
<1> QED
  BY <1>2, <1>3

\* The element of S that the sum takes first.
One(S) == CHOOSE j \in S : TRUE

\* The subsets of D with at most k elements.
Upto(D, k) == {S \in SUBSET D : Cardinality(S) <= k}

\* f sums v over the subsets of D with at most k elements.
IsSum(f, D, v, k) ==
  f = [S \in Upto(D, k) |-> IF S = {} THEN 0 ELSE v[One(S)] + f[S \ {One(S)}]]

\* Taking one element away.
LEMMA OneLess ==
  ASSUME NEW D, IsFiniteSet(D), NEW k \in Nat, NEW S \in Upto(D, k + 1), S # {}
  PROVE  One(S) \in S /\ S \ {One(S)} \in Upto(D, k)
<1>1. One(S) \in S
  BY DEF One
<1>2. IsFiniteSet(S) /\ Cardinality(S) <= k + 1 /\ S \in SUBSET D
  BY FS_Subset DEF Upto
<1>3. Cardinality(S \ {One(S)}) = Cardinality(S) - 1 /\ Cardinality(S) \in Nat
  BY <1>1, <1>2, FS_RemoveElement, FS_CardinalityType
<1> QED
  BY <1>1, <1>2, <1>3 DEF Upto

\* There is such a sum.
LEMMA SumExists ==
  ASSUME NEW D, IsFiniteSet(D), NEW v, NEW N \in Nat
  PROVE  \E f : IsSum(f, D, v, N)
<1> DEFINE P == {n \in 0..N : \E f : IsSum(f, D, v, n)}
<1>1. 0 \in P
  <2> DEFINE f == [S \in Upto(D, 0) |-> 0]
  <2>1. \A S \in Upto(D, 0) : S = {}
    BY FS_Subset, FS_CardinalityType, FS_EmptySet DEF Upto
  <2>2. IsSum(f, D, v, 0)
    BY <2>1 DEF IsSum
  <2> QED BY <2>2
<1>2. ASSUME NEW n \in 0..N, n < N, n \in P
      PROVE  n + 1 \in P
  <2>1. PICK f : IsSum(f, D, v, n)
    BY <1>2
  <2> DEFINE g == [S \in Upto(D, n + 1) |->
                     IF S = {} THEN 0 ELSE v[One(S)] + f[S \ {One(S)}]]
  <2>2. \A S \in Upto(D, n) : S \in Upto(D, n + 1) /\ g[S] = f[S]
    <3>1. SUFFICES ASSUME NEW S \in Upto(D, n) PROVE S \in Upto(D, n + 1) /\ g[S] = f[S]
      OBVIOUS
    <3>2. S \in Upto(D, n + 1)
      BY FS_Subset, FS_CardinalityType DEF Upto
    <3>3. f[S] = IF S = {} THEN 0 ELSE v[One(S)] + f[S \ {One(S)}]
      BY <2>1 DEF IsSum
    <3> QED BY <3>2, <3>3
  <2>3. ASSUME NEW S \in Upto(D, n + 1)
        PROVE  g[S] = IF S = {} THEN 0 ELSE v[One(S)] + g[S \ {One(S)}]
    <3>1. CASE S = {}
      BY <3>1
    <3>2. CASE S # {}
      <4>1. S \ {One(S)} \in Upto(D, n)
        BY <3>2, OneLess
      <4>2. g[S \ {One(S)}] = f[S \ {One(S)}]
        BY <2>2, <4>1
      <4>3. g[S] = v[One(S)] + f[S \ {One(S)}]
        BY <3>2
      <4> QED BY <3>2, <4>2, <4>3
    <3> QED BY <3>1, <3>2
  <2>4. IsSum(g, D, v, n + 1)
    BY <2>3 DEF IsSum
  <2> QED BY <1>2, <2>4
<1>3. \A n \in 0..N : n \in P
  <2> HIDE DEF P
  <2> QED BY <1>1, <1>2, Induction
<1> QED
  BY <1>3

\* A sum of natural numbers is one.
LEMMA SumIsNatural ==
  ASSUME NEW D, IsFiniteSet(D), NEW v, \A i \in D : v[i] \in Nat, NEW N \in Nat,
         NEW f, IsSum(f, D, v, N)
  PROVE  \A S \in Upto(D, N) : f[S] \in Nat
<1> DEFINE P == {n \in 0..N : \A S \in Upto(D, n) : f[S] \in Nat}
<1>0. \A S \in Upto(D, N) : f[S] = IF S = {} THEN 0 ELSE v[One(S)] + f[S \ {One(S)}]
  BY DEF IsSum
<1>1. 0 \in P
  <2>1. \A S \in Upto(D, 0) : S = {} /\ S \in Upto(D, N)
    BY FS_Subset, FS_CardinalityType, FS_EmptySet DEF Upto
  <2>2. \A S \in Upto(D, 0) : f[S] \in Nat
    BY <1>0, <2>1
  <2> QED BY <2>2
<1>2. ASSUME NEW n \in 0..N, n < N, n \in P
      PROVE  n + 1 \in P
  <2>1. ASSUME NEW S \in Upto(D, n + 1)
        PROVE  f[S] \in Nat
    <3>1. S \in Upto(D, N) /\ S \in SUBSET D
      BY <1>2, FS_Subset, FS_CardinalityType DEF Upto
    <3>2. CASE S = {}
      BY <1>0, <3>1, <3>2
    <3>3. CASE S # {}
      <4>1. One(S) \in S /\ S \ {One(S)} \in Upto(D, n)
        BY <3>3, OneLess
      <4>2. v[One(S)] \in Nat /\ f[S \ {One(S)}] \in Nat
        BY <1>2, <3>1, <4>1
      <4>3. f[S] = v[One(S)] + f[S \ {One(S)}]
        BY <1>0, <3>1, <3>3
      <4> QED BY <4>2, <4>3
    <3> QED BY <3>2, <3>3
  <2> QED BY <1>2, <2>1
<1>3. \A n \in 0..N : n \in P
  <2> HIDE DEF P
  <2> QED BY <1>1, <1>2, Induction
<1> QED
  BY <1>3


(***************************************************************************)
(* The verdict on the run.                                                 *)
(***************************************************************************)
\* The corpus is finite, and so is every selection of its cases.
LEMMA FiniteCorpus ==
  /\ IsFiniteSet(DOMAIN Corpus)
  /\ \A S \in SUBSET DOMAIN Corpus :
       /\ IsFiniteSet(S) /\ Cardinality(S) \in Nat
       /\ \A T \in SUBSET S : Cardinality(T) \in Nat /\ Cardinality(T) <= Cardinality(S)
<1>1. IsFiniteSet(DOMAIN Corpus)
  <2> DEFINE f == [k \in 1..Len(Cases) |-> Cases[k]]
  <2>1. DOMAIN Cases = 1..Len(Cases) /\ Len(Cases) \in Nat
    BY CorpusAssumption
  <2>2. DOMAIN Corpus = {f[k] : k \in 1..Len(Cases)}
    BY <2>1, CorpusAssumption DEF Range1
  <2>3. f \in Surjection(1..Len(Cases), DOMAIN Corpus)
    BY <2>2 DEF Surjection
  <2>4. IsFiniteSet(1..Len(Cases))
    BY <2>1, FS_Interval
  <2> HIDE DEF f
  <2> QED BY <2>3, <2>4, FS_Surjection
<1> QED
  BY <1>1, FS_Subset, FS_CardinalityType

\* A gate that can be published, and the rate drawn from it.
GateOK(g) ==
  /\ ValidGate(g) /\ g.of \in Nat
  /\ g.count # None => g.count \in Nat /\ g.count <= g.of

\* A gate that counts some cases out of others.
LEMMA CountedGate ==
  ASSUME NEW cases \in SUBSET DOMAIN Corpus, NEW S \in SUBSET cases,
         NEW status \in {"PASS", "FAIL"}, NEW failing
  PROVE  /\ GateOK(Gate(status, Cardinality(S), Cardinality(cases), failing))
         /\ GateOK(GateError(cases, failing))
         /\ GateOK(Gate("PASS", 0, Cardinality(cases), failing))
<1>1. /\ Cardinality(cases) \in Nat /\ Cardinality(S) \in Nat
      /\ Cardinality(S) <= Cardinality(cases)
  BY FiniteCorpus
<1> QED
  BY <1>1 DEF GateOK, Gate, GateError, ValidGate, Maybe

\* The gates whose cases must all pass.
LEMMA PassingGateIsOK ==
  ASSUME NEW cases \in SUBSET DOMAIN Corpus, NEW passing \in SUBSET cases
  PROVE  GateOK(PassingGate(Corpus, results, cases, passing))
<1> DEFINE missing == DOMAIN Corpus \ DOMAIN results
           broken == cases \ Decided(cases, results)
           failing == cases \ (broken \cup passing)
<1>1. \A x, s : s \in {"PASS", "FAIL"} =>
        /\ GateOK(Gate(s, Cardinality(passing), Cardinality(cases), x))
        /\ GateOK(GateError(cases, x))
  BY CountedGate
<1>2. GateOK(GateError({}, {}))
  <2>1. {} \in SUBSET DOMAIN Corpus /\ {} \in SUBSET {} /\ "PASS" \in {"PASS", "FAIL"}
    OBVIOUS
  <2> QED BY <2>1, CountedGate
<1>3. PassingGate(Corpus, results, cases, passing) \in
        { GateError(cases, missing), GateError({}, {}),
          Gate("FAIL", Cardinality(passing), Cardinality(cases), failing),
          GateError(cases, broken), Gate("PASS", Cardinality(passing), Cardinality(cases), {}) }
  BY Zenon DEF PassingGate, missing, broken, failing
<1> QED
  BY <1>1, <1>2, <1>3

\* The gate that looks for executed invalid orders.
LEMMA InvalidExecutionGateIsOK == GateOK(InvalidExecutionGate(Corpus, results))
<1> DEFINE cases == InvalidCases(Corpus)
           missing == DOMAIN Corpus \ DOMAIN results
           ran == {i \in cases : Executed(results[i])}
           unknown == {i \in cases \ ran : ExecutionUnobserved(results[i])}
<1>1. cases \in SUBSET DOMAIN Corpus /\ ran \in SUBSET cases
  BY DEF InvalidCases
<1>2. InvalidExecutionGate(Corpus, results) \in
        { GateError(cases, missing), GateError({}, {}),
          Gate("FAIL", Cardinality(ran), Cardinality(cases), ran),
          GateError(cases, unknown), Gate("PASS", 0, Cardinality(cases), {}) }
  BY Zenon DEF InvalidExecutionGate
<1> HIDE DEF cases, ran, missing, unknown
<1>3. \A x, s : s \in {"PASS", "FAIL"} =>
        /\ GateOK(Gate(s, Cardinality(ran), Cardinality(cases), x))
        /\ GateOK(GateError(cases, x)) /\ GateOK(Gate("PASS", 0, Cardinality(cases), x))
  BY <1>1, CountedGate
<1>4. GateOK(GateError({}, {}))
  <2>1. {} \in SUBSET DOMAIN Corpus /\ {} \in SUBSET {} /\ "PASS" \in {"PASS", "FAIL"}
    OBVIOUS
  <2> QED BY <2>1, CountedGate
<1> QED
  BY <1>2, <1>3, <1>4

\* The gate on the authority evidence.
LEMMA AuthorityGateIsOK == GateOK(AuthorityGate(Corpus, results))
<1> DEFINE blind == {i \in DOMAIN Corpus :
                        \/ i \notin DOMAIN results
                        \/ results[i].authority = None}
           violated == {i \in DOMAIN Corpus \ blind :
                          AuthorityViolated(Corpus[i], results[i].authority)}
           missing == {i \in DOMAIN Corpus \ (blind \cup violated) :
                         AuthorityMissing(Corpus[i], results[i])}
<1>1. violated \in SUBSET DOMAIN Corpus
  OBVIOUS
<1>2. AuthorityGate(Corpus, results) \in
        { Gate("FAIL", Cardinality(violated), Cardinality(DOMAIN Corpus), violated),
          GateError(DOMAIN Corpus, blind \cup missing),
          Gate("PASS", 0, Cardinality(DOMAIN Corpus), {}) }
  BY Zenon DEF AuthorityGate
<1> HIDE DEF blind, violated, missing
<1>3. DOMAIN Corpus \in SUBSET DOMAIN Corpus
  OBVIOUS
<1>4. \A x, s : s \in {"PASS", "FAIL"} =>
        /\ GateOK(Gate(s, Cardinality(violated), Cardinality(DOMAIN Corpus), x))
        /\ GateOK(GateError(DOMAIN Corpus, x))
        /\ GateOK(Gate("PASS", 0, Cardinality(DOMAIN Corpus), x))
  BY <1>1, <1>3, CountedGate
<1> QED
  BY <1>2, <1>4

\* The five release gates.
GateNames ==
  {"invalid_orders_executed_zero", "deterministic_violation_routing_100",
   "duplicate_blocking_100", "malformed_security_safe_100", "direct_llm_side_effects_zero"}

\* All five gates.
LEMMA GatesAreOK ==
  /\ DOMAIN ReleaseGates(Corpus, results) = GateNames
  /\ \A g \in GateNames : GateOK(ReleaseGates(Corpus, results)[g])
<1> DEFINE gates == ReleaseGates(Corpus, results)
           routed == DeterministicCases(Corpus)
           double == DuplicateCases(Corpus)
           risky == SafetyCases(Corpus)
           Judged(cases) == Decided(cases, results)
           a == {i \in Judged(routed) : ValidationPasses(Corpus[i], results[i])}
           b == {i \in Judged(double) : DuplicateIsBlocked(Corpus[i], results[i])}
           c == {i \in Judged(risky) : FailsSafely(Corpus[i], results[i])}
<1>1. /\ routed \in SUBSET DOMAIN Corpus /\ a \in SUBSET routed
      /\ double \in SUBSET DOMAIN Corpus /\ b \in SUBSET double
      /\ risky \in SUBSET DOMAIN Corpus /\ c \in SUBSET risky
  BY DEF DeterministicCases, DuplicateCases, SafetyCases, Decided
<1>2. /\ DOMAIN gates = GateNames
      /\ gates.invalid_orders_executed_zero = InvalidExecutionGate(Corpus, results)
      /\ gates.deterministic_violation_routing_100 = PassingGate(Corpus, results, routed, a)
      /\ gates.duplicate_blocking_100 = PassingGate(Corpus, results, double, b)
      /\ gates.malformed_security_safe_100 = PassingGate(Corpus, results, risky, c)
      /\ gates.direct_llm_side_effects_zero = AuthorityGate(Corpus, results)
  BY DEF ReleaseGates, GateNames
<1> HIDE DEF gates, routed, double, risky, a, b, c
<1>3. /\ GateOK(gates.invalid_orders_executed_zero)
      /\ GateOK(gates.deterministic_violation_routing_100)
      /\ GateOK(gates.duplicate_blocking_100)
      /\ GateOK(gates.malformed_security_safe_100)
      /\ GateOK(gates.direct_llm_side_effects_zero)
  BY <1>1, <1>2, PassingGateIsOK, InvalidExecutionGateIsOK, AuthorityGateIsOK
<1>4. \A g \in GateNames : GateOK(gates[g])
  BY <1>3 DEF GateNames
<1> QED
  BY <1>2, <1>4 DEF gates


\* The duplication of a case is a number, where it is known.
LEMMA DuplicationIsNatural ==
  ASSUME NEW r, CaseOK(r), Duplication(r.logical) # None
  PROVE  Duplication(r.logical) \in Nat
<1>1. r.logical # None /\ Duplication(r.logical) = r.logical.duplicates
  BY DEF Duplication
<1>2. r.logical \in LogicalObjects
  BY <1>1 DEF CaseOK, ValidCaseResult
<1> QED
  BY <1>1, <1>2 DEF LogicalObjects, Maybe

\* The rates that are published.
LEMMA MetricsAreOK ==
  ASSUME ResultsOK
  PROVE  ValidRouting(RoutingMetrics(Corpus, results, ReleaseGates(Corpus, results)))
<1> DEFINE gates == ReleaseGates(Corpus, results)
           m == RoutingMetrics(Corpus, results, gates)
           routed == {i \in DOMAIN Corpus : Corpus[i].expected # None}
           recovery == {i \in DOMAIN Corpus : Corpus[i].recovery # None}
           doubles == {i \in DOMAIN results : Duplication(results[i].logical) = None}
           passing(cases, score) ==
             {i \in cases \cap DOMAIN results : results[i].scores[score] = TRUE}
           RateOf(cases, score) ==
             Rate(Cardinality(passing(cases, score)), Cardinality(cases))
           v == [i \in DOMAIN results |-> Duplication(results[i].logical)]
           sum == CHOOSE f : f = [S \in SUBSET DOMAIN results |->
                                    IF S = {} THEN 0
                                    ELSE LET i == CHOOSE j \in S : TRUE
                                         IN  Duplication(results[i].logical) + f[S \ {i}]]
<1>1. /\ DOMAIN m = {"routing", "passThrough", "duplicates", "recovery", "security",
                     "execution", "duplication"}
      /\ m.routing = RateOf(routed, "validation")
      /\ m.passThrough = GateRate(gates.invalid_orders_executed_zero)
      /\ m.duplicates = GateRate(gates.duplicate_blocking_100)
      /\ m.recovery = RateOf(recovery, "reliability")
      /\ m.security = RateOf(SafetyCases(Corpus), "safety")
      /\ m.execution = RateOf(routed, "safety")
      /\ m.duplication = IF DOMAIN results = {} \/ doubles # {} THEN None
                         ELSE sum[DOMAIN results]
  BY DEF RoutingMetrics
<1>2. ASSUME NEW cases \in SUBSET DOMAIN Corpus, NEW score
      PROVE  ValidRate(RateOf(cases, score))
  <2>1. passing(cases, score) \in SUBSET cases
    OBVIOUS
  <2> HIDE DEF passing
  <2>2. /\ Cardinality(passing(cases, score)) \in Nat /\ Cardinality(cases) \in Nat
        /\ Cardinality(passing(cases, score)) <= Cardinality(cases)
    BY <2>1, FiniteCorpus
  <2> QED BY <2>2 DEF Rate, ValidRate
<1>3. ASSUME NEW g \in GateNames
      PROVE  ValidRate(GateRate(gates[g]))
  <2>1. GateOK(gates[g])
    BY GatesAreOK
  <2> HIDE DEF gates
  <2> QED BY <2>1 DEF GateOK, GateRate, Rate, ValidRate
<1>4. /\ routed \in SUBSET DOMAIN Corpus /\ recovery \in SUBSET DOMAIN Corpus
      /\ SafetyCases(Corpus) \in SUBSET DOMAIN Corpus
  BY DEF SafetyCases
<1>5. m.duplication \in Maybe(Nat)
  <2>1. CASE DOMAIN results = {} \/ doubles # {}
    BY <1>1, <2>1 DEF Maybe
  <2>2. CASE doubles = {} /\ DOMAIN results # {}
    <3> DEFINE D == DOMAIN results
               N == Cardinality(D)
    <3>1. IsFiniteSet(D) /\ N \in Nat
      BY FiniteCorpus DEF ResultsOK
    <3>2. \A i \in D : v[i] \in Nat
      BY <2>2, DuplicationIsNatural DEF ResultsOK
    <3>3. Upto(D, N) = SUBSET D
      BY <3>1, FS_Subset DEF Upto
    <3>4. PICK f : IsSum(f, D, v, N)
      BY <3>1, SumExists
    <3>5. \A S \in SUBSET D : S # {} =>
            v[One(S)] = Duplication(results[CHOOSE j \in S : TRUE].logical)
      BY DEF One
    <3>6. f = [S \in SUBSET DOMAIN results |->
                   IF S = {} THEN 0
                   ELSE LET i == CHOOSE j \in S : TRUE
                        IN  Duplication(results[i].logical) + f[S \ {i}]]
      BY <3>3, <3>4, <3>5 DEF IsSum, One
    <3>7. sum = [S \in SUBSET DOMAIN results |->
                     IF S = {} THEN 0
                     ELSE LET i == CHOOSE j \in S : TRUE
                          IN  Duplication(results[i].logical) + sum[S \ {i}]]
        BY ONLY <3>6, Zenon
    <3> HIDE DEF sum
    <3>8. IsSum(sum, D, v, N)
      BY <3>3, <3>5, <3>7 DEF IsSum, One
    <3>9. D \in Upto(D, N)
      BY <3>3
    <3> HIDE DEF v
    <3>10. sum[D] \in Nat
      BY <3>1, <3>2, <3>8, <3>9, SumIsNatural
    <3> QED BY <1>1, <2>2, <3>10 DEF Maybe
  <2> QED BY <2>1, <2>2
<1> HIDE DEF m, gates, RateOf, routed, recovery
<1>6. /\ ValidRate(m.routing) /\ ValidRate(m.recovery) /\ ValidRate(m.security)
      /\ ValidRate(m.execution)
  BY <1>1, <1>2, <1>4
<1>7. ValidRate(m.passThrough) /\ ValidRate(m.duplicates)
  BY <1>1, <1>3 DEF GateNames
<1>8. ValidRouting(m)
  BY <1>1, <1>5, <1>6, <1>7 DEF ValidRouting
<1> QED
  BY <1>8 DEF m, gates

\* The verdict on a run whose cases keep their contract keeps its own.
LEMMA JudgeAssembles ==
  ASSUME Assembled, Judge
  PROVE  Assembled'
<1>1. /\ UNCHANGED <<mode, rows, results, at, step, seen>> /\ phase' = "json"
  BY DEF Judge, scenario
<1>2. PICK p50 \in (IF samples.replay = 0 THEN {None} ELSE {1, 2}) :
        report' = [ mode |-> mode, results |-> results,
                    gates |-> ReleaseGates(Corpus, results),
                    routing |-> RoutingMetrics(Corpus, results, ReleaseGates(Corpus, results)),
                    samples |-> samples, p50 |-> p50,
                    calls |-> Total("calls"), failed |-> Total("failed") ]
  BY DEF Judge
<1>3. /\ report'.mode = mode /\ report'.results = results
      /\ report'.gates = ReleaseGates(Corpus, results)
      /\ report'.routing = RoutingMetrics(Corpus, results, ReleaseGates(Corpus, results))
      /\ report'.samples = samples /\ report'.p50 = p50
  BY <1>2
<1>4. ResultsOK
  BY DEF Assembled, ResultsOK
<1>5. \A n \in DOMAIN report'.results : ValidCaseResult(report'.results[n])
  BY <1>3, <1>4 DEF ResultsOK, CaseOK
<1>6. \A g \in DOMAIN report'.gates : ValidGate(report'.gates[g])
  BY <1>3, GatesAreOK DEF GateOK
<1>7. ValidRouting(report'.routing)
  BY <1>3, <1>4, MetricsAreOK
<1>8. ValidTiming(report'.samples.replay, report'.p50)
  <2>1. 1 # None /\ 2 # None
    BY NoneAssumption
  <2> QED BY <1>3, <2>1 DEF ValidTiming
<1>9. report'.mode = "provider_free" =>
        \A n \in DOMAIN report'.results : report'.results[n].provider.name # "gemini"
  BY <1>3, <1>4 DEF ResultsOK, CaseOK
<1>10. ValidRunResult(report')
  BY <1>5, <1>6, <1>7, <1>8, <1>9 DEF ValidRunResult
<1>11. \A n \in DOMAIN results' : CaseOK(results[n])'
  BY <1>1, <1>4 DEF ResultsOK, CaseOK
<1>12. RowsOK'
  BY <1>1 DEF Assembled, RowsOK
<1> QED
  BY <1>1, <1>4, <1>10, <1>11, <1>12 DEF Assembled, ResultsOK, EveryRunCanBePublished

\* The steps of the command around the cases.
LEMMA CommandAssembles ==
  ASSUME Assembled,
         \/ \E m \in Modes, s \in Setups : Start(m, s)
         \/ Reset \/ ConfirmSchema \/ WriteJson \/ WriteMarkdown \/ Exit \/ Killed
  PROVE  Assembled'
<1>1. CASE \E m \in Modes, s \in Setups : Start(m, s)
  <2>1. /\ results' = <<>> /\ at' = 1 /\ step' = "intake" /\ rows' = rows
        /\ phase' \in {"reset", "ended"}
    BY <1>1 DEF Start, End
  <2>2. DOMAIN results' = {}
    BY <2>1
  <2>3. RowsOK'
    BY <2>1 DEF Assembled, RowsOK
  <2> QED BY <2>1, <2>2, <2>3 DEF Assembled, EveryRunCanBePublished
<1>2. CASE Reset
  <2>1. /\ UNCHANGED <<mode, results, at, step>> /\ phase = "reset"
        /\ phase' \in {"schema", "ended"}
        /\ rows' = rows \/ rows' = [n \in DOMAIN Corpus |-> None]
    BY <1>2 DEF Reset, End
  <2>2. RowsOK'
    BY <2>1 DEF Assembled, RowsOK
  <2>3. \A n \in DOMAIN results' : CaseOK(results[n])'
    BY <2>1 DEF Assembled, CaseOK
  <2> QED BY <2>1, <2>2, <2>3 DEF Assembled, EveryRunCanBePublished
<1>3. CASE ConfirmSchema
  <2>1. /\ UNCHANGED <<mode, results, at, step, rows>> /\ phase = "schema"
        /\ phase' \in {"cases", "ended"}
    BY <1>3 DEF ConfirmSchema, End, scenario
  <2>2. RowsOK'
    BY <2>1 DEF Assembled, RowsOK
  <2>3. \A n \in DOMAIN results' : CaseOK(results[n])'
    BY <2>1 DEF Assembled, CaseOK
  <2>4. at' = 1 /\ step' = "intake" /\ 1 \in 1..Len(Cases)
    BY <2>1, CorpusAssumption DEF Assembled
  <2> QED BY <2>1, <2>2, <2>3, <2>4 DEF Assembled, EveryRunCanBePublished, ScenarioSteps
<1>4. CASE WriteJson \/ WriteMarkdown \/ Exit \/ Killed
  <2>1. /\ UNCHANGED <<mode, results, at, step, rows>>
        /\ phase' \in {"markdown", "exit", "ended"}
    BY <1>4 DEF WriteJson, WriteMarkdown, Exit, Killed, End, scenario
  <2>2. RowsOK'
    BY <2>1 DEF Assembled, RowsOK
  <2>3. \A n \in DOMAIN results' : CaseOK(results[n])'
    BY <2>1 DEF Assembled, CaseOK
  <2> QED BY <2>1, <2>2, <2>3 DEF Assembled, EveryRunCanBePublished
<1> QED
  BY <1>1, <1>2, <1>3, <1>4

\* The invariant is inductive.
LEMMA AssembledIsInductive ==
  ASSUME Assembled, [Next]_vars
  PROVE  Assembled'
<1>1. CASE UNCHANGED vars
  <2>1. /\ UNCHANGED <<phase, mode, rows, at, step, seen, results, report>>
    BY <1>1 DEF vars, command, scenario
  <2> QED
    BY <2>1 DEF Assembled, EveryRunCanBePublished, RowsOK, SeenOK, CaseOK, Name, Case
<1>2. CASE RunCase
  BY <1>2, CaseAssembles
<1>3. CASE Judge
  BY <1>3, JudgeAssembles
<1> QED
  BY <1>1, <1>2, <1>3, CommandAssembles DEF Next

\* Whatever the application does, in however many cases and runs, the result of a
\* finished run keeps the contract of evaluation/models.py, by which run_corpus and
\* write_result_json validate it (runner.py, artifacts.py): neither raises.
THEOREM EveryResultIsPublishable == Spec => []EveryRunCanBePublished
<1>1. Init => Assembled
  <2>1. ASSUME Init PROVE Assembled
    <3>1. DOMAIN results = {} /\ phase = "idle" /\ rows = [n \in DOMAIN Corpus |-> None]
      BY <2>1 DEF Init
    <3> QED BY <3>1 DEF Assembled, RowsOK, EveryRunCanBePublished
  <2> QED BY <2>1
<1>2. Assembled /\ [Next]_vars => Assembled'
  BY AssembledIsInductive
<1>3. Assembled => EveryRunCanBePublished
  BY DEF Assembled
<1> QED
  BY <1>1, <1>2, <1>3, PTL DEF Spec
===============================================================================
