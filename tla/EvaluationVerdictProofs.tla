----------------------- MODULE EvaluationVerdictProofs -----------------------
(***************************************************************************)
(* Proofs about what a passing run of the evaluation, its file and a claim *)
(* that rests on it are worth, for every telling corpus and any number of  *)
(* runs, of cases and of things that the application does wrong.           *)
(*                                                                         *)
(* Backed: a case that passes shows nothing that the comparison, judging   *)
(* it again, would doubt.  Timed: each case is measured as often as its    *)
(* scenario works on a message.  Reported: the report stands for the run.  *)
(* Together they give PassIsConsistent.                                    *)
(*                                                                         *)
(* Earned: what alone goes wrong in a case leaves a mark, in the order or  *)
(* in what was observed of it, that each later step of the scenario keeps, *)
(* until the result of the case tells it (Told).  Exit code 0 asks for     *)
(* results that tell nothing, which is PassIsEarned.  Shelved says the     *)
(* same of the files of earlier runs, from which ClaimIsEarned follows.    *)
(***************************************************************************)
EXTENDS EvaluationProofs

(***************************************************************************)
(* Scores.                                                                 *)
(***************************************************************************)
\* None is no state, route, verdict or number.
LEMMA NoneIsNothing ==
  /\ None \notin Domain!OrderStates /\ None \notin Routes /\ None \notin BOOLEAN
  /\ None \notin Nat /\ None # TRUE /\ None # FALSE
  /\ \A t \in {"NOT_RUN", "COMPLETED", "REPLAYED_EXISTING", "STANDING_DOWN",
               "NO_PRIOR_RECEIPTS", "PRESERVED"} : t # None
<1>1. \A t \in Domain!OrderStates : t \in STRING
  BY TextsAreStrings
<1>2. Routes \subseteq Domain!OrderStates
  BY DEF Routes, Domain!OrderStates
<1>3. \A t \in {"NOT_RUN", "COMPLETED", "REPLAYED_EXISTING", "STANDING_DOWN",
                "NO_PRIOR_RECEIPTS", "PRESERVED"} : t \in STRING
  BY TextsAreStrings
<1> QED
  BY <1>1, <1>2, <1>3, NoneAssumption

\* The observations of a scenario in which no executor was reached.
Idle == Objects({}, {}, <<>>, <<>>)

\* What they say: there is nothing, and nothing was repeated.
LEMMA NothingReached ==
  /\ Idle # None
  /\ Idle.original = {} /\ Idle.resulting = {} /\ Idle.before = <<>> /\ Idle.after = <<>>
  /\ Idle.duplicates = 0 /\ Idle.extra = FALSE /\ Idle.rerun = FALSE /\ Idle.reached = FALSE
  /\ Duplication(Idle) = 0
  /\ LogicalFacts(Idle) # None
  /\ LogicalFacts(Idle) = [duplicates |-> 0, extra |-> FALSE, rerun |-> FALSE,
                           reached |-> FALSE]
<1>1. Idle # None
  <2>1. {} \in SUBSET ObjectSet /\ IsFiniteSet({}) /\ <<>> \in Seq(STRING)
    BY FS_EmptySet
  <2>2. Idle \in LogicalObjects
    BY <2>1, ObjectsAreOK DEF Idle
  <2> QED BY <2>2, NoneIsNoEvidence
<1>2. Doubled({}) = 0
  <2>1. {o.stable : o \in {}} = {} /\ Cardinality({}) = 0
    BY FS_EmptySet
  <2> QED BY <2>1 DEF Doubled
<1>3. /\ Idle.original = {} /\ Idle.resulting = {} /\ Idle.before = <<>> /\ Idle.after = <<>>
      /\ Idle.duplicates = 0 /\ Idle.extra = FALSE /\ Idle.reached = FALSE
  <2>1. /\ Idle.original = {} /\ Idle.resulting = {} /\ Idle.before = <<>>
        /\ Idle.after = <<>> /\ Idle.duplicates = Doubled({})
    BY DEF Objects, Idle
  <2>2. Idle.reached = FALSE
    BY Zenon DEF Objects, Idle
  <2>3. Idle.extra = (Doubled({}) > Doubled({}))
    BY DEF Objects, Idle
  <2>4. Idle.extra = FALSE
    <3>1. (0 > 0) = FALSE
      OBVIOUS
    <3> QED BY ONLY <1>2, <2>3, <3>1, Zenon
  <2> QED BY <1>2, <2>1, <2>2, <2>4
<1>4. Idle.rerun = FALSE
  <2>1. DOMAIN <<>> = {}
    OBVIOUS
  <2> QED BY <2>1 DEF Objects, Idle
<1>5. Duplication(Idle) = 0
  BY <1>1, <1>2, <1>3 DEF Duplication
<1>6. LogicalFacts(Idle) = [duplicates |-> 0, extra |-> FALSE, rerun |-> FALSE,
                            reached |-> FALSE]
  <2>1. Range1(Idle.before) \cap Range1(Idle.after) = {}
    BY <1>3 DEF Range1
  <2>2. 0 # None /\ (0 > 0) = FALSE
    BY NoneAssumption
  <2>3. (Range1(Idle.before) \cap Range1(Idle.after) # {}) = FALSE
    BY <2>1
  <2>4. (\/ Idle.original # {} \/ Idle.resulting # {}
         \/ Idle.before # <<>> \/ Idle.after # <<>>) = FALSE
    BY <1>3
  <2> QED BY ONLY <1>2, <1>3, <1>5, <2>2, <2>3, <2>4, Zenon DEF LogicalFacts
<1>7. LogicalFacts(Idle) # None
  <2> DEFINE facts == [duplicates |-> 0, extra |-> FALSE, rerun |-> FALSE, reached |-> FALSE]
  <2>1. facts \in [duplicates : Nat, extra : BOOLEAN, rerun : BOOLEAN, reached : BOOLEAN]
    OBVIOUS
  <2> HIDE DEF facts
  <2>2. facts # None
    BY <2>1, NoneIsNoEvidence
  <2> QED BY <1>6, <2>2 DEF facts
<1> QED
  BY <1>1, <1>3, <1>4, <1>5, <1>6, <1>7

\* The validation score looks at nothing but the route, the level, the state and the issues.
LEMMA SameValidation ==
  ASSUME NEW c, NEW q, NEW r, q.route = r.route, q.level = r.level, q.state = r.state,
         q.issues = r.issues
  PROVE  ScoreValidation(c, q) = ScoreValidation(c, r)
BY DEF ScoreValidation

\* The safety score of a result without recovery evidence.
LEMMA SameSafety ==
  ASSUME NEW c, NEW q, NEW r, q.logical = r.logical, q.eligible = r.eligible,
         q.external = r.external, q.orderSync = r.orderSync, q.objects = r.objects,
         q.recovery = None \/ c.recovery.stage # "SYNCING" \/ c.recovery = None,
         r.recovery = None \/ c.recovery.stage # "SYNCING" \/ c.recovery = None
  PROVE  ScoreExecutionSafety(c, q) = ScoreExecutionSafety(c, r)
BY DEF ScoreExecutionSafety, NoSideEffects

(***************************************************************************)
(* What an intake is observed to have done.                                *)
(***************************************************************************)
\* A result as an intake left it: it was judged by what it says.
Observed(c, r) ==
  r.status # "ERROR" =>
    /\ r.eligible = (r.state \in {"APPROVED", "SYNCING", "COMPLETED"})
    /\ r.external = "NOT_RUN" /\ r.logical = Idle
    /\ r.orderSync = NothingRun /\ r.objects = NothingRun
    /\ r.replay = None /\ r.recovery = None
    /\ r.scores = [validation |-> ScoreValidation(c, r), reliability |-> None,
                   replay |-> None, safety |-> ScoreExecutionSafety(c, r)]
    /\ r.status = "PASS" => ScoreValidation(c, r) # FALSE /\ ScoreExecutionSafety(c, r) # FALSE

\* What the result of an intake tells of the order that it left.
Tells(r, c, row) ==
  /\ Observed(c, r)
  /\ r.state = row.state /\ r.status \in {"PASS", "FAIL"} /\ r.issues = row.issues
  /\ r.route = RouteForState(row.state) /\ r.level = ApprovalLevel(row)

\* It is judged by what it says.
LEMMA IntakeTells ==
  ASSUME NEW c, NEW row, NEW order, NEW idempotent, NEW execution, NEW provider,
         NEW r, r = ResultFromIntake(c, row, order, idempotent, execution, provider)
  PROVE  /\ Tells(r, c, row)
         /\ r.order = order /\ r.idempotent = idempotent
         /\ r.execution = execution /\ r.provider = provider
<1> DEFINE bare == [ErrorResult(provider) EXCEPT
                      !.status = "PASS", !.code = None,
                      !.route = RouteForState(row.state), !.level = ApprovalLevel(row),
                      !.state = row.state, !.order = order, !.issues = row.issues,
                      !.idempotent = idempotent, !.execution = execution,
                      !.external = "NOT_RUN",
                      !.eligible = row.state \in {"APPROVED", "SYNCING", "COMPLETED"},
                      !.logical = Objects({}, {}, <<>>, <<>>),
                      !.orderSync = NothingRun, !.objects = NothingRun]
           validation == ScoreValidation(c, bare)
           safety     == ScoreExecutionSafety(c, bare)
           told == [bare EXCEPT
                   !.status = IF FALSE \in {validation, safety} THEN "FAIL" ELSE "PASS",
                   !.scores = [NoScores EXCEPT !.validation = validation, !.safety = safety]]
<1>1. /\ DOMAIN bare = ResultFields
      /\ bare.route = RouteForState(row.state) /\ bare.level = ApprovalLevel(row)
      /\ bare.state = row.state /\ bare.order = order /\ bare.issues = row.issues
      /\ bare.idempotent = idempotent /\ bare.external = "NOT_RUN"
      /\ bare.eligible = (row.state \in {"APPROVED", "SYNCING", "COMPLETED"})
      /\ bare.logical = Idle /\ bare.orderSync = NothingRun /\ bare.objects = NothingRun
      /\ bare.replay = None /\ bare.recovery = None /\ bare.execution = execution
      /\ bare.provider = provider
  BY DEF ErrorResult, ResultFields, Idle
<1> HIDE DEF bare
<1>2. \A v, w : [NoScores EXCEPT !.validation = v, !.safety = w]
                  = [validation |-> v, reliability |-> None, replay |-> None, safety |-> w]
  <2>1. ASSUME NEW v, NEW w
        PROVE  [NoScores EXCEPT !.validation = v, !.safety = w]
                  = [validation |-> v, reliability |-> None, replay |-> None, safety |-> w]
    <3> DEFINE q == [NoScores EXCEPT !.validation = v]
    <3>1. q = [validation |-> v, reliability |-> None, replay |-> None, safety |-> None]
      BY DEF NoScores
    <3> HIDE DEF q
    <3>2. [q EXCEPT !.safety = w]
            = [validation |-> v, reliability |-> None, replay |-> None, safety |-> w]
      BY <3>1
    <3> QED BY <3>2 DEF q
  <2> QED BY <2>1
<1>3. /\ Kept(told, bare, {"status", "scores"})
      /\ told.status = IF FALSE \in {validation, safety} THEN "FAIL" ELSE "PASS"
      /\ told.scores = [validation |-> validation, reliability |-> None, replay |-> None,
                     safety |-> safety]
  BY <1>1, <1>2 DEF Kept, ResultFields
<1>4. r = told
  BY DEF ResultFromIntake, bare
<1> HIDE DEF told
<1>5. /\ r.route = RouteForState(row.state) /\ r.level = ApprovalLevel(row)
      /\ r.state = row.state /\ r.order = order /\ r.issues = row.issues
      /\ r.idempotent = idempotent /\ r.external = "NOT_RUN"
      /\ r.eligible = (row.state \in {"APPROVED", "SYNCING", "COMPLETED"})
      /\ r.logical = Idle /\ r.orderSync = NothingRun /\ r.objects = NothingRun
      /\ r.replay = None /\ r.recovery = None /\ r.execution = execution
      /\ r.provider = provider
  BY <1>1, <1>3, <1>4 DEF Kept, ResultFields
<1>6. ScoreValidation(c, r) = validation
  BY <1>1, <1>5, SameValidation
<1>7. ScoreExecutionSafety(c, r) = safety
  BY <1>1, <1>5, SameSafety
<1>8. Observed(c, r) /\ r.status \in {"PASS", "FAIL"}
  BY <1>3, <1>4, <1>5, <1>6, <1>7 DEF Observed
<1> QED
  BY <1>5, <1>8 DEF Tells

\* An ERROR says nothing.
LEMMA ErrorIsObserved ==
  ASSUME NEW c, NEW p
  PROVE  ErrorResult(p).status = "ERROR" /\ Observed(c, ErrorResult(p))
BY DEF ErrorResult, Observed

\* The evidence of authority is no part of it.
LEMMA ObservedKept ==
  ASSUME NEW c, NEW r, Observed(c, r), NEW q, Kept(q, r, {"authority"})
  PROVE  Observed(c, q)
<1>1. \A x \in ResultFields \ {"authority"} : q[x] = r[x]
  BY DEF Kept
<1>2. /\ q.status = r.status /\ q.state = r.state /\ q.eligible = r.eligible
      /\ q.external = r.external /\ q.logical = r.logical /\ q.orderSync = r.orderSync
      /\ q.objects = r.objects /\ q.replay = r.replay /\ q.recovery = r.recovery
      /\ q.scores = r.scores /\ q.route = r.route /\ q.level = r.level
      /\ q.issues = r.issues
  BY <1>1 DEF ResultFields
<1>3. ScoreValidation(c, q) = ScoreValidation(c, r)
  BY <1>2, SameValidation
<1>4. r.recovery = None => ScoreExecutionSafety(c, q) = ScoreExecutionSafety(c, r)
  BY <1>2, SameSafety
<1> QED
  BY <1>2, <1>3, <1>4 DEF Observed

(***************************************************************************)
(* A passing case stands up to its own evidence.                           *)
(***************************************************************************)
\* A condition that does not hold is no issue.
LEMMA NoIssue ==
  ASSUME NEW condition, ~condition, NEW issue
  PROVE  If(condition, issue) = {}
BY DEF If

\* What the comparison asks of a passing case.
Doubtless(c, r) ==
  /\ r.status = "PASS"
  /\ ValidationComplete(c, r) /\ ExecutionComplete(c, r)
  /\ ReplayIssues(c, r) = {} /\ RecoveryIssues(c, r) = {}
  /\ EligibilityIssues(c, r) = {} /\ LogicalIssues(r) = {}
  /\ c.replay # None => ReplayComplete(r)
  /\ c.recovery # None => RecoveryComplete(c, r)
  /\ r.scores.validation = ScoreValidation(c, r)
  /\ r.scores.replay = ScoreReplay(c, r)
  /\ r.scores.reliability = ScoreReliability(c, r)
  /\ r.scores.safety = ScoreExecutionSafety(c, r)
  /\ c.expected # None => ScoreValidation(c, r) = TRUE
  /\ c.replay # None => ScoreReplay(c, r) = TRUE
  /\ c.recovery # None => ScoreReliability(c, r) = TRUE
  /\ ScoreExecutionSafety(c, r) = TRUE

\* That is all.
LEMMA NothingToDoubt ==
  ASSUME NEW c, NEW r, Doubtless(c, r)
  PROVE  CaseIssues(c, r) = {}
<1> DEFINE expected == ExpectedScores(c, r)
           required == [ validation |-> c.expected # None, replay |-> c.replay # None,
                         reliability |-> c.recovery # None, safety |-> TRUE ]
           failed   == \E s \in DOMAIN expected : expected[s] = FALSE
<1>1. /\ c.expected = None => ScoreValidation(c, r) = None
      /\ c.replay = None => ScoreReplay(c, r) = None
      /\ c.recovery = None => ScoreReliability(c, r) = None
  BY DEF ScoreValidation, ScoreReplay, ScoreReliability
<1>2. /\ DOMAIN expected = {"validation", "replay", "reliability", "safety"}
      /\ expected["validation"] = ScoreValidation(c, r)
      /\ expected["replay"] = ScoreReplay(c, r)
      /\ expected["reliability"] = ScoreReliability(c, r)
      /\ expected["safety"] = ScoreExecutionSafety(c, r)
  BY DEF ExpectedScores, Doubtless
<1>3. /\ required["validation"] = (c.expected # None)
      /\ required["replay"] = (c.replay # None)
      /\ required["reliability"] = (c.recovery # None)
      /\ required["safety"] = TRUE
  OBVIOUS
<1> HIDE DEF expected, required
<1>4. \A s \in DOMAIN expected : r.scores[s] = expected[s]
  BY <1>2 DEF Doubtless
<1>5. \A s \in DOMAIN expected : expected[s] \in {TRUE, None}
  BY <1>1, <1>2 DEF Doubtless
<1>6. ~failed
  BY <1>5, NoneIsNothing
<1>7. \A s \in DOMAIN expected : required[s] => expected[s] # None
  <2>1. required["validation"] => expected["validation"] # None
    BY <1>2, <1>3, NoneIsNothing DEF Doubtless
  <2>2. required["replay"] => expected["replay"] # None
    BY <1>2, <1>3, NoneIsNothing DEF Doubtless
  <2>3. required["reliability"] => expected["reliability"] # None
    BY <1>2, <1>3, NoneIsNothing DEF Doubtless
  <2>4. expected["safety"] # None
    BY <1>2, NoneIsNothing DEF Doubtless
  <2> QED BY <1>2, <2>1, <2>2, <2>3, <2>4
<1> HIDE DEF failed
<1>8. r.status = "PASS" /\ r.status # "ERROR" /\ r.status # "FAIL"
  BY DEF Doubtless
<1>9. {<<s, "disagrees_with_observation">> :
          s \in {x \in DOMAIN expected : r.scores[x] # expected[x]}} = {}
  BY <1>4
<1>10. {<<s, "evidence_unavailable">> :
          s \in {x \in DOMAIN expected :
                    required[x] /\ expected[x] = None /\ r.status # "ERROR"}} = {}
  BY <1>7
<1>11. If(r.status = "PASS" /\ failed, "pass_case_has_failed_score") = {}
  BY <1>6, NoIssue
<1>12. If(r.status = "FAIL" /\ ~failed, "failed_case_has_no_failed_score") = {}
  BY <1>8, NoIssue
<1>13. ScoreIssues(c, r) = {}
  BY <1>9, <1>10, <1>11, <1>12, Zenon DEF ScoreIssues, expected, required, failed
<1>14. If(~ValidationComplete(c, r) /\ r.status # "ERROR", "validation_observations_incomplete")
         = {}
  BY NoIssue DEF Doubtless
<1>15. If(~ExecutionComplete(c, r) /\ r.status # "ERROR",
          "execution_safety_observations_incomplete") = {}
  BY NoIssue DEF Doubtless
<1> QED
  BY <1>13, <1>14, <1>15 DEF CaseIssues, Doubtless

\* A validation score that is not bad is good where there is validation truth.
LEMMA GoodValidation ==
  ASSUME NEW c, ValidCase(c), c.expected # None, NEW r, ScoreValidation(c, r) # FALSE
  PROVE  /\ ScoreValidation(c, r) = TRUE
         /\ r.state = c.expected.state /\ r.route = c.expected.route
         /\ r.issues = c.expected.issues
         /\ c.expected.level # None => r.level = c.expected.level
         /\ r.state # None /\ r.route # None
<1>1. ScoreValidation(c, r) = TRUE
  BY DEF ScoreValidation
<1>2. /\ r.state = c.expected.state /\ r.route = c.expected.route
      /\ r.issues = c.expected.issues
      /\ c.expected.level # None => r.level = c.expected.level
  BY <1>1 DEF ScoreValidation
<1>3. c.expected.route \in Routes /\ c.expected.state \in Domain!OrderStates
  BY DEF ValidCase, ValidExpectation
<1> QED BY <1>1, <1>2, <1>3, NoneIsNothing

\* What is observed of a case whose executor was not reached and whose scores
\* are not bad.
Quiet(c, r) ==
  /\ r.eligible = (r.state \in {"APPROVED", "SYNCING", "COMPLETED"})
  /\ r.external = "NOT_RUN" /\ r.logical = Idle
  /\ r.orderSync = NothingRun /\ r.objects = NothingRun
  /\ ScoreValidation(c, r) # FALSE /\ ScoreExecutionSafety(c, r) # FALSE
  /\ c.expected = None => r.state # None

\* Its evidence is complete and its scores are good.
LEMMA QuietCase ==
  ASSUME NEW c, ValidCase(c), ~InSync(c), NEW r, Quiet(c, r)
  PROVE  /\ ValidationComplete(c, r) /\ ExecutionComplete(c, r)
         /\ EligibilityIssues(c, r) = {} /\ LogicalIssues(r) = {}
         /\ LogicalFacts(r.logical) # None /\ SideEffectsObserved(r)
         /\ c.expected # None =>
              /\ ScoreValidation(c, r) = TRUE
              /\ r.state = c.expected.state /\ r.route = c.expected.route
              /\ r.issues = c.expected.issues
              /\ c.expected.level # None => r.level = c.expected.level
         /\ ScoreExecutionSafety(c, r) = TRUE
         /\ r.eligible = (IF c.expected # None /\ c.approval = None
                          THEN c.expected.eligible ELSE FALSE)
         /\ r.state # None
<1>1. ASSUME c.expected # None
      PROVE  /\ ScoreValidation(c, r) = TRUE
             /\ r.state = c.expected.state /\ r.route = c.expected.route
             /\ r.issues = c.expected.issues
             /\ c.expected.level # None => r.level = c.expected.level
             /\ r.state # None /\ r.route # None
  BY <1>1, GoodValidation DEF Quiet
<1>2. r.state # None
  BY <1>1 DEF Quiet
<1>3. ValidationComplete(c, r)
  BY <1>1 DEF ValidationComplete
<1>4. LogicalFacts(r.logical) # None /\ SideEffectsObserved(r)
  BY NothingReached, NoneIsNothing DEF Quiet, SideEffectsObserved, NothingRun
<1>5. ExecutionComplete(c, r)
  <2>1. r.external # None /\ r.eligible \in BOOLEAN
    BY NoneIsNothing DEF Quiet
  <2>2. r.eligible # None
    BY <2>1, NoneIsNothing
  <2> QED BY ONLY <1>2, <1>4, <2>1, <2>2, ~InSync(c), Zenon DEF ExecutionComplete
<1>6. ScoreExecutionSafety(c, r)
        = (/\ r.eligible = (IF c.expected # None /\ c.approval = None
                            THEN c.expected.eligible ELSE FALSE)
           /\ r.external = "NOT_RUN"
           /\ NoSideEffects(r)
           /\ NoObjects(r.logical, LogicalFacts(r.logical)))
  BY <1>4 DEF ScoreExecutionSafety, InSync
<1>7. /\ ScoreExecutionSafety(c, r) = TRUE
      /\ r.eligible = (IF c.expected # None /\ c.approval = None
                       THEN c.expected.eligible ELSE FALSE)
  BY <1>6 DEF Quiet
<1>8. EligibilityIssues(c, r) = {}
  BY NoIssue DEF EligibilityIssues, Quiet
<1>9. LogicalIssues(r) = {}
  <2> DEFINE l == r.logical
             f == LogicalFacts(l)
  <2>1. <<l.extra, l.rerun, l.reached>> = <<f.extra, f.rerun, f.reached>>
    <3>1. /\ l.extra = FALSE /\ l.rerun = FALSE /\ l.reached = FALSE
          /\ f = [duplicates |-> 0, extra |-> FALSE, rerun |-> FALSE, reached |-> FALSE]
      BY NothingReached, Zenon DEF Quiet
    <3> HIDE DEF l, f
    <3>2. f.extra = FALSE /\ f.rerun = FALSE /\ f.reached = FALSE
      BY <3>1
    <3> QED BY <3>1, <3>2, Zenon
  <2>2. If(<<l.extra, l.rerun, l.reached>> # <<f.extra, f.rerun, f.reached>>,
           "logical_object_flags") = {}
    BY <2>1, NoIssue
  <2>3. l # None /\ f # None
    BY <1>4, NothingReached DEF Quiet
  <2> HIDE DEF l, f
  <2> QED BY <2>2, <2>3 DEF LogicalIssues, l, f
<1> QED
  BY <1>1, <1>2, <1>3, <1>4, <1>5, <1>7, <1>8, <1>9

\* The observations of an intake that the runner calls a PASS.
LEMMA PassingIntake ==
  ASSUME NEW c, NEW r, Observed(c, r), r.status = "PASS", c.expected = None => r.state # None
  PROVE  /\ Quiet(c, r) /\ r.replay = None /\ r.recovery = None
         /\ r.scores = [validation |-> ScoreValidation(c, r), reliability |-> None,
                        replay |-> None, safety |-> ScoreExecutionSafety(c, r)]
BY DEF Observed, Quiet

\* A passing case of one intake.
LEMMA PlainStandsUp ==
  ASSUME NEW c, ValidCase(c), c.recovery = None, c.replay = None,
         NEW r, Observed(c, r), r.status = "PASS", c.expected = None => r.state # None
  PROVE  CaseIssues(c, r) = {}
<1>1. /\ Quiet(c, r) /\ r.replay = None /\ r.recovery = None
      /\ r.scores = [validation |-> ScoreValidation(c, r), reliability |-> None,
                     replay |-> None, safety |-> ScoreExecutionSafety(c, r)]
  BY PassingIntake
<1>2. ~InSync(c)
  BY DEF InSync
<1>3. ReplayIssues(c, r) = {} /\ RecoveryIssues(c, r) = {}
  BY <1>1 DEF ReplayIssues, RecoveryIssues
<1>4. ScoreReplay(c, r) = None /\ ScoreReliability(c, r) = None
  BY DEF ScoreReplay, ScoreReliability
<1>5. /\ r.scores.validation = ScoreValidation(c, r) /\ r.scores.reliability = None
      /\ r.scores.replay = None /\ r.scores.safety = ScoreExecutionSafety(c, r)
  BY <1>1
<1>6. /\ ValidationComplete(c, r) /\ ExecutionComplete(c, r)
      /\ EligibilityIssues(c, r) = {} /\ LogicalIssues(r) = {}
      /\ c.expected # None => ScoreValidation(c, r) = TRUE
      /\ ScoreExecutionSafety(c, r) = TRUE
  BY <1>1, <1>2, QuietCase
<1>7. Doubtless(c, r)
  BY <1>3, <1>4, <1>5, <1>6 DEF Doubtless
<1> QED
  BY <1>7, NothingToDoubt

(***************************************************************************)
(* The verdict of a replay.                                                *)
(***************************************************************************)
\* The evidence of a replay.
ReplayOf(r, row) ==
  [ disposition |-> "REPLAYED_EXISTING", execution |-> r.execution,
    seedOrder |-> seen.first.order, replayOrder |-> r.order,
    ordersCreated |-> seen.created,
    callsBefore |-> 1, callsAfter |-> 1 + seen.calls,
    intentsBefore |-> Intents(seen.before), intentsAfter |-> Intents(row),
    syncsBefore |-> Syncs(seen.before), syncsAfter |-> Syncs(row),
    objects |-> Cardinality(r.logical.resulting),
    stoodDown |-> seen.calls = 0 ]

\* The replay score looks at the evidence of the replay and at the objects.
LEMMA SameReplay ==
  ASSUME NEW c, NEW q, NEW r, q.replay = r.replay, q.logical = r.logical, q.order = r.order,
         q.orderSync = r.orderSync, q.objects = r.objects
  PROVE  ScoreReplay(c, q) = ScoreReplay(c, r)
BY DEF ScoreReplay, NoSideEffects

\* A duplicate passes if its replay was already a PASS and scores TRUE.
LEMMA PassingReplay ==
  ASSUME NEW r, CaseOK(r), NEW row, NEW q, q = WithReplay(r, row), q.status = "PASS"
  PROVE  /\ r.status = "PASS" /\ Kept(q, r, {"replay", "status", "scores"})
         /\ q.replay = ReplayOf(r, row)
         /\ ScoreReplay(Case, q) = TRUE
         /\ q.scores.replay = TRUE /\ q.scores.validation = r.scores.validation
         /\ q.scores.reliability = r.scores.reliability /\ q.scores.safety = r.scores.safety
<1> DEFINE told  == [r EXCEPT !.replay = ReplayOf(r, row)]
           match == ScoreReplay(Case, told)
           judged == [told EXCEPT !.status = IF ~match /\ @ # "ERROR" THEN "FAIL" ELSE @,
                                  !.scores.replay = match]
<1>1. Kept(told, r, {"replay"}) /\ told.replay = ReplayOf(r, row)
  BY DEF CaseOK, Kept, ResultFields
<1>2. WithReplay(r, row) = IF match = None THEN ErrorResult(r.provider) ELSE judged
  BY DEF WithReplay, ReplayOf
<1>3. match # None /\ q = judged
  BY <1>2 DEF ErrorResult
<1> HIDE DEF told
<1>4. match \in Maybe(BOOLEAN)
  BY ScoresAreVerdicts
<1> HIDE DEF match
<1>5. told.scores \in CaseScores /\ told.status = r.status /\ told.scores = r.scores
      /\ DOMAIN told = ResultFields
  BY <1>1 DEF Kept, ResultFields, CaseOK, ValidCaseResult
<1>6. /\ Kept(judged, told, {"status", "scores"})
      /\ judged.scores = [told.scores EXCEPT !.replay = match]
      /\ judged.status = (IF ~match /\ told.status # "ERROR" THEN "FAIL" ELSE told.status)
  BY <1>5 DEF Kept, ResultFields
<1> HIDE DEF judged
<1>7. r.status = "PASS" /\ match
  BY <1>3, <1>5, <1>6
<1>8. match = TRUE
  BY <1>3, <1>4, <1>7 DEF Maybe
<1>9. Kept(q, r, {"replay", "status", "scores"}) /\ q.replay = ReplayOf(r, row)
  BY <1>1, <1>3, <1>6 DEF Kept, ResultFields
<1>10. /\ q.replay = told.replay /\ q.logical = told.logical /\ q.order = told.order
       /\ q.orderSync = told.orderSync /\ q.objects = told.objects
  BY <1>3, <1>6 DEF Kept, ResultFields
<1>11. ScoreReplay(Case, q) = match
  BY <1>10, SameReplay DEF match
<1>12. /\ q.scores.replay = TRUE /\ q.scores.validation = r.scores.validation
       /\ q.scores.reliability = r.scores.reliability /\ q.scores.safety = r.scores.safety
  BY <1>3, <1>5, <1>6, <1>8 DEF CaseScores
<1> QED
  BY <1>7, <1>8, <1>9, <1>11, <1>12

\* What a good replay score says.
LEMMA GoodReplay ==
  ASSUME NEW c, NEW r, ScoreReplay(c, r) = TRUE
  PROVE  /\ r.replay # None /\ c.replay # None /\ LogicalFacts(r.logical) # None
         /\ r.replay.disposition = c.replay.disposition
         /\ r.replay.execution = c.replay.execution
         /\ r.order # None
         /\ r.replay.seedOrder = r.order
         /\ r.replay.replayOrder = r.order
         /\ r.replay.ordersCreated = 1
         /\ r.replay.stoodDown = TRUE
         /\ r.replay.callsBefore = r.replay.callsAfter
         /\ r.replay.intentsBefore = r.replay.intentsAfter
         /\ r.replay.syncsBefore = r.replay.syncsAfter
         /\ r.replay.objects = Cardinality(r.logical.resulting)
         /\ NoSideEffects(r)
<1>1. c.replay # None /\ r.replay # None /\ LogicalFacts(r.logical) # None
  BY NoneIsNothing DEF ScoreReplay
<1> QED
  BY <1>1 DEF ScoreReplay

\* A passing duplicate.
LEMMA ReplayStandsUp ==
  ASSUME ValidCase(Case), Case.recovery = None, Case.replay # None,
         NEW r, CaseOK(r), Observed(Case, r), Case.expected = None => r.state # None,
         NEW row, RowOK(row), RowOK(seen.before), seen.calls \in Nat, seen.created \in Nat,
         NEW q, q = WithReplay(r, row), q.status = "PASS"
  PROVE  CaseIssues(Case, q) = {}
<1>1. /\ r.status = "PASS" /\ Kept(q, r, {"replay", "status", "scores"})
      /\ q.replay = ReplayOf(r, row)
      /\ ScoreReplay(Case, q) = TRUE
      /\ q.scores.replay = TRUE /\ q.scores.validation = r.scores.validation
      /\ q.scores.reliability = r.scores.reliability /\ q.scores.safety = r.scores.safety
  BY ONLY PassingReplay, CaseOK(r), q = WithReplay(r, row), q.status = "PASS",
     ZenonT(30)
<1>2. /\ Quiet(Case, r) /\ r.recovery = None
      /\ r.scores = [validation |-> ScoreValidation(Case, r), reliability |-> None,
                     replay |-> None, safety |-> ScoreExecutionSafety(Case, r)]
  BY <1>1, PassingIntake
<1>3. /\ q.state = r.state /\ q.eligible = r.eligible
      /\ q.external = r.external /\ q.logical = r.logical /\ q.orderSync = r.orderSync
      /\ q.objects = r.objects /\ q.recovery = r.recovery
      /\ q.route = r.route /\ q.level = r.level /\ q.issues = r.issues
  BY <1>1 DEF Kept, ResultFields
<1>4. /\ ScoreValidation(Case, q) = ScoreValidation(Case, r)
      /\ ScoreExecutionSafety(Case, q) = ScoreExecutionSafety(Case, r)
  BY <1>2, <1>3, SameValidation, SameSafety
<1>5. Quiet(Case, q) /\ ~InSync(Case)
  BY <1>2, <1>3, <1>4 DEF Quiet, InSync
<1>6. /\ ValidationComplete(Case, q) /\ ExecutionComplete(Case, q)
      /\ EligibilityIssues(Case, q) = {} /\ LogicalIssues(q) = {}
      /\ LogicalFacts(q.logical) # None /\ SideEffectsObserved(q)
      /\ Case.expected # None => ScoreValidation(Case, q) = TRUE
      /\ ScoreExecutionSafety(Case, q) = TRUE
  BY <1>5, QuietCase
<1>7. ReplayComplete(q)
  <2> DEFINE e == ReplayOf(r, row)
  <2>1. /\ Intents(seen.before) \in Nat /\ Intents(row) \in Nat
        /\ Syncs(seen.before) \in Nat /\ Syncs(row) \in Nat
    BY RowIsReadable
  <2>2. /\ e.execution = Case.replay.execution /\ q.order # None /\ e.seedOrder = q.order
        /\ e.replayOrder = q.order
    <3>1. /\ q.replay.execution = Case.replay.execution /\ q.order # None
          /\ q.replay.seedOrder = q.order /\ q.replay.replayOrder = q.order
      BY <1>1, GoodReplay, Zenon
    <3> QED BY <1>1, <3>1, Zenon
  <2>3. Case.replay.execution = "STANDING_DOWN"
    BY DEF ValidCase, ValidReplay
  <2>4. e.objects \in Nat
    <3>1. e.objects = Cardinality({})
      BY <1>2, NothingReached DEF Quiet, ReplayOf
    <3> QED BY <3>1, FS_EmptySet
  <2>5. /\ DOMAIN e = {"disposition", "execution", "seedOrder", "replayOrder", "ordersCreated",
                       "callsBefore", "callsAfter", "intentsBefore", "intentsAfter",
                       "syncsBefore", "syncsAfter", "objects", "stoodDown"}
        /\ e.disposition = "REPLAYED_EXISTING" /\ e.ordersCreated = seen.created
        /\ e.callsBefore = 1 /\ e.callsAfter = 1 + seen.calls
        /\ e.intentsBefore = Intents(seen.before) /\ e.intentsAfter = Intents(row)
        /\ e.syncsBefore = Syncs(seen.before) /\ e.syncsAfter = Syncs(row)
        /\ e.stoodDown \in BOOLEAN
    BY DEF ReplayOf
  <2> HIDE DEF e
  <2>6. \A f \in DOMAIN e : e[f] # None
    BY <2>1, <2>2, <2>3, <2>4, <2>5, NoneIsNothing
  <2>7. q.replay = e /\ q.replay # None
    BY <1>1, GoodReplay DEF e
  <2> QED BY <1>6, <2>2, <2>6, <2>7 DEF ReplayComplete
<1>8. ReplayIssues(Case, q) = {}
  <2>1. q.replay.stoodDown = (q.replay.callsBefore = q.replay.callsAfter)
    <3>1. (seen.calls = 0) = (1 = 1 + seen.calls)
      OBVIOUS
    <3> QED BY <1>1, <3>1 DEF ReplayOf
  <2> QED BY <1>7, <2>1, NoIssue DEF ReplayIssues
<1>9. RecoveryIssues(Case, q) = {} /\ ScoreReliability(Case, q) = None
  BY DEF RecoveryIssues, ScoreReliability
<1>10. q.scores.validation = ScoreValidation(Case, q) /\ q.scores.reliability = None
       /\ q.scores.safety = ScoreExecutionSafety(Case, q)
  BY <1>1, <1>2, <1>4
<1>11. Doubtless(Case, q)
  BY <1>1, <1>6, <1>7, <1>8, <1>9, <1>10 DEF Doubtless
<1> QED
  BY <1>11, NothingToDoubt

(***************************************************************************)
(* The verdict of a recovery.                                              *)
(***************************************************************************)
\* A mismatch is no PASS.
LEMMA MismatchFails ==
  ASSUME NEW r, DOMAIN r = ResultFields, NEW scores
  PROVE  BenchmarkFailure(r, scores).status \in {"ERROR", "FAIL"}
BY DEF BenchmarkFailure, ResultFields

\* A PASS on top of the PASS of an intake.
Promoted(q, r, scores) ==
  /\ r.status = "PASS" /\ Kept(q, r, {"scores"})
  /\ q.scores = [s \in DOMAIN r.scores |-> IF s \in scores THEN TRUE ELSE r.scores[s]]

\* A recovery passes if it matches and its intake was already a PASS.
LEMMA PassingVerdict ==
  ASSUME NEW r, DOMAIN r = ResultFields, NEW match, NEW scores,
         NEW q, q = Reliable(r, match, scores), q.status = "PASS"
  PROVE  match /\ Promoted(q, r, scores)
<1>1. match
  BY MismatchFails DEF Reliable
<1>2. q = [r EXCEPT !.scores = [s \in DOMAIN r.scores |->
                                   IF s \in scores THEN TRUE ELSE r.scores[s]]]
  BY <1>1 DEF Reliable
<1> QED
  BY <1>1, <1>2 DEF Kept, ResultFields, Promoted

\* The receipts of a recovery, by what was there before and after.
LEMMA ReceiptsOfRecovery ==
  ASSUME NEW prior, NEW final, NEW status, status = ReceiptStatus(prior, final),
         status.receipts = (IF prior = <<>> THEN "NO_PRIOR_RECEIPTS" ELSE "PRESERVED")
  PROVE  /\ DOMAIN status = {"receipts", "preserved"}
         /\ prior = final
         /\ prior = <<>> => status.preserved = None
         /\ prior # <<>> => status.preserved = TRUE
<1>1. CASE prior = <<>>
  <2>1. status.receipts = "NO_PRIOR_RECEIPTS"
    BY <1>1
  <2>2. CASE final = <<>>
    <3>1. status = [receipts |-> "NO_PRIOR_RECEIPTS", preserved |-> None]
      BY <1>1, <2>2, Zenon DEF ReceiptStatus
    <3> QED BY <1>1, <2>2, <3>1
  <2>3. CASE final # <<>>
    <3>1. status = [receipts |-> "UNEXPECTED_RECEIPTS", preserved |-> FALSE]
      BY <1>1, <2>3 DEF ReceiptStatus
    <3> QED BY <2>1, <3>1
  <2> QED BY <2>2, <2>3
<1>2. CASE prior # <<>>
  <2>1. status.receipts = "PRESERVED"
    BY <1>2
  <2>2. CASE final = <<>>
    <3>1. status = [receipts |-> "LOST", preserved |-> FALSE]
      BY <1>2, <2>2 DEF ReceiptStatus
    <3> QED BY <2>1, <3>1
  <2>3. CASE final # <<>> /\ final = prior
    <3>1. status = [receipts |-> "PRESERVED", preserved |-> TRUE]
      BY <1>2, <2>3 DEF ReceiptStatus
    <3> QED BY <1>2, <2>3, <3>1
  <2>4. CASE final # <<>> /\ final # prior
    <3>1. status = [receipts |-> "REPLACED", preserved |-> FALSE]
      BY <1>2, <2>4 DEF ReceiptStatus
    <3> QED BY <2>1, <3>1
  <2> QED BY <2>2, <2>3, <2>4
<1> QED
  BY <1>1, <1>2

\* What a passing recovery says of itself.
RecoveryOf(v, row) ==
  /\ v = [x \in RecoveryFields |-> v[x]]
  /\ v.stage = Case.recovery.stage /\ v.code = Case.recovery.code
  /\ v.failedState = "FAILED_RETRYABLE" /\ v.origin = seen.origin /\ v.retryUsed = TRUE
  /\ v.genBefore = None /\ v.gen = None /\ v.finalState = row.state
  /\ v.prior = seen.prior /\ v.atRetry = Receipt(row) /\ v.final = Receipt(row)
  /\ v.receipts = ReceiptStatus(seen.prior, Receipt(row)).receipts
  /\ v.preserved = ReceiptStatus(seen.prior, Receipt(row)).preserved
  /\ v.resumed = <<>>

\* The order failed where it was to fail, was resumed where it failed, ended where it was to
\* end and kept its receipts.
Recovered(q, r, row) ==
  /\ r.status = "PASS" /\ Kept(q, r, {"recovery", "authority", "scores"})
  /\ RecoveryOf(q.recovery, row)
  /\ q.authority = MergedAuthority(r.authority, seen.first.authority, row)
  /\ seen.origin = Case.recovery.stage /\ seen.retryState = Case.recovery.stage
  /\ row.state = Case.recovery.final
  /\ ReceiptStatus(seen.prior, Receipt(row)).receipts
       = (IF seen.prior = <<>> THEN "NO_PRIOR_RECEIPTS" ELSE "PRESERVED")
  /\ q.scores.reliability = TRUE /\ q.scores.validation = r.scores.validation
  /\ q.scores.replay = r.scores.replay /\ q.scores.safety = r.scores.safety

\* Otherwise a recovery does not pass.
LEMMA PassingRecovery ==
  ASSUME NEW r, CaseOK(r), NEW row, NEW q, q = WithRecovery(r, row), q.status = "PASS"
  PROVE  Recovered(q, r, row)
<1> DEFINE final    == Receipt(row)
           status   == ReceiptStatus(seen.prior, final)
           own ==
            [ stage |-> Case.recovery.stage, code |-> Case.recovery.code,
              failedState |-> "FAILED_RETRYABLE", origin |-> seen.origin,
              retryUsed |-> TRUE, genBefore |-> None, gen |-> None,
              finalState |-> row.state, prior |-> seen.prior, atRetry |-> final,
              final |-> final, resumed |-> <<>> ]
           recovery == own ++ status
           match == /\ seen.origin = Case.recovery.stage
                    /\ seen.retryState = Case.recovery.stage
                    /\ row.state = Case.recovery.final
                    /\ status.receipts = (IF seen.prior = <<>> THEN "NO_PRIOR_RECEIPTS"
                                          ELSE "PRESERVED")
           authority == MergedAuthority(r.authority, seen.first.authority, row)
           told == [r EXCEPT !.recovery = recovery, !.authority = authority]
<1>1. q = Reliable(told, match, {"reliability"})
  BY DEF WithRecovery
<1>2. DOMAIN told = ResultFields
  BY DEF CaseOK, ResultFields
<1>3. Kept(told, r, {"recovery", "authority"}) /\ told.recovery = recovery
      /\ told.authority = authority
  <2> HIDE DEF recovery, authority
  <2> QED BY DEF CaseOK, Kept, ResultFields
<1> HIDE DEF told
<1>4. /\ match /\ told.status = "PASS" /\ Kept(q, told, {"scores"})
      /\ q.scores = [s \in DOMAIN told.scores |->
                        IF s \in {"reliability"} THEN TRUE ELSE told.scores[s]]
  <2>1. match /\ Promoted(q, told, {"reliability"})
    BY ONLY <1>1, <1>2, q.status = "PASS", PassingVerdict
  <2> QED BY <2>1 DEF Promoted
<1>5. told.scores = r.scores /\ told.status = r.status /\ r.scores \in CaseScores
  BY <1>3 DEF Kept, ResultFields, CaseOK, ValidCaseResult
<1>6. /\ q.scores.reliability = TRUE /\ q.scores.validation = r.scores.validation
      /\ q.scores.replay = r.scores.replay /\ q.scores.safety = r.scores.safety
  BY <1>4, <1>5 DEF CaseScores
<1>7. /\ Kept(q, r, {"recovery", "authority", "scores"})
      /\ q.recovery = recovery /\ q.authority = authority
  <2> HIDE DEF recovery, authority
  <2> QED BY <1>3, <1>4 DEF Kept, ResultFields
<1>8. RecoveryOf(recovery, row)
  <2>1. DOMAIN status = {"receipts", "preserved"}
    <3>1. status.receipts = (IF seen.prior = <<>> THEN "NO_PRIOR_RECEIPTS" ELSE "PRESERVED")
      BY <1>4
    <3>2. status = ReceiptStatus(seen.prior, final)
      OBVIOUS
    <3> HIDE DEF status, final
    <3> QED BY ONLY <3>1, <3>2, ReceiptsOfRecovery
  <2> HIDE DEF status
  <2>2. /\ DOMAIN own = RecoveryFields \ {"receipts", "preserved"}
        /\ own.stage = Case.recovery.stage /\ own.code = Case.recovery.code
        /\ own.failedState = "FAILED_RETRYABLE" /\ own.origin = seen.origin
        /\ own.retryUsed = TRUE /\ own.genBefore = None /\ own.gen = None
        /\ own.finalState = row.state /\ own.prior = seen.prior /\ own.atRetry = final
        /\ own.final = final /\ own.resumed = <<>>
    BY DEF RecoveryFields
  <2> HIDE DEF own
  <2>3. /\ recovery = [x \in DOMAIN own \cup DOMAIN status |-> recovery[x]]
        /\ \A x \in DOMAIN own : recovery[x] = own[x]
        /\ \A x \in DOMAIN status \ DOMAIN own : recovery[x] = status[x]
    BY Merged
  <2> HIDE DEF recovery
  <2>4. recovery = [x \in RecoveryFields |-> recovery[x]]
    BY <2>1, <2>2, <2>3 DEF RecoveryFields
  <2>5. recovery.receipts = status.receipts /\ recovery.preserved = status.preserved
    BY <2>1, <2>2, <2>3 DEF RecoveryFields
  <2>6. \A x \in RecoveryFields \ {"receipts", "preserved"} : recovery[x] = own[x]
    BY <2>2, <2>3
  <2>7. /\ recovery.stage = own.stage /\ recovery.code = own.code
        /\ recovery.failedState = own.failedState /\ recovery.origin = own.origin
        /\ recovery.retryUsed = own.retryUsed /\ recovery.genBefore = own.genBefore
        /\ recovery.gen = own.gen /\ recovery.finalState = own.finalState
        /\ recovery.prior = own.prior /\ recovery.atRetry = own.atRetry
        /\ recovery.final = own.final /\ recovery.resumed = own.resumed
    BY <2>6 DEF RecoveryFields
  <2> QED BY <2>2, <2>4, <2>5, <2>7 DEF RecoveryOf, status, final
<1> QED
  BY <1>4, <1>5, <1>6, <1>7, <1>8 DEF Recovered

\* A passing recovery.
LEMMA RecoveryStandsUp ==
  ASSUME ValidCase(Case), Case.recovery # None, Case.approval = None,
         NEW r, CaseOK(r), Observed(Case, r), r.status # "ERROR" => r.idempotent = TRUE,
         NEW row, RowOK(row), seen.prior \in Seq(STRING),
         NEW q, q = WithRecovery(r, row), q.status = "PASS"
  PROVE  CaseIssues(Case, q) = {}
<1>1. /\ r.status = "PASS" /\ Kept(q, r, {"recovery", "authority", "scores"})
      /\ RecoveryOf(q.recovery, row)
      /\ seen.origin = Case.recovery.stage
      /\ row.state = Case.recovery.final
      /\ ReceiptStatus(seen.prior, Receipt(row)).receipts
           = (IF seen.prior = <<>> THEN "NO_PRIOR_RECEIPTS" ELSE "PRESERVED")
      /\ q.scores.reliability = TRUE /\ q.scores.validation = r.scores.validation
      /\ q.scores.replay = r.scores.replay /\ q.scores.safety = r.scores.safety
  <2>1. Recovered(q, r, row)
    BY ONLY PassingRecovery, CaseOK(r), q = WithRecovery(r, row), q.status = "PASS",
       ZenonT(30)
  <2> QED BY <2>1, Zenon DEF Recovered
<1>2. /\ ~InSync(Case) /\ Case.expected # None /\ Case.replay = None
      /\ Case.recovery.stage \in Domain!OrderStates /\ Case.recovery.code \in STRING
      /\ Case.recovery.final = Case.expected.state /\ Case.recovery.stage # "SYNCING"
  <2>1. Case.replay = None
    BY DEF ValidCase
  <2>2. Case.recovery.stage # "SYNCING" /\ Case.expected # None
        /\ Case.recovery.final = Case.expected.state
    BY DEF ValidCase
  <2> QED BY <2>1, <2>2, InjectionIsReadable DEF InSync
<1>3. /\ Quiet(Case, r) /\ r.recovery = None /\ r.replay = None
      /\ r.scores = [validation |-> ScoreValidation(Case, r), reliability |-> None,
                     replay |-> None, safety |-> ScoreExecutionSafety(Case, r)]
  BY <1>1, <1>2, PassingIntake
<1>4. /\ q.state = r.state /\ q.eligible = r.eligible
      /\ q.external = r.external /\ q.logical = r.logical /\ q.orderSync = r.orderSync
      /\ q.objects = r.objects /\ q.replay = r.replay /\ q.status = r.status
      /\ q.route = r.route /\ q.level = r.level /\ q.issues = r.issues
      /\ q.idempotent = r.idempotent
  BY <1>1 DEF Kept, ResultFields
<1>5. /\ ScoreValidation(Case, q) = ScoreValidation(Case, r)
      /\ ScoreExecutionSafety(Case, q) = ScoreExecutionSafety(Case, r)
  BY <1>2, <1>4, SameValidation, SameSafety
<1>6. Quiet(Case, q)
  BY <1>3, <1>4, <1>5 DEF Quiet
<1>7. /\ ValidationComplete(Case, q) /\ ExecutionComplete(Case, q)
      /\ EligibilityIssues(Case, q) = {} /\ LogicalIssues(q) = {}
      /\ ScoreValidation(Case, q) = TRUE /\ q.state = Case.expected.state
      /\ ScoreExecutionSafety(Case, q) = TRUE /\ q.state # None
  BY <1>2, <1>6, QuietCase
<1> DEFINE v == q.recovery
<1>8. /\ v.prior = v.final /\ v.atRetry = v.final
      /\ v.prior = <<>> => v.preserved = None /\ v.receipts = "NO_PRIOR_RECEIPTS"
      /\ v.prior # <<>> => v.preserved = TRUE /\ v.receipts = "PRESERVED"
  <2> DEFINE status == ReceiptStatus(seen.prior, Receipt(row))
  <2>1. /\ seen.prior = Receipt(row)
        /\ seen.prior = <<>> => status.preserved = None
        /\ seen.prior # <<>> => status.preserved = TRUE
    <3>1. status.receipts = (IF seen.prior = <<>> THEN "NO_PRIOR_RECEIPTS" ELSE "PRESERVED")
      BY <1>1
    <3>2. status = ReceiptStatus(seen.prior, Receipt(row))
      OBVIOUS
    <3> HIDE DEF status
    <3> QED BY ONLY <3>1, <3>2, ReceiptsOfRecovery
  <2> HIDE DEF status
  <2>2. v.receipts = status.receipts /\ v.preserved = status.preserved
        /\ v.prior = seen.prior /\ v.atRetry = Receipt(row) /\ v.final = Receipt(row)
    BY <1>1 DEF RecoveryOf, status
  <2>3. status.receipts = (IF seen.prior = <<>> THEN "NO_PRIOR_RECEIPTS" ELSE "PRESERVED")
    BY <1>1 DEF status
  <2> QED BY <2>1, <2>2, <2>3
<1>9. /\ v.stage = Case.recovery.stage /\ v.code = Case.recovery.code
      /\ v.failedState = "FAILED_RETRYABLE" /\ v.origin = Case.recovery.stage
      /\ v.retryUsed = TRUE /\ v.genBefore = None /\ v.gen = None
      /\ v.finalState = Case.recovery.final
  BY <1>1 DEF RecoveryOf
<1>10. v # None
  <2>1. Receipt(row) \in Seq(STRING) /\ <<>> \in Seq(STRING)
    BY RowIsReadable
  <2>2. /\ v = [x \in RecoveryFields |-> v[x]] /\ v.resumed = <<>>
        /\ v.prior = seen.prior /\ v.final = Receipt(row)
    BY <1>1 DEF RecoveryOf
  <2>3. "FAILED_RETRYABLE" \in Domain!OrderStates /\ Case.recovery.final \in Domain!OrderStates
    BY <1>2 DEF ValidCase, ValidRecovery, Domain!OrderStates
  <2> HIDE DEF v
  <2>4. v.preserved \in Maybe(BOOLEAN) /\ v.retryUsed \in Maybe(BOOLEAN)
    BY <1>8, <1>9 DEF Maybe
  <2>5. RecoveryOK(v)
    BY <1>2, <1>8, <1>9, <2>1, <2>2, <2>3, <2>4 DEF RecoveryOK, Maybe
  <2> QED BY <2>2, <2>5, RecoveryType, NoneIsNoEvidence
<1>11. RecoveryComplete(Case, q)
  <2>1. /\ v.failedState = "FAILED_RETRYABLE"
        /\ "FAILED_RETRYABLE" \in Domain!OrderStates
        /\ Case.recovery.final \in Domain!OrderStates
    BY <1>2, <1>9 DEF ValidCase, ValidRecovery, Domain!OrderStates
  <2>2. /\ v.stage # None /\ v.code # None /\ v.failedState # None /\ v.origin # None
        /\ v.retryUsed # None /\ v.finalState # None /\ v.receipts # None
    BY <1>2, <1>8, <1>9, <2>1, NoneIsNothing, NoneAssumption
  <2>3. q.idempotent = TRUE /\ q.idempotent # None /\ q.state # None
    BY <1>1, <1>4, <1>7, NoneIsNothing
  <2>4. v.preserved # None \/ (v.prior = <<>> /\ v.receipts = "NO_PRIOR_RECEIPTS")
    BY <1>8, NoneIsNothing
  <2> HIDE DEF v
  <2> QED BY <1>2, <1>10, <2>2, <2>3, <2>4 DEF RecoveryComplete, v
<1>12. RecoveryIssues(Case, q) = {}
  <2>1. /\ DerivedReceipts(Case, v).receipts = v.receipts
        /\ DerivedReceipts(Case, v).preserved = v.preserved
    <3>1. DerivedReceipts(Case, v) = ReceiptStatus(v.prior, v.final)
      BY <1>2 DEF DerivedReceipts
    <3>2. v.prior = seen.prior /\ v.final = Receipt(row)
      BY <1>1 DEF RecoveryOf
    <3> QED BY <1>1, <3>1, <3>2 DEF RecoveryOf
  <2>2. v.atRetry = v.final
    BY <1>8
  <2> QED BY <1>11, <2>1, <2>2, NoIssue DEF RecoveryIssues
<1>13. ScoreReliability(Case, q) = TRUE
  <2>1. FailedAsInjected(Case, v)
    BY <1>9 DEF FailedAsInjected
  <2>2. ReceiptPreserved(v)
    BY <1>8 DEF ReceiptPreserved
  <2>3. q.idempotent = TRUE /\ q.state = Case.recovery.final
    BY <1>1, <1>2, <1>4, <1>7
  <2>4. ScoreIntakeRecovery(Case, q) = TRUE
    BY <1>9, <2>1, <2>2, <2>3 DEF ScoreIntakeRecovery
  <2> QED BY <1>2, <1>10, <2>4 DEF ScoreReliability
<1>14. ReplayIssues(Case, q) = {} /\ ScoreReplay(Case, q) = None
  BY <1>2, <1>3, <1>4 DEF ReplayIssues, ScoreReplay
<1>15. /\ q.scores.validation = ScoreValidation(Case, q) /\ q.scores.replay = None
       /\ q.scores.safety = ScoreExecutionSafety(Case, q)
  BY <1>1, <1>3, <1>5
<1>16. Doubtless(Case, q)
  BY <1>1, <1>2, <1>4, <1>7, <1>11, <1>12, <1>13, <1>14, <1>15 DEF Doubtless
<1> QED
  BY <1>16, NothingToDoubt

(***************************************************************************)
(* The verdict of a synchronization.                                       *)
(***************************************************************************)
\* The steps before the failure, the objects of all steps, and what a
\* synchronization says of itself.
StepsBefore == <<Lookup, Bridge>>
ObjectsAfter(steps) ==
  Objects(ObjectsOf(StepsBefore), ObjectsOf(StepsBefore) \cup ObjectsOf(steps),
          StepsBefore, steps)
SyncOf(row, steps) ==
  [ stage |-> Case.recovery.stage, code |-> Case.recovery.code,
    failedState |-> "FAILED_RETRYABLE", origin |-> "SYNCING",
    retryUsed |-> TRUE, genBefore |-> seen.gen, gen |-> Generation(row),
    finalState |-> row.state, prior |-> seen.prior,
    atRetry |-> seen.atRetry, final |-> Receipt(row), resumed |-> steps,
    receipts |-> SyncReceiptStatus(seen.prior, seen.atRetry, Receipt(row)),
    preserved |-> SyncReceiptStatus(seen.prior, seen.atRetry, Receipt(row)) = "PRESERVED" ]

\* The result with the executor's side of it.
Ran(r, steps) == [r EXCEPT !.external = "COMPLETED", !.logical = ObjectsAfter(steps)]

\* The order ended where it was to end, in the next generation, with its receipts and
\* without repeating anything.
SyncedAsToldTo(row, completed, steps) ==
  /\ completed
  /\ row.state = Case.recovery.final
  /\ SyncReceiptStatus(seen.prior, seen.atRetry, Receipt(row)) = "PRESERVED"
  /\ seen.gen # None /\ Generation(row) = seen.gen + 1
  /\ ObjectsAfter(steps).duplicates = 0 /\ ~ObjectsAfter(steps).extra
  /\ ~ObjectsAfter(steps).rerun

\* The fields that a synchronization changes.
SyncedFields ==
  {"external", "logical", "eligible", "recovery", "authority", "orderSync", "objects"}

\* The result of a synchronization as far as it is not a verdict.
SyncedResult(q, r, row, steps) ==
  /\ q.external = "COMPLETED" /\ q.logical = ObjectsAfter(steps) /\ q.eligible = TRUE
  /\ q.recovery = SyncOf(row, steps)
  /\ q.authority = SyncAuthority(r.authority, Ran(r, steps), row)
  /\ q.orderSync = [status |-> "COMPLETED", count |-> Len(StepsBefore \o steps)]
  /\ q.objects = [status |-> "COMPLETED", count |-> Cardinality(ObjectsAfter(steps).resulting)]

\* A synchronization that passes.
SyncedWell(q, r, row, completed, steps) ==
  /\ r.status = "PASS" /\ Kept(q, r, SyncedFields \cup {"scores"})
  /\ SyncedResult(q, r, row, steps)
  /\ SyncedAsToldTo(row, completed, steps)
  /\ q.scores.reliability = TRUE /\ q.scores.validation = r.scores.validation
  /\ q.scores.replay = r.scores.replay /\ q.scores.safety = TRUE

\* Otherwise a synchronization does not pass.
LEMMA PassingSync ==
  ASSUME NEW r, CaseOK(r), NEW row, NEW completed, NEW steps,
         NEW q, q = WithSync(r, row, completed, steps), q.status = "PASS"
  PROVE  SyncedWell(q, r, row, completed, steps)
<1> DEFINE ran == Ran(r, steps)
           recovery == SyncOf(row, steps)
           logical == ObjectsAfter(steps)
           match == SyncedAsToldTo(row, completed, steps)
           authority == SyncAuthority(ran.authority, ran, row)
           orderSync == [status |-> "COMPLETED", count |-> Len(StepsBefore \o steps)]
           objects == [status |-> "COMPLETED", count |-> Cardinality(logical.resulting)]
           told == [ran EXCEPT !.eligible = TRUE, !.recovery = recovery,
                               !.authority = authority,
                               !.orderSync = orderSync, !.objects = objects]
<1>1. q = Reliable(told, match, {"reliability", "safety"})
  <2> DEFINE given == SyncOf(row, steps)
             plain == /\ completed
                      /\ row.state = Case.recovery.final
                      /\ given.preserved
                      /\ seen.gen # None /\ Generation(row) = seen.gen + 1
                      /\ logical.duplicates = 0 /\ ~logical.extra /\ ~logical.rerun
  <2>1. q = Reliable(told, plain, {"reliability", "safety"})
    BY Zenon DEF WithSync, Ran, SyncOf, ObjectsAfter, StepsBefore
  <2>2. given.preserved
          = (SyncReceiptStatus(seen.prior, seen.atRetry, Receipt(row)) = "PRESERVED")
    BY DEF SyncOf
  <2>3. plain = match
    BY <2>2 DEF SyncedAsToldTo
  <2> QED BY <2>1, <2>3
<1>2. /\ Kept(ran, r, {"external", "logical"})
      /\ ran.external = "COMPLETED" /\ ran.logical = logical /\ ran.authority = r.authority
  <2> HIDE DEF logical
  <2> QED BY DEF CaseOK, Kept, ResultFields, Ran, logical
<1> HIDE DEF ran, recovery, logical, match
<1>3. /\ Kept(told, ran, {"eligible", "recovery", "authority", "orderSync", "objects"})
      /\ told.eligible = TRUE /\ told.recovery = recovery /\ told.authority = authority
      /\ told.orderSync = orderSync /\ told.objects = objects
  <2> HIDE DEF authority, orderSync, objects
  <2> QED BY <1>2 DEF Kept, ResultFields
<1> HIDE DEF told
<1>4. match /\ Promoted(q, told, {"reliability", "safety"})
  <2>1. DOMAIN told = ResultFields
    BY <1>3 DEF Kept
  <2> QED BY ONLY <1>1, <2>1, q.status = "PASS", PassingVerdict
<1>5. told.scores = r.scores /\ told.status = r.status /\ r.scores \in CaseScores
  BY <1>2, <1>3 DEF Kept, ResultFields, CaseOK, ValidCaseResult
<1>6. /\ q.scores.reliability = TRUE /\ q.scores.validation = r.scores.validation
      /\ q.scores.replay = r.scores.replay /\ q.scores.safety = TRUE
  BY <1>4, <1>5 DEF CaseScores, Promoted
<1>7. Kept(q, r, SyncedFields \cup {"scores"})
  BY <1>2, <1>3, <1>4 DEF Kept, ResultFields, Promoted, SyncedFields
<1>8. /\ q.external = "COMPLETED" /\ q.logical = logical
      /\ q.eligible = TRUE /\ q.recovery = recovery /\ q.authority = authority
      /\ q.orderSync = orderSync /\ q.objects = objects
  <2> HIDE DEF authority, orderSync, objects
  <2> QED BY <1>2, <1>3, <1>4 DEF Kept, ResultFields, Promoted
<1>9. authority = SyncAuthority(r.authority, Ran(r, steps), row)
  BY <1>2 DEF ran
<1>10. SyncedResult(q, r, row, steps)
  BY <1>8, <1>9 DEF SyncedResult, recovery, logical
<1>11. r.status = "PASS" /\ SyncedAsToldTo(row, completed, steps)
  BY <1>4, <1>5 DEF Promoted, match
<1> QED
  BY <1>6, <1>7, <1>10, <1>11 DEF SyncedWell

\* What the objects say of themselves if nothing was repeated.
Unrepeated(l, steps) ==
  /\ l # None /\ LogicalFacts(l) # None
  /\ LogicalFacts(l) = [duplicates |-> 0, extra |-> FALSE, rerun |-> FALSE, reached |-> TRUE]
  /\ l.extra = FALSE /\ l.rerun = FALSE /\ l.reached = TRUE
  /\ l.before = StepsBefore /\ l.after = steps
  /\ Cardinality(l.resulting) \in Nat

\* They say so if they claim no duplicate, no extra object and no step done again.
LEMMA NothingRepeated ==
  ASSUME NEW steps \in Seq(STRING), NEW l, l = ObjectsAfter(steps),
         l.duplicates = 0, ~l.extra, ~l.rerun
  PROVE  Unrepeated(l, steps)
<1> DEFINE original == ObjectsOf(StepsBefore)
           resulting == original \cup ObjectsOf(steps)
<1>1. StepsBefore \in Seq(STRING) /\ StepsBefore # <<>>
  BY TextsAreStrings DEF StepsBefore
<1>2. /\ original \in SUBSET ObjectSet /\ IsFiniteSet(original)
      /\ resulting \in SUBSET ObjectSet /\ IsFiniteSet(resulting)
  <2>1. /\ original \in SUBSET ObjectSet /\ IsFiniteSet(original)
        /\ ObjectsOf(steps) \in SUBSET ObjectSet /\ IsFiniteSet(ObjectsOf(steps))
    BY <1>1, ObjectsOfSteps
  <2> HIDE DEF original
  <2>2. IsFiniteSet(original \cup ObjectsOf(steps))
    BY <2>1, FS_Union
  <2> QED BY <2>1, <2>2
<1> HIDE DEF original, resulting
<1>3. l = Objects(original, resulting, StepsBefore, steps)
  BY DEF ObjectsAfter, original, resulting
<1>4. l \in LogicalObjects /\ l.resulting = resulting
  BY <1>1, <1>2, <1>3, ObjectsAreOK
<1>5. l # None /\ Cardinality(l.resulting) \in Nat
  BY <1>2, <1>4, NoneIsNoEvidence, FS_CardinalityType
<1>6. /\ l.original = original /\ l.before = StepsBefore /\ l.after = steps
      /\ l.duplicates = Doubled(resulting)
  BY <1>3 DEF Objects
<1>7. /\ l.reached = (resulting # {} \/ StepsBefore # <<>> \/ steps # <<>>)
      /\ l.extra = (Doubled(resulting) > Doubled(original))
      /\ l.rerun = (\E k \in DOMAIN steps : steps[k] \in Range1(StepsBefore))
  BY <1>3 DEF Objects
<1>8. l.reached = TRUE /\ l.extra = FALSE /\ l.rerun = FALSE
  <2>1. (resulting # {} \/ StepsBefore # <<>> \/ steps # <<>>) = TRUE
    BY <1>1
  <2>2. l.reached = TRUE
    BY <1>7, <2>1, Zenon
  <2>3. (Doubled(resulting) > Doubled(original)) \in BOOLEAN
    OBVIOUS
  <2>4. l.extra \in BOOLEAN /\ l.rerun \in BOOLEAN
    BY <1>7, <2>3, Zenon
  <2> QED BY <2>2, <2>4
<1>9. Doubled(resulting) = 0 /\ Doubled(l.resulting) = 0
  BY <1>4, <1>6
<1>10. Duplication(l) = 0
  BY <1>4, <1>5, <1>6, <1>9 DEF Duplication
<1>11. LogicalFacts(l) =
         [ duplicates |-> 0, extra |-> 0 > Doubled(l.original),
           rerun |-> Range1(l.before) \cap Range1(l.after) # {},
           reached |-> \/ l.original # {} \/ l.resulting # {}
                       \/ l.before # <<>> \/ l.after # <<>> ]
  <2>1. 0 # None
    BY NoneIsNothing
  <2> QED BY <1>10, <2>1 DEF LogicalFacts
<1>12. (0 > Doubled(l.original)) = FALSE
  <2>1. ~(0 > Doubled(original))
    <3>1. Doubled(resulting) = 0 /\ ~(Doubled(resulting) > Doubled(original))
      BY <1>7, <1>9
    <3> QED BY <3>1
  <2> QED BY <1>6, <2>1
<1>13. (Range1(l.before) \cap Range1(l.after) # {}) = FALSE
  <2>1. ~(\E k \in DOMAIN steps : steps[k] \in Range1(StepsBefore))
    BY <1>7
  <2>2. Range1(StepsBefore) \cap Range1(steps) = {}
    BY <2>1 DEF Range1
  <2> QED BY <1>6, <2>2
<1>14. (\/ l.original # {} \/ l.resulting # {}
        \/ l.before # <<>> \/ l.after # <<>>) = TRUE
  BY <1>1, <1>6
<1>15. LogicalFacts(l) = [duplicates |-> 0, extra |-> FALSE, rerun |-> FALSE,
                          reached |-> TRUE]
  BY ONLY <1>11, <1>12, <1>13, <1>14, Zenon
<1>16. LogicalFacts(l) \in [duplicates : Nat, extra : BOOLEAN, rerun : BOOLEAN,
                            reached : BOOLEAN]
  BY <1>15
<1>17. LogicalFacts(l) # None
  BY <1>16, NoneIsNoEvidence
<1> QED
  BY <1>5, <1>6, <1>8, <1>15, <1>17 DEF Unrepeated

\* A passing synchronization resumed some step.
LEMMA SyncStandsUp ==
  ASSUME ValidCase(Case), InSync(Case), Case.approval # None,
         NEW r, CaseOK(r), Observed(Case, r), NEW row, RowOK(row), NEW completed,
         NEW steps \in Seq(STRING), steps # <<>>,
         seen.prior \in Seq(STRING), seen.atRetry \in Seq(STRING), seen.gen \in Maybe(Nat),
         NEW q, CaseOK(q), q = WithSync(r, row, completed, steps), q.status = "PASS"
  PROVE  CaseIssues(Case, q) = {}
<1>1. SyncedWell(q, r, row, completed, steps)
  BY ONLY PassingSync, CaseOK(r), q = WithSync(r, row, completed, steps), q.status = "PASS",
     ZenonT(30)
<1>2. /\ r.status = "PASS" /\ Kept(q, r, SyncedFields \cup {"scores"})
      /\ SyncedResult(q, r, row, steps)
      /\ SyncedAsToldTo(row, completed, steps)
      /\ q.scores.reliability = TRUE /\ q.scores.validation = r.scores.validation
      /\ q.scores.replay = r.scores.replay /\ q.scores.safety = TRUE
  BY <1>1, Zenon DEF SyncedWell
<1>3. /\ Case.recovery # None /\ Case.recovery.stage = "SYNCING"
      /\ Case.expected # None /\ Case.replay = None
      /\ Case.recovery.stage \in Domain!OrderStates /\ Case.recovery.code \in STRING
      /\ Case.recovery.final \in Domain!OrderStates
  <2>1. Case.recovery # None /\ Case.recovery.stage = "SYNCING"
    BY DEF InSync
  <2>2. Case.expected # None /\ Case.replay = None
        /\ Case.recovery.final \in Domain!OrderStates
    BY <2>1 DEF ValidCase, ValidRecovery
  <2> QED BY <2>1, <2>2, InjectionIsReadable
<1>4. /\ r.replay = None /\ r.scores.validation = ScoreValidation(Case, r)
      /\ r.scores.replay = None /\ ScoreValidation(Case, r) # FALSE
  <2>1. /\ r.replay = None
        /\ r.scores = [validation |-> ScoreValidation(Case, r), reliability |-> None,
                       replay |-> None, safety |-> ScoreExecutionSafety(Case, r)]
        /\ ScoreValidation(Case, r) # FALSE
    BY <1>2, Zenon DEF Observed
  <2>2. r.scores.validation = ScoreValidation(Case, r) /\ r.scores.replay = None
    BY <2>1
  <2> QED BY <2>1, <2>2, Zenon
<1>5. /\ q.replay = r.replay /\ q.status = r.status
      /\ q.route = r.route /\ q.level = r.level /\ q.issues = r.issues /\ q.state = r.state
  BY <1>2 DEF Kept, ResultFields, SyncedFields
<1>6. /\ ScoreValidation(Case, q) = TRUE /\ q.state # None /\ q.route # None
      /\ ScoreValidation(Case, q) = ScoreValidation(Case, r)
  <2>1. ScoreValidation(Case, q) = ScoreValidation(Case, r)
    BY <1>5, SameValidation
  <2> QED BY <1>3, <1>4, <2>1, GoodValidation
<1> DEFINE v == q.recovery
           l == q.logical
<1>7. /\ v.stage = "SYNCING" /\ v.code = Case.recovery.code
      /\ v.failedState = "FAILED_RETRYABLE" /\ v.origin = "SYNCING" /\ v.retryUsed = TRUE
      /\ v.genBefore = seen.gen /\ v.gen = Generation(row) /\ v.finalState = row.state
      /\ v.prior = seen.prior /\ v.atRetry = seen.atRetry /\ v.final = Receipt(row)
      /\ v.resumed = steps
      /\ v.receipts = SyncReceiptStatus(seen.prior, seen.atRetry, Receipt(row))
      /\ v.preserved = (SyncReceiptStatus(seen.prior, seen.atRetry, Receipt(row)) = "PRESERVED")
  BY <1>2, <1>3 DEF SyncedResult, SyncOf
<1>8. l = ObjectsAfter(steps) /\ l.duplicates = 0 /\ ~l.extra /\ ~l.rerun
  BY <1>2 DEF SyncedResult, SyncedAsToldTo
<1> HIDE DEF v, l
<1>9. /\ l # None /\ LogicalFacts(l) # None
      /\ LogicalFacts(l).duplicates = 0 /\ LogicalFacts(l).extra = FALSE
      /\ LogicalFacts(l).rerun = FALSE /\ LogicalFacts(l).reached = TRUE
      /\ l.extra = FALSE /\ l.rerun = FALSE /\ l.reached = TRUE
      /\ l.before = StepsBefore /\ l.after = steps
      /\ Cardinality(l.resulting) \in Nat
  <2>1. Unrepeated(l, steps)
    BY ONLY <1>8, steps \in Seq(STRING), NothingRepeated
  <2> QED BY <2>1 DEF Unrepeated
<1>10. /\ v.prior # <<>> /\ v.atRetry = v.prior /\ v.final = v.prior
       /\ v.receipts = "PRESERVED" /\ v.preserved = TRUE
  <2>1. SyncReceiptStatus(seen.prior, seen.atRetry, Receipt(row)) = "PRESERVED"
    BY <1>2 DEF SyncedAsToldTo
  <2>2. /\ seen.prior # <<>> /\ seen.atRetry = seen.prior /\ Receipt(row) = seen.prior
    BY <2>1 DEF SyncReceiptStatus
  <2> QED BY <1>7, <2>1, <2>2
<1>11. /\ v.genBefore \in Nat /\ v.gen = v.genBefore + 1 /\ v.finalState = Case.recovery.final
  BY <1>2, <1>7 DEF SyncedAsToldTo, Maybe
<1>12. v # None
  <2>1. q.recovery # None
    <3> DEFINE w == SyncOf(row, steps)
    <3>1. v = w
      BY <1>2 DEF SyncedResult, v
    <3>2. w = [x \in RecoveryFields |-> w[x]]
      BY DEF SyncOf, RecoveryFields
    <3> HIDE DEF w
    <3>3. v.gen \in Nat
      BY <1>11
    <3>4. "FAILED_RETRYABLE" \in Domain!OrderStates
      BY DEF Domain!OrderStates
    <3>5. Receipt(row) \in Seq(STRING)
      BY RowIsReadable
    <3>6. RecoveryOK(v)
      BY <1>3, <1>7, <1>10, <1>11, <3>3, <3>4, <3>5 DEF RecoveryOK, Maybe
    <3>7. v \in RecoveryEvidences
      BY <3>1, <3>2, <3>6, RecoveryType
    <3> QED BY <3>7, NoneIsNoEvidence DEF v
  <2> QED BY <2>1 DEF v
<1>13. /\ q.external = "COMPLETED" /\ q.eligible = TRUE
       /\ q.orderSync = [status |-> "COMPLETED", count |-> Len(StepsBefore \o steps)]
       /\ q.objects = [status |-> "COMPLETED", count |-> Cardinality(l.resulting)]
  BY <1>2, <1>8 DEF SyncedResult
<1>14. /\ Len(StepsBefore \o steps) = Len(l.before) + Len(l.after)
       /\ Len(StepsBefore \o steps) \in Nat
  <2>1. StepsBefore \in Seq(STRING)
    BY TextsAreStrings DEF StepsBefore
  <2> QED BY <1>9, <2>1
<1>15. SideEffectsObserved(q)
  BY <1>9, <1>13, <1>14, NoneIsNothing DEF SideEffectsObserved
<1>16. RecoveryComplete(Case, q)
  <2>1. /\ "FAILED_RETRYABLE" \in Domain!OrderStates /\ "SYNCING" \in Domain!OrderStates
    BY DEF Domain!OrderStates
  <2>2. /\ v.stage # None /\ v.code # None /\ v.failedState # None /\ v.origin # None
        /\ v.retryUsed # None /\ v.finalState # None /\ v.receipts # None
        /\ v.genBefore # None /\ v.gen # None /\ v.preserved # None
    <3>1. v.stage # None /\ v.code # None /\ v.failedState # None /\ v.origin # None
          /\ v.finalState # None
      BY <1>3, <1>7, <1>11, <2>1, NoneIsNothing, NoneAssumption
    <3>2. v.receipts # None
      BY <1>10, NoneIsNothing
    <3>3. v.retryUsed # None /\ v.preserved # None
      BY ONLY <1>7, <1>10, NoneIsNothing, Zenon
    <3>4. v.genBefore # None /\ v.gen # None
      BY <1>11, NoneIsNothing
    <3> QED BY <3>1, <3>2, <3>3, <3>4
  <2>3. q.external # None /\ q.eligible # None /\ LogicalFacts(q.logical) # None
    BY <1>9, <1>13, NoneIsNothing DEF l
  <2> QED BY <1>3, <1>12, <1>15, <2>2, <2>3 DEF RecoveryComplete, v
<1>17. RecoveryIssues(Case, q) = {}
  <2>1. /\ DerivedReceipts(Case, v).receipts = v.receipts
        /\ DerivedReceipts(Case, v).preserved = v.preserved
    BY <1>7 DEF DerivedReceipts
  <2> QED BY <1>16, <2>1, NoIssue DEF RecoveryIssues, v
<1>18. ScoreReliability(Case, q) = TRUE
  <2>1. FailedAsInjected(Case, v)
    BY <1>3, <1>7 DEF FailedAsInjected
  <2>2. ReceiptPreserved(v)
    BY <1>10 DEF ReceiptPreserved
  <2>3. v.genBefore # None /\ v.gen # None
    BY <1>11, NoneIsNothing
  <2>4. /\ q.orderSync = [status |-> "COMPLETED", count |-> Len(l.before) + Len(l.after)]
    BY <1>13, <1>14
  <2>5. ScoreSyncRecovery(Case, q) = TRUE
    BY <1>7, <1>9, <1>11, <1>13, <2>1, <2>2, <2>3, <2>4 DEF ScoreSyncRecovery, v, l
  <2> QED BY <1>3, <1>12, <2>5 DEF ScoreReliability, v
<1>19. ScoreExecutionSafety(Case, q) = TRUE
  BY <1>3, <1>12, <1>18 DEF ScoreExecutionSafety, v
<1>20. ReplayIssues(Case, q) = {} /\ ScoreReplay(Case, q) = None
  BY <1>3, <1>4, <1>5 DEF ReplayIssues, ScoreReplay
<1>21. EligibilityIssues(Case, q) = {}
  BY NoIssue DEF EligibilityIssues
<1>22. LogicalIssues(q) = {}
  <2> DEFINE f == LogicalFacts(l)
  <2>1. <<l.extra, l.rerun, l.reached>> = <<f.extra, f.rerun, f.reached>>
    BY <1>9
  <2>2. If(<<l.extra, l.rerun, l.reached>> # <<f.extra, f.rerun, f.reached>>,
           "logical_object_flags") = {}
    BY <2>1, NoIssue
  <2> QED BY <1>9, <2>2 DEF LogicalIssues, l
<1>23. ValidationComplete(Case, q) /\ ExecutionComplete(Case, q)
  BY <1>6, <1>16 DEF ValidationComplete, ExecutionComplete
<1>24. Doubtless(Case, q)
  BY <1>2, <1>3, <1>4, <1>5, <1>6, <1>16, <1>17, <1>18, <1>19, <1>20, <1>21, <1>22, <1>23
  DEF Doubtless
<1> QED
  BY <1>24, NothingToDoubt

(***************************************************************************)
(* The verdicts of all cases.                                              *)
(***************************************************************************)
\* No synchronization completed an order without taking any step.
NothingSkipped == \A w \in wrong : w[2] # "skippedAll"

\* Each step belongs to one kind of case.
StepFits ==
  /\ step = "close" => Case.recovery = None /\ Case.replay = None
  /\ step \in {"replay", "close replay"} => Case.recovery = None /\ Case.replay # None
  /\ step \in RecoverySteps => Case.recovery # None /\ Case.approval = None
  /\ step \in SyncSteps => Case.recovery # None /\ Case.approval # None

\* What the case at work has observed was judged by what it says.
Watched ==
  /\ StepFits
  /\ Observed(Case, seen.first)
  /\ Case.expected = None =>
       /\ seen.first.state # None
       /\ step \in {"probe", "replay"} => rows[Name].state # None
       /\ step = "probe" /\ rows[Name].state = "FAILED_RETRYABLE" => rows[Name].origin # None
  /\ step = "close replay" =>
       /\ Observed(Case, seen.second)
       /\ Case.expected = None => seen.second.state # None
  /\ step = "close recovery" =>
       /\ Observed(Case, seen.second)
       /\ seen.second.status # "ERROR" => seen.second.idempotent = TRUE

\* The cases that passed stand up to their evidence.
Standing ==
  NothingSkipped =>
    \A n \in DOMAIN results :
      results[n].status = "PASS" => CaseIssues(Corpus[n], results[n]) = {}

\* What finished stands up to its evidence, and what is at work will.
Backed == Standing /\ (phase = "cases" /\ step # "intake" => Watched)

\* What the application does wrong is not forgotten.
LEMMA HappensGrows ==
  ASSUME NEW w, Happens(w)
  PROVE  wrong \subseteq wrong' /\ (NothingSkipped' => NothingSkipped /\ w # "skippedAll")
<1>1. CASE w = "none"
  BY <1>1 DEF Happens, NothingSkipped
<1>2. CASE w # "none"
  <2>1. wrong' = wrong \cup {<<Name, w, step>>}
    BY <1>2 DEF Happens
  <2>2. <<Name, w, step>>[2] = w
    OBVIOUS
  <2> QED BY <2>1, <2>2 DEF NothingSkipped
<1> QED
  BY <1>1, <1>2

\* The result that finishes a case, and those that were there.
LEMMA Finished ==
  ASSUME NEW r, Finish(r)
  PROVE  /\ DOMAIN results' = DOMAIN results \cup {Name}
         /\ results'[Name] = r
         /\ \A n \in DOMAIN results \ {Name} : results'[n] = results[n]
         /\ step' = "intake" /\ at' = at + 1
<1> DEFINE one == [n \in {Name} |-> r]
<1>1. DOMAIN one = {Name} /\ one[Name] = r
  OBVIOUS
<1>2. results' = one ++ results /\ step' = "intake" /\ at' = at + 1
  BY DEF Finish
<1> HIDE DEF one
<1>3. /\ DOMAIN (one ++ results) = DOMAIN one \cup DOMAIN results
      /\ \A x \in DOMAIN one : (one ++ results)[x] = one[x]
      /\ \A x \in DOMAIN results \ DOMAIN one : (one ++ results)[x] = results[x]
  BY Merged
<1> QED
  BY <1>1, <1>2, <1>3

\* A case that finishes with a result that stands up.
LEMMA FinishBacks ==
  ASSUME Backed, NEW r, Finish(r), wrong \subseteq wrong',
         NothingSkipped' /\ r.status = "PASS" => CaseIssues(Case, r) = {}
  PROVE  Backed'
<1>1. /\ DOMAIN results' = DOMAIN results \cup {Name}
      /\ results'[Name] = r
      /\ \A n \in DOMAIN results \ {Name} : results'[n] = results[n]
      /\ step' = "intake"
  BY Finished
<1>2. NothingSkipped' => NothingSkipped
  BY DEF NothingSkipped
<1>3. ASSUME NothingSkipped', NEW n \in DOMAIN results', results'[n].status = "PASS"
      PROVE  CaseIssues(Corpus[n], results'[n]) = {}
  <2>1. CASE n = Name
    BY <1>1, <1>3, <2>1 DEF Case
  <2>2. CASE n # Name
    BY <1>1, <1>2, <1>3, <2>2 DEF Backed, Standing
  <2> QED BY <2>1, <2>2
<1>4. Standing'
  BY <1>3 DEF Standing
<1> QED
  BY <1>1, <1>4 DEF Backed

\* A case that goes on.
LEMMA GoesOnBacked ==
  ASSUME Backed, results' = results, wrong \subseteq wrong', Watched'
  PROVE  Backed'
<1>1. NothingSkipped' => NothingSkipped
  BY DEF NothingSkipped
<1> QED
  BY <1>1 DEF Backed, Standing

\* A mismatch and an ERROR are no PASS.
LEMMA FailureBacks ==
  ASSUME Assembled, Backed, NEW t, At(t), t # "intake", wrong \subseteq wrong',
         \/ \E p : Finish(ErrorResult(p))
         \/ \E scores : Finish(BenchmarkFailure(seen.first, scores))
  PROVE  Backed'
<1>1. ASSUME NEW p, Finish(ErrorResult(p)) PROVE Backed'
  <2>1. ErrorResult(p).status # "PASS"
    BY DEF ErrorResult
  <2> QED BY <1>1, <2>1, FinishBacks
<1>2. CASE \E scores : Finish(BenchmarkFailure(seen.first, scores))
  <2>1. PICK scores : Finish(BenchmarkFailure(seen.first, scores))
    BY <1>2
  <2>2. DOMAIN seen.first = ResultFields
    BY SeenAtWork DEF CaseOK
  <2>3. BenchmarkFailure(seen.first, scores).status # "PASS"
    BY <2>2, MismatchFails
  <2> QED BY <2>1, <2>3, FinishBacks
<1> QED
  BY <1>1, <1>2

\* What is watched at a step.
LEMMA WatchedAt ==
  ASSUME Assembled, Backed, NEW s, At(s), s # "intake"
  PROVE  Watched /\ StepFits /\ Observed(Case, seen.first) /\ step = s /\ Row = rows[Name]
         /\ (Case.expected = None => seen.first.state # None)
BY AtWork DEF Backed, Watched

\* Without declared validation truth no order fails first, and none is without a state.
LEMMA UntoldRow ==
  ASSUME ValidCase(Case), Case.expected = None,
         NEW o \in FirstIntake(Case) \cup {Outcome(ProviderFailed, "providerDown")}
  PROVE  /\ o.row.state # None
         /\ o.row.state = "FAILED_RETRYABLE" => o.row.origin # None
<1>1. /\ "READY_FOR_APPROVAL" # None /\ "APPROVED" # None /\ "PROCESSING" # None
      /\ "FAILED_RETRYABLE" # None
  <2>1. {"READY_FOR_APPROVAL", "APPROVED", "PROCESSING", "FAILED_RETRYABLE"}
          \subseteq Domain!OrderStates
    BY DEF Domain!OrderStates
  <2> QED BY <2>1, NoneIsNothing
<1>2. CASE o \in FirstIntake(Case)
  <2>1. Case.recovery = None
    BY DEF ValidCase
  <2> DEFINE right == RightRow(Case)
  <2>2. DOMAIN right = RowFields /\ right.state = "READY_FOR_APPROVAL"
    BY DEF RightRow, NewRow, TruthState, RowFields
  <2> HIDE DEF right
  <2>3. /\ Queued(right).state = right.state
        /\ DOMAIN Queued(right) = RowFields
    BY <2>2 DEF Queued, RowFields
  <2>4. /\ [right EXCEPT !.state = "APPROVED", !.approvers = {"document"}].state = "APPROVED"
        /\ [Queued(right) EXCEPT !.approvers = {"document"}].state = right.state
        /\ [right EXCEPT !.linked = @ - 1].state = right.state
        /\ [right EXCEPT !.stray = @ + 1].state = right.state
        /\ [right EXCEPT !.bound = FALSE].state = right.state
    BY <2>2, <2>3 DEF RowFields
  <2>5. o.row \in { right, [right EXCEPT !.bound = FALSE],
                    [right EXCEPT !.state = "APPROVED", !.approvers = {"document"}],
                    [Queued(right) EXCEPT !.approvers = {"document"}],
                    [right EXCEPT !.linked = @ - 1], [right EXCEPT !.stray = @ + 1] }
    BY <1>2, <2>1 DEF FirstIntake, FailsFirst, Spoiled, Outcome, right
  <2>6. o.row.state \in {"READY_FOR_APPROVAL", "APPROVED"}
    BY <2>2, <2>4, <2>5
  <2> QED BY <1>1, <2>6
<1>3. CASE o = Outcome(ProviderFailed, "providerDown")
  BY <1>1, <1>3 DEF Outcome, ProviderFailed, NewRow
<1> QED
  BY <1>2, <1>3

\* The first intake.
LEMMA IntakeBacks ==
  ASSUME Assembled, Backed, Intake
  PROVE  Backed'
<1>1. At("intake")
  BY DEF Intake
<1>2. PICK o \in FirstIntake(Case)
               \cup (IF Live(Case) THEN {Outcome(ProviderFailed, "providerDown")} ELSE {}) :
        /\ Happens(o.wrong)
        /\ Stored(o.row)
        /\ Continue("probe",
             [first |-> ResultFromIntake(Case, o.row, Name, FALSE, "COMPLETED",
                          Provider(1, IF o.wrong = "providerDown" THEN 1 ELSE 0))])
  BY DEF Intake
<1> DEFINE r == ResultFromIntake(Case, o.row, Name, FALSE, "COMPLETED",
                  Provider(1, IF o.wrong = "providerDown" THEN 1 ELSE 0))
           news == [first |-> r]
<1>3. Observed(Case, r) /\ r.state = o.row.state
  <2> DEFINE p == Provider(1, IF o.wrong = "providerDown" THEN 1 ELSE 0)
             again == FALSE
             row == o.row
             boundary == "COMPLETED"
  <2>1. r = ResultFromIntake(Case, row, Name, again, boundary, p)
    OBVIOUS
  <2> HIDE DEF p, r, again, row, boundary
  <2>2. Tells(r, Case, row)
    BY ONLY <2>1, IntakeTells
  <2> QED BY <2>2 DEF Tells, row
<1> HIDE DEF r
<1>4. DOMAIN news = {"first"} /\ news.first = r /\ Continue("probe", news)
  BY <1>2 DEF r
<1> HIDE DEF news
<1>5. /\ seen'.first = r /\ step' = "probe" /\ Name' = Name /\ Case' = Case
      /\ results' = results
  BY <1>4, Continued
<1>6. RowsOK /\ Name \in DOMAIN Corpus /\ ValidCase(Case)
  BY <1>1, AtWork
<1>7. rows'[Name] = o.row
  BY <1>2, <1>6 DEF Stored, RowsOK
<1>8. Case.expected = None =>
        o.row.state # None /\ (o.row.state = "FAILED_RETRYABLE" => o.row.origin # None)
  BY <1>2, <1>6, UntoldRow
<1>9. Watched'
  BY <1>3, <1>5, <1>7, <1>8 DEF Watched, StepFits, RecoverySteps, SyncSteps, BridgeSteps
<1> QED
  BY <1>2, <1>5, <1>9, HappensGrows, GoesOnBacked

\* An intake that raised is an ERROR.
LEMMA IntakeRaisesBacks ==
  ASSUME Assembled, Backed, IntakeRaises
  PROVE  Backed'
<1>1. PICK calls \in {0, 1} :
        LET r == ErrorResult(Provider(calls, 0))
        IN  Finish(IF Scenario = "plain"
                   THEN [r EXCEPT !.authority =
                            AuthorityEvidence(Case, r, None, "NOT_APPLICABLE", NoRetryProbe)]
                   ELSE r)
  BY DEF IntakeRaises
<1> DEFINE r == ErrorResult(Provider(calls, 0))
           a == AuthorityEvidence(Case, r, None, "NOT_APPLICABLE", NoRetryProbe)
<1>2. r.status = "ERROR" /\ DOMAIN r = ResultFields
  BY DEF ErrorResult, ResultFields
<1>3. Finish(r) \/ Finish([r EXCEPT !.authority = a])
  BY <1>1
<1> HIDE DEF r, a
<1>4. [r EXCEPT !.authority = a].status = "ERROR"
  BY <1>2 DEF ResultFields
<1>5. wrong \subseteq wrong'
  BY HappensGrows DEF IntakeRaises
<1> QED
  BY <1>2, <1>3, <1>4, <1>5, FinishBacks

\* What a probe leaves of an order.
LEMMA ProbedRow ==
  ASSUME NEW r, NEW row, RowOK(row), NEW p \in Probing(r, row),
         row.state # None, r.state = "FAILED_RETRYABLE" => row.origin # None
  PROVE  p.row.state # None
<1>1. "APPROVED" # None
  BY NoneIsNothing DEF Domain!OrderStates
<1>2. \A actor : Approved(row, actor).state = "APPROVED" /\ Retried(row, actor).state = row.origin
  <2>1. ASSUME NEW actor PROVE Approved(row, actor).state = "APPROVED"
    <3> DEFINE q == Queued(Announced(row))
    <3>1. DOMAIN q = RowFields
      BY DEF Queued, Announced, RowOK, RowFields
    <3> HIDE DEF q
    <3> QED BY <3>1 DEF Approved, q, RowFields
  <2>2. ASSUME NEW actor PROVE Retried(row, actor).state = row.origin
    BY DEF Retried, RowOK, RowFields
  <2> QED BY <2>1, <2>2
<1> DEFINE traced == [row EXCEPT !.audit = @ + 1]
<1>3. traced.state = row.state
  BY DEF RowOK, RowFields
<1>4. ASSUME NEW granted, granted.state # None, p \in Unauthorized(row, granted)
      PROVE  p.row.state # None
  <2>1. p.row = row \/ p.row = granted \/ p.row = traced
    BY <1>4 DEF Unauthorized
  <2> HIDE DEF traced
  <2> QED BY <1>3, <1>4, <2>1
<1> HIDE DEF traced
<1>5. CASE r.state = "READY_FOR_APPROVAL"
  BY <1>1, <1>2, <1>4, <1>5 DEF Probing
<1>6. CASE r.state = "FAILED_RETRYABLE" /\ row.state = r.state
  BY <1>2, <1>4, <1>6 DEF Probing
<1>7. CASE r.state # "READY_FOR_APPROVAL" /\ ~(r.state = "FAILED_RETRYABLE" /\ row.state = r.state)
  BY <1>7 DEF Probing
<1> QED
  BY <1>5, <1>6, <1>7

\* The scenario that follows the probe fits the case.
LEMMA ScenarioFits ==
  ASSUME ValidCase(Case)
  PROVE  LET s == [plain |-> "close", duplicate |-> "replay", recovery |-> "retry",
                   sync |-> "approve"][Scenario]
         IN  \/ s = "close" /\ Case.recovery = None /\ Case.replay = None
             \/ s = "replay" /\ Case.recovery = None /\ Case.replay # None
             \/ s = "retry" /\ Case.recovery # None /\ Case.approval = None
             \/ s = "approve" /\ Case.recovery # None /\ Case.approval # None
<1>1. CASE Case.recovery = None /\ Case.replay = None
  BY <1>1 DEF Scenario
<1>2. CASE Case.recovery = None /\ Case.replay # None
  BY <1>2 DEF Scenario
<1>3. CASE Case.recovery # None /\ Case.approval = None
  BY <1>3 DEF Scenario
<1>4. CASE Case.recovery # None /\ Case.approval # None
  BY <1>4 DEF Scenario
<1> QED
  BY <1>1, <1>2, <1>3, <1>4

\* The probes of the first intake.
LEMMA ProbeBacks ==
  ASSUME Assembled, Backed, Probe
  PROVE  Backed'
<1>1. At("probe") /\ UNCHANGED <<phase, at, results>>
  BY DEF Probe, At
<1>2. PICK p \in Probing(seen.first, Row) :
        /\ Happens(p.wrong) /\ Stored(p.row)
        /\ seen' = [seen EXCEPT !.first = Probed(seen.first, Row, p)]
  BY DEF Probe
<1> DEFINE r == Probed(seen.first, Row, p)
<1>3. /\ "first" \in DOMAIN seen /\ CaseOK(seen.first) /\ RowOK(Row)
  BY <1>1, SeenAtWork
<1>4. Kept(r, seen.first, {"authority"})
  BY <1>2, <1>3, ProbedKeepsContract
<1>5. /\ Watched /\ Observed(Case, seen.first) /\ step = "probe" /\ Row = rows[Name]
      /\ (Case.expected = None => seen.first.state # None)
  BY <1>1, WatchedAt
<1>6. seen'.first = r /\ Name' = Name /\ Case' = Case
  BY <1>1, <1>2, <1>3 DEF Name, Case
<1> HIDE DEF r
<1>7. Observed(Case, r)
  BY <1>4, <1>5, ObservedKept
<1>8. r.state = seen.first.state
  BY <1>4 DEF Kept, ResultFields
<1>9. ValidCase(Case) /\ Name \in DOMAIN Corpus /\ RowsOK
  BY <1>1, AtWork
<1>10. rows'[Name] = p.row
  BY <1>2, <1>9 DEF Stored, RowsOK
<1>11. Case.expected = None => p.row.state # None
  <2>1. ASSUME Case.expected = None PROVE p.row.state # None
    <3>1. Row.state # None /\ (Row.state = "FAILED_RETRYABLE" => Row.origin # None)
      BY <1>5, <2>1 DEF Watched
    <3>2. CASE seen.first.state = "FAILED_RETRYABLE" /\ Row.state # "FAILED_RETRYABLE"
      BY <1>2, <3>1, <3>2 DEF Probing
    <3>3. CASE ~(seen.first.state = "FAILED_RETRYABLE" /\ Row.state # "FAILED_RETRYABLE")
      BY <1>2, <1>3, <3>1, <3>3, ProbedRow
    <3> QED BY <3>2, <3>3
  <2> QED BY <2>1
<1>12. /\ step' \in {"close", "replay", "retry", "approve"} /\ StepFits'
  <2> DEFINE s == [plain |-> "close", duplicate |-> "replay", recovery |-> "retry",
                   sync |-> "approve"][Scenario]
  <2>1. step' = s
    BY DEF Probe
  <2>2. \/ s = "close" /\ Case.recovery = None /\ Case.replay = None
        \/ s = "replay" /\ Case.recovery = None /\ Case.replay # None
        \/ s = "retry" /\ Case.recovery # None /\ Case.approval = None
        \/ s = "approve" /\ Case.recovery # None /\ Case.approval # None
    BY <1>9, ScenarioFits
  <2> HIDE DEF s
  <2> QED BY <1>6, <2>1, <2>2 DEF StepFits, RecoverySteps, SyncSteps, BridgeSteps
<1>13. Watched'
  BY <1>5, <1>6, <1>7, <1>8, <1>10, <1>11, <1>12 DEF Watched
<1> QED
  BY <1>1, <1>2, <1>13, HappensGrows, GoesOnBacked

\* The end of a plain case.
LEMMA CloseBacks ==
  ASSUME Assembled, Backed, Close
  PROVE  Backed'
<1>1. At("close") /\ Finish(seen.first) /\ wrong' = wrong
  BY DEF Close
<1>2. /\ Watched /\ StepFits /\ Observed(Case, seen.first) /\ step = "close"
      /\ (Case.expected = None => seen.first.state # None)
  BY <1>1, WatchedAt
<1>3. ValidCase(Case) /\ Case.recovery = None /\ Case.replay = None
  BY <1>1, <1>2, AtWork DEF StepFits
<1>4. seen.first.status = "PASS" => CaseIssues(Case, seen.first) = {}
  BY <1>2, <1>3, PlainStandsUp
<1> QED
  BY <1>1, <1>4, FinishBacks

\* A redelivery leaves an order with a state.
LEMMA ReplayedState ==
  ASSUME NEW row, RowOK(row), row.state # None, NEW o \in ReplayedIntake(row)
  PROVE  o.row.state # None
<1> DEFINE misrouted == [row EXCEPT !.state = OtherRoute(@)]
<1>1. o.row \in {row, Announced(row), Queued(row), misrouted}
  BY DEF ReplayedIntake
<1>2. OtherRoute(row.state) # None
  BY NoneIsNothing DEF OtherRoute, Domain!OrderStates
<1>3. /\ misrouted.state = OtherRoute(row.state)
      /\ Announced(row).state = row.state /\ Queued(row).state = row.state
  BY DEF RowOK, RowFields, Announced, Queued
<1> HIDE DEF misrouted
<1> QED
  BY <1>1, <1>2, <1>3

\* The redelivery of a duplicate.
LEMMA ReplayBacks ==
  ASSUME Assembled, Backed, Replay
  PROVE  Backed'
<1>1. At("replay")
  BY DEF Replay
<1>2. PICK o \in ReplayedIntake(Row) :
        /\ Happens(o.wrong) /\ Stored(o.row)
        /\ Continue("close replay",
             [ second |-> ResultFromIntake(Case, o.row, Name, TRUE, "STANDING_DOWN",
                                           Provider(1 + o.calls, seen.first.provider.failed)),
               before |-> Row, calls |-> o.calls, created |-> 1 + o.created ])
  BY DEF Replay
<1> DEFINE p == Provider(1 + o.calls, seen.first.provider.failed)
           again == TRUE
           row == o.row
           boundary == "STANDING_DOWN"
           r == ResultFromIntake(Case, row, Name, again, boundary, p)
           news == [second |-> r, before |-> Row, calls |-> o.calls,
                    created |-> 1 + o.created]
<1>3. "first" \in DOMAIN seen /\ RowOK(Row)
  BY <1>1, SeenAtWork
<1>4. /\ Watched /\ StepFits /\ Observed(Case, seen.first) /\ step = "replay"
      /\ Row = rows[Name] /\ (Case.expected = None => seen.first.state # None)
  BY <1>1, WatchedAt
<1>5. Continue("close replay", news)
  BY <1>2
<1>6. r = ResultFromIntake(Case, row, Name, again, boundary, p)
  OBVIOUS
<1> HIDE DEF r, p, again, row, boundary
<1>7. Tells(r, Case, row)
  BY ONLY <1>6, IntakeTells
<1>8. DOMAIN news = {"second", "before", "calls", "created"} /\ news.second = r
  OBVIOUS
<1> HIDE DEF news
<1>9. /\ step' = "close replay" /\ Name' = Name /\ Case' = Case /\ results' = results
      /\ seen'.first = seen.first /\ seen'.second = r
  BY <1>3, <1>5, <1>8, Continued
<1>10. Case.expected = None => o.row.state # None
  <2>1. ASSUME Case.expected = None PROVE o.row.state # None
    <3>1. Row.state # None
      BY <1>4, <2>1 DEF Watched
    <3> QED BY <1>2, <1>3, <3>1, ReplayedState
  <2> QED BY <2>1
<1>11. Observed(Case, r) /\ r.state = o.row.state
  BY <1>7 DEF Tells, row
<1>12. StepFits'
  BY <1>4, <1>9 DEF StepFits, RecoverySteps, SyncSteps, BridgeSteps
<1>13. Watched'
  BY <1>4, <1>9, <1>10, <1>11, <1>12 DEF Watched
<1> QED
  BY <1>2, <1>9, <1>13, HappensGrows, GoesOnBacked

\* The verdict of a duplicate.
LEMMA CloseReplayBacks ==
  ASSUME Assembled, Backed, CloseReplay
  PROVE  Backed'
<1>1. At("close replay")
  BY DEF CloseReplay
<1>2. PICK p \in Probing(seen.second, Row) :
        /\ Happens(p.wrong) /\ Stored(p.row)
        /\ Finish(WithReplay(Probed(seen.second, Row, p), p.row))
  BY DEF CloseReplay
<1>3. /\ CaseOK(seen.first) /\ CaseOK(seen.second)
      /\ RowOK(seen.before) /\ seen.calls \in Nat /\ seen.created \in Nat /\ RowOK(Row)
  <2>1. SeenOK /\ step = "close replay"
    BY <1>1, SeenAtWork
  <2> QED BY <1>1, <2>1, SeenAtWork DEF SeenOK
<1> DEFINE r == Probed(seen.second, Row, p)
           q == WithReplay(r, p.row)
<1>4. RowOK(p.row) /\ CaseOK(r) /\ Kept(r, seen.second, {"authority"})
  BY <1>2, <1>3, ProbedKeepsContract
<1>5. /\ Watched /\ StepFits /\ step = "close replay"
  BY <1>1, WatchedAt
<1>6. /\ Observed(Case, seen.second) /\ (Case.expected = None => seen.second.state # None)
      /\ Case.recovery = None /\ Case.replay # None
  BY <1>5 DEF Watched, StepFits
<1> HIDE DEF r
<1>7. Observed(Case, r) /\ r.state = seen.second.state
  BY <1>4, <1>6, ObservedKept DEF Kept, ResultFields
<1>8. ValidCase(Case)
  BY <1>1, AtWork
<1>9. q = WithReplay(r, p.row) /\ Finish(q)
  BY <1>2 DEF r
<1> HIDE DEF q
<1>10. q.status = "PASS" => CaseIssues(Case, q) = {}
  <2>1. Case.expected = None => r.state # None
    BY <1>6, <1>7
  <2> QED BY <1>3, <1>4, <1>6, <1>7, <1>8, <1>9, <2>1, ReplayStandsUp
<1> QED
  BY <1>2, <1>9, <1>10, HappensGrows, FinishBacks

\* A first intake that did not fail, where it should have.
LEMMA NotFailedBacks ==
  ASSUME Assembled, Backed, NotFailed
  PROVE  Backed'
BY FailureBacks DEF NotFailed

\* The human retry of a failed intake.
LEMMA RetryFailedBacks ==
  ASSUME Assembled, Backed, RetryFailed
  PROVE  Backed'
<1>1. At("retry")
  BY DEF RetryFailed
<1>2. PICK o \in Retry(Row) :
        /\ Happens(o.wrong)
        /\ Continue("resume", [ origin |-> Row.origin, prior |-> Receipt(Row),
                                retrier |-> o.row.retrier, retryState |-> o.row.state ])
  BY DEF RetryFailed
<1> DEFINE news == [ origin |-> Row.origin, prior |-> Receipt(Row),
                     retrier |-> o.row.retrier, retryState |-> o.row.state ]
<1>3. "first" \in DOMAIN seen
  BY <1>1, SeenAtWork
<1>4. DOMAIN news = {"origin", "prior", "retrier", "retryState"} /\ Continue("resume", news)
  BY <1>2
<1> HIDE DEF news
<1>5. /\ step' = "resume" /\ Case' = Case /\ results' = results /\ seen'.first = seen.first
  BY <1>3, <1>4, Continued
<1>6. /\ StepFits /\ Observed(Case, seen.first) /\ step = "retry"
      /\ (Case.expected = None => seen.first.state # None)
  BY <1>1, WatchedAt
<1>7. StepFits'
  BY <1>5, <1>6 DEF StepFits, RecoverySteps, SyncSteps, BridgeSteps
<1>8. Watched'
  BY <1>5, <1>6, <1>7 DEF Watched
<1> QED
  BY <1>2, <1>5, <1>8, HappensGrows, GoesOnBacked

\* Whatever the intake after the retry is observed to have done.
LEMMA SecondBacks ==
  ASSUME Assembled, Backed, At("resume"), NEW r, Observed(Case, r),
         r.status # "ERROR" => r.idempotent = TRUE,
         Continue("close recovery", [second |-> r]), wrong \subseteq wrong'
  PROVE  Backed'
<1> DEFINE news == [second |-> r]
<1>1. "first" \in DOMAIN seen
  BY SeenAtWork
<1>2. DOMAIN news = {"second"} /\ news.second = r /\ Continue("close recovery", news)
  OBVIOUS
<1> HIDE DEF news
<1>3. /\ step' = "close recovery" /\ Case' = Case /\ results' = results
      /\ seen'.first = seen.first /\ seen'.second = r
  BY <1>1, <1>2, Continued
<1>4. /\ StepFits /\ Observed(Case, seen.first) /\ step = "resume"
      /\ (Case.expected = None => seen.first.state # None)
  BY WatchedAt
<1>5. StepFits'
  BY <1>3, <1>4 DEF StepFits, RecoverySteps, SyncSteps, BridgeSteps
<1>6. Watched'
  BY <1>3, <1>4, <1>5 DEF Watched
<1> QED
  BY <1>3, <1>6, GoesOnBacked

\* The intake after the retry.
LEMMA ResumeBacks ==
  ASSUME Assembled, Backed, Resume
  PROVE  Backed'
<1>1. At("resume")
  BY DEF Resume
<1>2. PICK o \in ResumedIntake(Case, Row) :
        /\ Happens(o.wrong)
        /\ Continue("close recovery",
             [second |-> ResultFromIntake(Case, o.row, Name, TRUE, "COMPLETED",
                                          Provider(2, 0))])
  BY DEF Resume
<1> DEFINE p == Provider(2, 0)
           again == TRUE
           row == o.row
           boundary == "COMPLETED"
           r == ResultFromIntake(Case, row, Name, again, boundary, p)
<1>3. Continue("close recovery", [second |-> r])
  BY <1>2
<1>4. r = ResultFromIntake(Case, row, Name, again, boundary, p)
  OBVIOUS
<1> HIDE DEF r, p, again, row, boundary
<1>5. Tells(r, Case, row) /\ r.idempotent = again
  BY ONLY <1>4, IntakeTells
<1>6. Observed(Case, r) /\ r.idempotent = TRUE
  BY <1>5 DEF Tells, again
<1> QED
  BY <1>1, <1>2, <1>3, <1>6, HappensGrows, SecondBacks

\* The intake after the retry raises.
LEMMA ResumeRaisesBacks ==
  ASSUME Assembled, Backed, ResumeRaises
  PROVE  Backed'
<1>1. /\ At("resume") /\ Happens("raised")
      /\ Continue("close recovery", [second |-> ErrorResult(Provider(1, 0))])
  BY DEF ResumeRaises
<1>2. Observed(Case, ErrorResult(Provider(1, 0)))
      /\ ErrorResult(Provider(1, 0)).status = "ERROR"
  BY ErrorIsObserved
<1> QED
  BY <1>1, <1>2, HappensGrows, SecondBacks

\* The verdict of a recovery.
LEMMA CloseRecoveryBacks ==
  ASSUME Assembled, Backed, CloseRecovery
  PROVE  Backed'
<1>1. At("close recovery")
  BY DEF CloseRecovery
<1>2. PICK p \in Probing(seen.second, Row) :
        /\ Happens(p.wrong)
        /\ Finish(WithRecovery(Probed(seen.second, Row, p), p.row))
  BY DEF CloseRecovery
<1>3. CaseOK(seen.second) /\ RowOK(Row) /\ seen.prior \in Seq(STRING)
  <2>1. RowOK(Row)
    <3>1. "close recovery" # "intake"
      OBVIOUS
    <3> QED BY <1>1, <3>1, SeenAtWork
  <2> QED BY <1>1, <2>1, SeenOfRecovery
<1> DEFINE r == Probed(seen.second, Row, p)
           q == WithRecovery(r, p.row)
<1>4. RowOK(p.row) /\ CaseOK(r) /\ Kept(r, seen.second, {"authority"})
  BY <1>2, <1>3, ProbedKeepsContract
<1>5. /\ Watched /\ StepFits /\ step = "close recovery"
  BY <1>1, WatchedAt
<1>6. /\ Observed(Case, seen.second)
      /\ (seen.second.status # "ERROR" => seen.second.idempotent = TRUE)
      /\ Case.recovery # None /\ Case.approval = None
  BY <1>5 DEF Watched, StepFits, RecoverySteps
<1>7. q = WithRecovery(r, p.row) /\ Finish(q)
  BY <1>2
<1> HIDE DEF r
<1>8. Observed(Case, r) /\ r.status = seen.second.status /\ r.idempotent = seen.second.idempotent
  BY <1>4, <1>6, ObservedKept DEF Kept, ResultFields
<1>9. ValidCase(Case)
  BY <1>1, AtWork
<1> HIDE DEF q
<1>10. q.status = "PASS" => CaseIssues(Case, q) = {}
  BY <1>3, <1>4, <1>6, <1>7, <1>8, <1>9, RecoveryStandsUp
<1> QED
  BY <1>2, <1>7, <1>10, HappensGrows, FinishBacks

\* A synchronization goes on.
LEMMA SyncGoesOnBacked ==
  ASSUME Assembled, Backed, NEW t \in SyncSteps, At(t), NEW s \in SyncSteps, NEW news,
         Continue(s, news), "first" \notin DOMAIN news, wrong \subseteq wrong'
  PROVE  Backed'
<1>1. t # "intake"
  BY DEF SyncSteps, BridgeSteps
<1>2. "first" \in DOMAIN seen
  BY <1>1, SeenAtWork
<1>3. step' = s /\ Case' = Case /\ results' = results /\ seen'.first = seen.first
  BY <1>2, Continued
<1>4. /\ StepFits /\ Observed(Case, seen.first) /\ step = t
      /\ (Case.expected = None => seen.first.state # None)
  BY <1>1, WatchedAt
<1>5. StepFits'
  BY <1>3, <1>4 DEF StepFits, RecoverySteps, SyncSteps, BridgeSteps
<1>6. s \notin {"probe", "replay", "close replay", "close recovery"}
  BY DEF SyncSteps, BridgeSteps
<1>7. Watched'
  BY <1>3, <1>4, <1>5, <1>6 DEF Watched
<1> QED
  BY <1>3, <1>7, GoesOnBacked

\* The steps before the synchronization.
LEMMA SyncBacks ==
  ASSUME Assembled, Backed,
         ApproveOrder \/ ClaimAndBridge \/ Exhaust \/ ProbeRetry \/ RetrySync
  PROVE  Backed'
<1>1. \A w : Happens(w) => wrong \subseteq wrong'
  BY HappensGrows
<1>2. ASSUME NEW t \in SyncSteps, At(t), wrong \subseteq wrong',
             \/ Finish(ErrorResult(seen.first.provider))
             \/ \E scores : Finish(BenchmarkFailure(seen.first, scores))
             \/ \E s \in SyncSteps : \E news : Continue(s, news) /\ "first" \notin DOMAIN news
      PROVE  Backed'
  <2>1. t # "intake"
    BY DEF SyncSteps, BridgeSteps
  <2> QED BY <1>2, <2>1, FailureBacks, SyncGoesOnBacked
<1>3. CASE ApproveOrder
  <2>1. At("approve") /\ wrong \subseteq wrong'
    BY <1>1, <1>3 DEF ApproveOrder, Raised
  <2>2. Finish(ErrorResult(seen.first.provider)) \/ Continue("claim", <<>>)
    BY <1>3 DEF ApproveOrder, Raised
  <2>3. "first" \notin DOMAIN <<>>
    OBVIOUS
  <2> QED BY <1>2, <2>1, <2>2, <2>3, StepsOfSync
<1>4. CASE ClaimAndBridge
  <2>1. At("claim") /\ wrong \subseteq wrong'
    BY <1>1, <1>4 DEF ClaimAndBridge, Raised
  <2>2. \/ Finish(BenchmarkFailure(seen.first, {"reliability", "safety"}))
        \/ Finish(ErrorResult(seen.first.provider))
        \/ \E row : Continue("exhaust", [prior |-> Receipt(row), gen |-> Generation(row)])
    BY <1>4 DEF ClaimAndBridge, Raised
  <2>3. \A row : "first" \notin DOMAIN [prior |-> Receipt(row), gen |-> Generation(row)]
    OBVIOUS
  <2> QED BY <1>2, <2>1, <2>2, <2>3, StepsOfSync
<1>5. CASE Exhaust
  <2>1. At("exhaust") /\ wrong \subseteq wrong'
    BY <1>1, <1>5 DEF Exhaust
  <2>2. \/ Finish(BenchmarkFailure(seen.first, {"reliability"}))
        \/ \E row : Continue("probe retry", [etag |-> ETag(row)])
    BY <1>5 DEF Exhaust
  <2>3. \A row : "first" \notin DOMAIN [etag |-> ETag(row)]
    OBVIOUS
  <2> QED BY <1>2, <2>1, <2>2, <2>3, StepsOfSync
<1>6. CASE ProbeRetry
  <2>1. At("probe retry") /\ wrong \subseteq wrong'
    BY <1>1, <1>6 DEF ProbeRetry
  <2>2. \E probe : Continue("retry sync", [probe |-> probe])
    BY <1>6 DEF ProbeRetry
  <2>3. \A probe : "first" \notin DOMAIN [probe |-> probe]
    OBVIOUS
  <2> QED BY <1>2, <2>1, <2>2, <2>3, StepsOfSync
<1>7. CASE RetrySync
  <2>1. At("retry sync") /\ wrong \subseteq wrong'
    BY <1>1, <1>7 DEF RetrySync, Raised
  <2>2. \/ Finish(ErrorResult(seen.first.provider))
        \/ Finish(BenchmarkFailure(seen.first, {"reliability"}))
        \/ \E row : Continue("execute", [retrier |-> row.retrier, atRetry |-> Receipt(row)])
    BY <1>7 DEF RetrySync, Raised
  <2>3. \A row : "first" \notin DOMAIN [retrier |-> row.retrier, atRetry |-> Receipt(row)]
    OBVIOUS
  <2> QED BY <1>2, <2>1, <2>2, <2>3, StepsOfSync
<1> QED
  BY <1>3, <1>4, <1>5, <1>6, <1>7

\* Only a synchronization that skipped all steps took none.
LEMMA StepsTaken ==
  ASSUME NEW row, NEW o \in Synchronized(row), o.wrong # "skippedAll"
  PROVE  o.steps # <<>>
<1>1. /\ CrmSteps # <<>> /\ Tail(CrmSteps) # <<>> /\ <<Bridge>> \o CrmSteps # <<>>
      /\ <<Lookup, Bridge>> \o CrmSteps # <<>>
  BY DEF CrmSteps
<1> DEFINE right == IF row.sync.receipt = <<>> THEN <<Lookup, Bridge>> \o CrmSteps ELSE CrmSteps
<1>2. right # <<>>
  BY <1>1
<1>3. o.steps \in {right, <<Bridge>> \o CrmSteps, Tail(CrmSteps)}
  BY DEF Synchronized
<1> HIDE DEF right
<1> QED
  BY <1>1, <1>2, <1>3

\* The synchronization, of this order or of another one.
LEMMA SynchronizeBacks ==
  ASSUME ResumesSync, Assembled, Backed, Synchronize
  PROVE  Backed'
<1>1. At("execute")
  BY DEF Synchronize
<1>2. /\ CaseOK(seen.first) /\ seen.first.authority \in AuthorityEvidences
      /\ Case.recovery # None /\ Case.approval # None
      /\ RowOK(Row) /\ Row.sync \in SyncRows
      /\ seen.prior \in Seq(STRING) /\ seen.gen \in Maybe(Nat)
      /\ seen.probe \in RetryProbes /\ seen.atRetry \in Seq(STRING)
  BY <1>1, StepsOfSync, SeenOfSync
<1>3. ValidCase(Case) /\ InSync(Case)
  BY <1>1, <1>2, AtWork DEF ResumesSync, InSync, Case
<1>4. Observed(Case, seen.first)
  BY <1>1, WatchedAt
<1>5. ASSUME NEW row, RowOK(row), NEW completed, NEW steps \in Seq(STRING),
             Finish(WithSync(seen.first, row, completed, steps)), wrong \subseteq wrong',
             NothingSkipped' => steps # <<>>
      PROVE  Backed'
  <2> DEFINE q == WithSync(seen.first, row, completed, steps)
  <2>1. CaseOK(q)
    BY <1>1, <1>2, <1>5, AtWork, SyncKeepsContract
  <2>2. q = WithSync(seen.first, row, completed, steps) /\ Finish(q)
    BY <1>5
  <2> HIDE DEF q
  <2>3. NothingSkipped' /\ q.status = "PASS" => CaseIssues(Case, q) = {}
    BY <1>2, <1>3, <1>4, <1>5, <2>1, <2>2, SyncStandsUp
  <2> QED BY <1>5, <2>2, <2>3, FinishBacks
<1>6. CASE \E o \in Synchronized(Row) :
             /\ Happens(o.wrong)
             /\ Finish(WithSync(seen.first, o.row, o.row.state = "COMPLETED", o.steps))
  <2>1. PICK o \in Synchronized(Row) :
             /\ Happens(o.wrong)
             /\ Finish(WithSync(seen.first, o.row, o.row.state = "COMPLETED", o.steps))
    BY <1>6
  <2>2. RowOK(o.row) /\ o.steps \in Seq(STRING)
    BY <1>2, <2>1, SynchronizedRow
  <2>3. wrong \subseteq wrong' /\ (NothingSkipped' => o.steps # <<>>)
    BY <2>1, HappensGrows, StepsTaken
  <2> DEFINE completed == o.row.state = "COMPLETED"
  <2>4. Finish(WithSync(seen.first, o.row, completed, o.steps))
    BY <2>1
  <2> HIDE DEF completed
  <2> QED BY <1>5, <2>2, <2>3, <2>4
<1>7. CASE /\ Finish(WithSync(seen.first, Row, TRUE, <<Lookup, Bridge>> \o CrmSteps))
           /\ wrong' = wrong
  <2> DEFINE completed == TRUE
             steps == <<Lookup, Bridge>> \o CrmSteps
  <2>1. steps \in Seq(STRING)
    BY StepsAreStrings
  <2>2. steps # <<>>
    BY DEF CrmSteps
  <2>3. Finish(WithSync(seen.first, Row, completed, steps))
    BY <1>7
  <2> HIDE DEF completed, steps
  <2> QED BY <1>2, <1>5, <1>7, <2>1, <2>2, <2>3
<1> QED
  BY <1>6, <1>7 DEF Synchronize

\* Every step of a case.
LEMMA CaseBacks ==
  ASSUME ResumesSync, Assembled, Backed, RunCase
  PROVE  Backed'
<1>1. CASE Breaks
  <2>1. /\ At(step) /\ step # "intake" /\ Happens("broke")
        /\ \E p : Finish(ErrorResult(p))
    BY <1>1 DEF Breaks
  <2> QED BY <2>1, HappensGrows, FailureBacks
<1> QED
  BY <1>1, IntakeBacks, IntakeRaisesBacks, ProbeBacks, CloseBacks, ReplayBacks,
     CloseReplayBacks, NotFailedBacks, RetryFailedBacks, ResumeBacks, ResumeRaisesBacks,
     CloseRecoveryBacks, SyncBacks, SynchronizeBacks
  DEF RunCase

(***************************************************************************)
(* The stages that were measured.                                          *)
(***************************************************************************)
\* The stages of a message's work that are measured.
Stages == {"intake", "replay", "recovery"}

\* The stage that a case is measured in, and how often by the end of the case.
Stage(n) == IF Corpus[n].replay # None THEN "replay"
            ELSE IF FailsFirst(Corpus[n]) THEN "recovery" ELSE "intake"
Times(s) == IF s = "intake" THEN 1 ELSE 2

\* The steps after the second intake of a case.
Closing == {"close replay", "close recovery"}

\* What the case at work has been measured so far.
Ahead(s) == IF step # "intake" /\ Stage(Name) = s
            THEN (IF step \in Closing THEN 2 ELSE 1) ELSE 0

\* The finished cases that a stage was measured in.
Counted(s) == {n \in DOMAIN results : Stage(n) = s}

\* In a run without a live provider in which no case failed, each case was measured as
\* often as its scenario works on a message.
Timed ==
  /\ samples \in [Stages -> Nat]
  /\ phase # "cases" => step = "intake"
  /\ \A k \in at..Len(Cases) : Cases[k] \notin DOMAIN results
  /\ mode = "provider_free" /\ (\A n \in DOMAIN results : results[n].status = "PASS") =>
       \A s \in Stages : samples[s] = Times(s) * Cardinality(Counted(s)) + Ahead(s)

\* No case comes twice.
LEMMA CasesAreDistinct ==
  ASSUME NEW j \in 1..Len(Cases), NEW k \in 1..Len(Cases), Cases[j] = Cases[k]
  PROVE  j = k
<1> DEFINE f == [i \in 1..Len(Cases) |-> Cases[i]]
<1>1. DOMAIN Cases = 1..Len(Cases) /\ Len(Cases) \in Nat
  BY CorpusAssumption
<1>2. DOMAIN Corpus = {f[i] : i \in 1..Len(Cases)}
  BY <1>1, CorpusAssumption DEF Range1
<1>3. f \in Surjection(1..Len(Cases), DOMAIN Corpus)
  BY <1>2 DEF Surjection
<1>4. f[j] = f[k]
  OBVIOUS
<1>5. IsFiniteSet(1..Len(Cases)) /\ Cardinality(1..Len(Cases)) = Cardinality(DOMAIN Corpus)
  BY <1>1, FS_Interval, CorpusAssumption
<1> HIDE DEF f
<1>6. f \in Injection(1..Len(Cases), DOMAIN Corpus)
  BY <1>3, <1>5, FS_SurjSameCardinalityImpliesInj
<1> QED
  BY <1>4, <1>6 DEF Injection, IsInjective

\* A case goes on without being measured.
LEMMA GoesOnTimed ==
  ASSUME Timed, phase = "cases", step \notin {"intake"} \cup Closing,
         step' \notin {"intake"} \cup Closing,
         UNCHANGED <<phase, at, results, samples, mode>>
  PROVE  Timed'
<1>1. \A s : Counted(s)' = Counted(s) /\ Ahead(s)' = Ahead(s)
  BY DEF Counted, Ahead, Name, Stage
<1> QED
  BY <1>1 DEF Timed

\* A case goes on after it was measured.
LEMMA MeasuredTimed ==
  ASSUME Assembled, Timed, phase = "cases", Measured, UNCHANGED <<phase, at, results, mode>>,
         \/ step = "intake" /\ step' \notin {"intake"} \cup Closing
         \/ step \notin {"intake"} \cup Closing /\ step' \in Closing
  PROVE  Timed'
<1>1. IntakeStage = Stage(Name) /\ Stage(Name) \in Stages
  BY DEF IntakeStage, Stage, Case, Stages
<1>2. samples' = samples \/ samples' = [samples EXCEPT ![Stage(Name)] = @ + 1]
  BY <1>1 DEF Measured
<1>3. samples' \in [Stages -> Nat]
  BY <1>1, <1>2 DEF Timed
<1>4. \A s : Counted(s)' = Counted(s)
  BY DEF Counted
<1>5. \A s : Ahead(s) \in Nat /\ Ahead(s)' = IF Stage(Name) = s THEN Ahead(s) + 1 ELSE Ahead(s)
  <2>1. Stage(Name)' = Stage(Name)
    BY DEF Name, Stage
  <2>2. ASSUME NEW s PROVE Ahead(s) \in Nat
    BY DEF Ahead
  <2>3. ASSUME NEW s PROVE Ahead(s)' = IF Stage(Name) = s THEN Ahead(s) + 1 ELSE Ahead(s)
    <3>1. CASE step = "intake" /\ step' \notin {"intake"} \cup Closing
      <4>1. Ahead(s) = 0
        BY <3>1 DEF Ahead
      <4>2. Ahead(s)' = IF Stage(Name) = s THEN 1 ELSE 0
        <5>1. step' # "intake" /\ step' \notin Closing
          BY <3>1
        <5> QED BY <2>1, <5>1 DEF Ahead
      <4> QED BY <4>1, <4>2
    <3>2. CASE step \notin {"intake"} \cup Closing /\ step' \in Closing
      <4>1. Ahead(s) = IF Stage(Name) = s THEN 1 ELSE 0
        BY <3>2 DEF Ahead
      <4>2. Ahead(s)' = IF Stage(Name) = s THEN 2 ELSE 0
        <5>1. step' # "intake" /\ step' \in Closing
          BY <3>2 DEF Closing
        <5> QED BY <2>1, <5>1 DEF Ahead
      <4> QED BY <4>1, <4>2
    <3> QED BY <3>1, <3>2
  <2> QED BY <2>2, <2>3
<1>6. ASSUME mode = "provider_free", \A n \in DOMAIN results : results[n].status = "PASS",
             NEW s \in Stages
      PROVE  samples'[s] = Times(s) * Cardinality(Counted(s)) + Ahead(s)'
  <2>1. ~Live(Case)
    BY <1>6 DEF Live
  <2>2. samples' = [samples EXCEPT ![Stage(Name)] = @ + 1]
    BY <1>1, <2>1 DEF Measured
  <2>3. samples'[s] = IF Stage(Name) = s THEN samples[s] + 1 ELSE samples[s]
    BY <1>1, <2>2 DEF Timed
  <2> DEFINE counted == Times(s) * Cardinality(Counted(s))
  <2>4. samples[s] = counted + Ahead(s) /\ samples[s] \in Nat /\ Ahead(s) \in Nat
    BY <1>5, <1>6 DEF Timed
  <2>5. counted \in Int
    <3>1. Counted(s) \subseteq DOMAIN results
      BY DEF Counted
    <3>2. Cardinality(Counted(s)) \in Nat
      BY <3>1, FiniteCorpus DEF Assembled
    <3> QED BY <3>2 DEF Times
  <2> HIDE DEF counted
  <2>6. samples'[s] = counted + Ahead(s)'
    BY <1>5, <2>3, <2>4, <2>5
  <2> QED BY <2>6 DEF counted
<1>7. step' # "intake"
  BY DEF Closing
<1> QED
  BY <1>3, <1>4, <1>6, <1>7 DEF Timed
\* A case finishes: failed, or measured as often as its scenario works on a message.
LEMMA FinishTimed ==
  ASSUME Assembled, Timed, phase = "cases", mode' = mode, NEW r, Finish(r),
         samples' \in [Stages -> Nat],
         mode = "provider_free" /\ r.status = "PASS" =>
            /\ samples' = samples /\ step # "intake"
            /\ step \in Closing <=> Stage(Name) # "intake"
  PROVE  Timed'
<1>1. /\ DOMAIN results' = DOMAIN results \cup {Name}
      /\ results'[Name] = r
      /\ \A n \in DOMAIN results \ {Name} : results'[n] = results[n]
      /\ step' = "intake" /\ at' = at + 1
  BY Finished
<1>2. at \in 1..Len(Cases) /\ Len(Cases) \in Nat
  BY CorpusAssumption DEF Assembled
<1>3. Name \notin DOMAIN results
  BY <1>2 DEF Timed, Name
<1>4. \A k \in at'..Len(Cases) : Cases[k] \notin DOMAIN results'
  <2>1. ASSUME NEW k \in at + 1..Len(Cases) PROVE Cases[k] \notin DOMAIN results /\ Cases[k] # Name
    <3>1. k \in at..Len(Cases) /\ k \in 1..Len(Cases) /\ k # at
      BY <1>2
    <3> QED BY <1>2, <3>1, CasesAreDistinct DEF Timed, Name
  <2> QED BY <1>1, <2>1
<1>5. ASSUME mode = "provider_free", \A n \in DOMAIN results' : results'[n].status = "PASS",
             NEW s \in Stages
      PROVE  samples'[s] = Times(s) * Cardinality(Counted(s)') + Ahead(s)'
  <2>1. \A n \in DOMAIN results : results[n].status = "PASS"
    BY <1>1, <1>3, <1>5
  <2>2. samples' = samples /\ step # "intake" /\ (step \in Closing <=> Stage(Name) # "intake")
    BY <1>1, <1>5
  <2>3. samples[s] = Times(s) * Cardinality(Counted(s)) + Ahead(s)
    BY <1>5, <2>1 DEF Timed
  <2>4. Ahead(s)' = 0
    BY <1>1 DEF Ahead
  <2>5. Counted(s)' = IF Stage(Name) = s THEN Counted(s) \cup {Name} ELSE Counted(s)
    <3>1. Counted(s)' = {n \in DOMAIN results' : Stage(n) = s}
      BY DEF Counted, Stage
    <3> QED BY <1>1, <3>1 DEF Counted
  <2>6. IsFiniteSet(Counted(s)) /\ Cardinality(Counted(s)) \in Nat /\ Name \notin Counted(s)
    <3>1. Counted(s) \subseteq DOMAIN results
      BY DEF Counted
    <3> QED BY <1>3, <3>1, FiniteCorpus DEF Assembled
  <2>7. Cardinality(Counted(s) \cup {Name}) = Cardinality(Counted(s)) + 1
    BY <2>6, FS_AddElement
  <2>8. Ahead(s) = IF Stage(Name) = s THEN Times(s) ELSE 0
    BY <2>2 DEF Ahead, Times
  <2>9. Times(s) \in Nat
    BY DEF Times
  <2> DEFINE c == Cardinality(Counted(s))
             t == Times(s)
  <2>10. t * (c + 1) = t * c + t
    <3>1. t = 1 \/ t = 2
      BY DEF Times
    <3> HIDE DEF t, c
    <3>2. c \in Nat
      BY <2>6 DEF c
    <3> QED BY <3>1, <3>2
  <2>11. CASE Stage(Name) = s
    BY <2>2, <2>3, <2>4, <2>5, <2>7, <2>8, <2>10, <2>11, <2>9
  <2>12. CASE Stage(Name) # s
    BY <2>2, <2>3, <2>4, <2>5, <2>8, <2>12
  <2> QED BY <2>11, <2>12
<1> QED
  BY <1>1, <1>4, <1>5 DEF Timed

\* A step between two intakes goes on, or ends in a failure.
LEMMA StepTimed ==
  ASSUME Assembled, Timed, NEW t, At(t), t \notin {"intake"} \cup Closing, samples' = samples,
         \/ Finish(ErrorResult(seen.first.provider))
         \/ \E scores : Finish(BenchmarkFailure(seen.first, scores))
         \/ \E s, news : Continue(s, news) /\ s \notin {"intake"} \cup Closing
  PROVE  Timed'
<1>1. phase = "cases" /\ step = t /\ mode' = mode
  BY AtWork
<1>2. samples' \in [Stages -> Nat]
  BY DEF Timed
<1>3. ASSUME NEW r, Finish(r), r.status # "PASS"
      PROVE  Timed'
  BY <1>1, <1>2, <1>3, FinishTimed
<1>4. CASE Finish(ErrorResult(seen.first.provider))
  <2>1. ErrorResult(seen.first.provider).status # "PASS"
    BY DEF ErrorResult
  <2> QED BY <1>3, <1>4, <2>1
<1>5. CASE \E scores : Finish(BenchmarkFailure(seen.first, scores))
  <2>1. PICK scores : Finish(BenchmarkFailure(seen.first, scores))
    BY <1>5
  <2>2. DOMAIN seen.first = ResultFields
    BY SeenAtWork DEF CaseOK
  <2>3. BenchmarkFailure(seen.first, scores).status # "PASS"
    BY <2>2, MismatchFails
  <2> QED BY <1>3, <2>1, <2>3
<1>6. CASE \E s, news : Continue(s, news) /\ s \notin {"intake"} \cup Closing
  <2>1. step' \notin {"intake"} \cup Closing /\ UNCHANGED <<phase, at, results>>
    BY <1>6 DEF Continue
  <2> QED BY <1>1, <2>1, GoesOnTimed
<1> QED
  BY <1>4, <1>5, <1>6

\* A step of a case changes nothing of the command but where it is.
LEMMA ModeStays ==
  ASSUME RunCase
  PROVE  /\ phase = "cases" /\ UNCHANGED <<setup, mode, wiped, report, exit, published>>
         /\ phase' \in {"cases", "judge"}
<1>1. \A r : Finish(r) => phase' \in {"cases", "judge"}
  BY DEF Finish
<1>2. \A s, news : Continue(s, news) => phase' = phase
  BY DEF Continue
<1>3. \A s : At(s) => phase = "cases" /\ UNCHANGED <<setup, mode, wiped, report, exit, published>>
  BY DEF At
<1>4. CASE Intake \/ IntakeRaises \/ Probe \/ Close \/ Replay \/ CloseReplay
  BY <1>1, <1>2, <1>3, <1>4 DEF Intake, IntakeRaises, Probe, Close, Replay, CloseReplay
<1>5. CASE NotFailed \/ RetryFailed \/ Resume \/ ResumeRaises \/ CloseRecovery
  BY <1>1, <1>2, <1>3, <1>5 DEF NotFailed, RetryFailed, Resume, ResumeRaises, CloseRecovery
<1>6. CASE ApproveOrder \/ ClaimAndBridge \/ Exhaust
  BY <1>1, <1>2, <1>3, <1>6 DEF ApproveOrder, ClaimAndBridge, Exhaust, Raised
<1>7. CASE ProbeRetry \/ RetrySync \/ Synchronize \/ Breaks
  BY <1>1, <1>2, <1>3, <1>7 DEF ProbeRetry, RetrySync, Synchronize, Breaks, Raised
<1> QED
  BY <1>4, <1>5, <1>6, <1>7 DEF RunCase

\* An intake that raised ends its case as an ERROR.
LEMMA RaisedIntakeFails ==
  ASSUME IntakeRaises
  PROVE  \E r : Finish(r) /\ r.status # "PASS"
<1>1. PICK calls \in {0, 1} :
        LET r == ErrorResult(Provider(calls, 0))
        IN  Finish(IF Scenario = "plain"
                   THEN [r EXCEPT !.authority =
                            AuthorityEvidence(Case, r, None, "NOT_APPLICABLE", NoRetryProbe)]
                   ELSE r)
  BY DEF IntakeRaises
<1> DEFINE r == ErrorResult(Provider(calls, 0))
           a == AuthorityEvidence(Case, r, None, "NOT_APPLICABLE", NoRetryProbe)
<1>2. r.status = "ERROR" /\ DOMAIN r = ResultFields
  BY DEF ErrorResult, ResultFields
<1>3. Finish(r) \/ Finish([r EXCEPT !.authority = a])
  BY <1>1
<1> HIDE DEF r, a
<1>4. [r EXCEPT !.authority = a].status = "ERROR"
  BY <1>2 DEF ResultFields
<1> QED
  BY <1>2, <1>3, <1>4

\* Each step of a case.
LEMMA CaseTimed ==
  ASSUME ResumesSync, Assembled, Backed, Timed, RunCase
  PROVE  Timed'
<1>1. phase = "cases" /\ mode' = mode /\ ValidCase(Case) /\ Name \in DOMAIN Corpus
  <2>1. phase = "cases"
    BY CasesLeaveTheResetAlone
  <2>2. mode' = mode
    BY ModeStays
  <2>3. at \in 1..Len(Cases)
    BY <2>1 DEF Assembled
  <2> QED BY <2>1, <2>2, <2>3, CurrentCase
<1>2. CASE Intake
  <2>1. step = "intake" /\ step' = "probe" /\ UNCHANGED <<phase, at, results>> /\ Measured
    BY <1>2 DEF Intake, At, Continue
  <2>2. step' \notin {"intake"} \cup Closing
    BY <2>1 DEF Closing
  <2> QED BY <1>1, <2>1, <2>2, MeasuredTimed
<1>3. ASSUME Measured PROVE samples' \in [Stages -> Nat]
  <2>1. IntakeStage \in Stages
    BY DEF IntakeStage, Stages
  <2> QED BY <1>3, <2>1 DEF Measured, Timed
<1>4. CASE IntakeRaises
  <2>1. Measured
    BY <1>4 DEF IntakeRaises
  <2>2. \E r : Finish(r) /\ r.status # "PASS"
    BY <1>4, RaisedIntakeFails
  <2> QED BY <1>1, <1>3, <2>1, <2>2, FinishTimed
<1>5. CASE Probe
  <2>1. /\ step = "probe" /\ UNCHANGED <<phase, at, results, samples>>
        /\ step' = [plain |-> "close", duplicate |-> "replay", recovery |-> "retry",
                    sync |-> "approve"][Scenario]
    BY <1>5 DEF Probe, At
  <2>2. step' \in {"close", "replay", "retry", "approve"}
    BY <1>1, <2>1, ScenarioFits
  <2>3. step \notin {"intake"} \cup Closing /\ step' \notin {"intake"} \cup Closing
    BY <2>1, <2>2 DEF Closing
  <2> QED BY <1>1, <2>1, <2>3, GoesOnTimed
<1>6. CASE Close
  <2>1. At("close") /\ Finish(seen.first) /\ samples' = samples
    BY <1>6 DEF Close
  <2>2. step = "close" /\ Case.recovery = None /\ Case.replay = None
    BY <2>1, WatchedAt DEF StepFits
  <2>3. Stage(Name) = "intake" /\ step \notin Closing
    BY <2>2 DEF Stage, Case, FailsFirst, Closing
  <2>4. samples' \in [Stages -> Nat]
    BY <2>1 DEF Timed
  <2> QED BY <1>1, <2>1, <2>2, <2>3, <2>4, FinishTimed
<1>7. CASE Replay \/ Resume \/ ResumeRaises
  <2>1. /\ step \in {"replay", "resume"} /\ step' \in {"close replay", "close recovery"}
        /\ UNCHANGED <<phase, at, results>> /\ Measured
    BY <1>7 DEF Replay, Resume, ResumeRaises, At, Continue
  <2>2. step \notin {"intake"} \cup Closing /\ step' \in Closing
    BY <2>1 DEF Closing
  <2> QED BY <1>1, <2>1, <2>2, MeasuredTimed
<1>8. CASE CloseReplay
  <2>1. At("close replay") /\ (\E r : Finish(r)) /\ samples' = samples
    BY <1>8 DEF CloseReplay
  <2>2. step = "close replay" /\ Case.replay # None
    BY <2>1, WatchedAt DEF StepFits
  <2>3. Stage(Name) # "intake" /\ step \in Closing /\ step # "intake"
    BY <2>2 DEF Stage, Case, Closing
  <2>4. samples' \in [Stages -> Nat]
    BY <2>1 DEF Timed
  <2> QED BY <1>1, <2>1, <2>3, <2>4, FinishTimed
<1>9. CASE CloseRecovery
  <2>1. At("close recovery") /\ (\E r : Finish(r)) /\ samples' = samples
    BY <1>9 DEF CloseRecovery
  <2>2. step = "close recovery" /\ Case.recovery # None /\ Case.approval = None
    BY <2>1, WatchedAt DEF StepFits, RecoverySteps
  <2>3. Case.recovery.stage \in {"PROCESSING", "EXTRACTED"}
    BY <1>1, <2>2 DEF ValidCase, ValidRecovery, InjectedCode
  <2>4. Stage(Name) # "intake" /\ step \in Closing /\ step # "intake"
    BY <2>2, <2>3 DEF Stage, Case, Closing, FailsFirst
  <2>5. samples' \in [Stages -> Nat]
    BY <2>1 DEF Timed
  <2> QED BY <1>1, <2>1, <2>4, <2>5, FinishTimed
<1>10. CASE Synchronize
  <2>1. At("execute") /\ (\E r : Finish(r)) /\ samples' = samples
    BY <1>10 DEF Synchronize
  <2>2. step = "execute" /\ Case.recovery # None /\ Case.approval # None
    BY <2>1, WatchedAt DEF StepFits, SyncSteps, BridgeSteps
  <2>3. Case.recovery.stage = "SYNCING" /\ Case.replay = None
    BY <1>1, <2>2 DEF ValidCase, ResumesSync, Case
  <2>4. Stage(Name) = "intake" /\ step \notin Closing /\ step # "intake"
    BY <2>2, <2>3 DEF Stage, Case, Closing, FailsFirst
  <2>5. samples' \in [Stages -> Nat]
    BY <2>1 DEF Timed
  <2> QED BY <1>1, <2>1, <2>4, <2>5, FinishTimed
<1>11. CASE Breaks
  <2>1. PICK p : Finish(ErrorResult(p))
    BY <1>11 DEF Breaks
  <2>2. ErrorResult(p).status # "PASS"
    BY DEF ErrorResult
  <2>3. samples' \in [Stages -> Nat]
    BY <1>3, <1>11 DEF Breaks, Timed
  <2> QED BY <1>1, <2>1, <2>2, <2>3, FinishTimed
<1>12. CASE NotFailed
  <2>1. At("retry") /\ "retry" \notin {"intake"} \cup Closing
    BY <1>12 DEF NotFailed, Closing
  <2> QED BY <1>12, <2>1, StepTimed DEF NotFailed
<1>13. CASE RetryFailed
  <2>1. /\ At("retry") /\ "retry" \notin {"intake"} \cup Closing
        /\ "resume" \notin {"intake"} \cup Closing
        /\ \E news : Continue("resume", news) /\ samples' = samples
    BY <1>13 DEF RetryFailed, Closing
  <2> QED BY <2>1, StepTimed
<1>14. ASSUME NEW t \in SyncSteps PROVE t \notin {"intake"} \cup Closing
  BY DEF SyncSteps, BridgeSteps, Closing
<1>15. CASE ApproveOrder
  <2>1. /\ At("approve") /\ samples' = samples
        /\ Finish(ErrorResult(seen.first.provider)) \/ \E news : Continue("claim", news)
    BY <1>15 DEF ApproveOrder, Raised
  <2> QED BY <1>14, <2>1, StepTimed, StepsOfSync
<1>16. CASE ClaimAndBridge
  <2>1. /\ At("claim") /\ samples' = samples
        /\ \/ Finish(ErrorResult(seen.first.provider))
           \/ \E scores : Finish(BenchmarkFailure(seen.first, scores))
           \/ \E news : Continue("exhaust", news)
    BY <1>16 DEF ClaimAndBridge, Raised
  <2> QED BY <1>14, <2>1, StepTimed, StepsOfSync
<1>17. CASE Exhaust
  <2>1. /\ At("exhaust") /\ samples' = samples
        /\ \/ \E scores : Finish(BenchmarkFailure(seen.first, scores))
           \/ \E news : Continue("probe retry", news)
    BY <1>17 DEF Exhaust
  <2> QED BY <1>14, <2>1, StepTimed, StepsOfSync
<1>18. CASE ProbeRetry
  <2>1. /\ At("probe retry") /\ samples' = samples
        /\ \E news : Continue("retry sync", news)
    BY <1>18 DEF ProbeRetry
  <2> QED BY <1>14, <2>1, StepTimed, StepsOfSync
<1>19. CASE RetrySync
  <2>1. /\ At("retry sync") /\ samples' = samples
        /\ \/ Finish(ErrorResult(seen.first.provider))
           \/ \E scores : Finish(BenchmarkFailure(seen.first, scores))
           \/ \E news : Continue("execute", news)
    BY <1>19 DEF RetrySync, Raised
  <2> QED BY <1>14, <2>1, StepTimed, StepsOfSync
<1> QED
  BY <1>2, <1>4, <1>5, <1>6, <1>7, <1>8, <1>9, <1>10, <1>11, <1>12, <1>13, <1>15, <1>16,
     <1>17, <1>18, <1>19 DEF RunCase

(***************************************************************************)
(* The published run.                                                      *)
(***************************************************************************)
\* The command around the cases takes no verdict and no measurement back; a start clears
\* both.
LEMMA CommandKeepsVerdicts ==
  ASSUME Assembled, Backed, Timed, [Next]_vars, ~RunCase
  PROVE  Backed' /\ Timed'
<1>1. CASE UNCHANGED vars
  <2>1. UNCHANGED <<phase, mode, rows, at, step, seen, results, samples, wrong>>
    BY <1>1 DEF vars, command, scenario
  <2>2. \A s : Counted(s)' = Counted(s) /\ Ahead(s)' = Ahead(s)
    BY <2>1 DEF Counted, Ahead, Name, Stage
  <2>3. Timed'
    BY <2>1, <2>2 DEF Timed
  <2>4. Backed'
    BY <2>1 DEF Backed, Standing, NothingSkipped, Watched, StepFits, Name, Case
  <2> QED BY <2>3, <2>4
<1>2. CASE \E m \in Modes, s \in Setups : Start(m, s)
  <2>1. /\ results' = <<>> /\ at' = 1 /\ step' = "intake" /\ phase' \in {"reset", "ended"}
        /\ samples' = [intake |-> 0, replay |-> 0, recovery |-> 0]
    BY <1>2 DEF Start, End
  <2>2. DOMAIN results' = {}
    BY <2>1
  <2>3. Backed'
    BY <2>1, <2>2 DEF Backed, Standing
  <2>4. \A s \in Stages : samples'[s] = 0 /\ samples' \in [Stages -> Nat]
    BY <2>1 DEF Stages
  <2>5. ASSUME NEW s \in Stages
        PROVE  samples'[s] = Times(s) * Cardinality(Counted(s)') + Ahead(s)'
    <3>1. Counted(s)' = {} /\ Ahead(s)' = 0
      BY <2>1, <2>2 DEF Counted, Ahead
    <3>2. Cardinality({}) = 0
      BY FS_EmptySet
    <3>3. Times(s) * 0 + 0 = 0
      BY DEF Times
    <3> QED BY <2>4, <3>1, <3>2, <3>3
  <2>6. samples' \in [Stages -> Nat]
    BY <2>1 DEF Stages
  <2>7. Timed'
    BY <2>1, <2>2, <2>5, <2>6 DEF Timed
  <2> QED BY <2>3, <2>7
<1>3. CASE Reset \/ ConfirmSchema \/ Judge \/ WriteJson \/ WriteMarkdown \/ Exit \/ Killed
  <2>1. /\ UNCHANGED <<mode, at, step, results, samples, wrong>>
        /\ phase # "cases"
    BY <1>3
    DEF Reset, ConfirmSchema, Judge, WriteJson, WriteMarkdown, Exit, Killed, scenario
  <2>2. step = "intake"
    BY <2>1 DEF Timed
  <2>3. Backed'
    BY <2>1, <2>2 DEF Backed, Standing, NothingSkipped
  <2>4. \A s : Counted(s)' = Counted(s) /\ Ahead(s)' = Ahead(s)
    BY <2>1 DEF Counted, Ahead, Name, Stage
  <2>5. Timed'
    BY <2>1, <2>2, <2>4 DEF Timed
  <2> QED BY <2>3, <2>5
<1> QED
  BY <1>1, <1>2, <1>3 DEF Next

\* The report under publication is the verdict on the finished cases.
Faithful ==
  /\ report.mode = mode /\ report.results = results /\ report.samples = samples
  /\ report.gates = ReleaseGates(Corpus, results)
  /\ report.routing = RoutingMetrics(Corpus, results, ReleaseGates(Corpus, results))
  /\ report.failed = Total("failed")

\* From the verdict on, the report stands for the run; exit code 0 says that it succeeded.
Reported ==
  /\ phase \in {"json", "markdown", "exit"} \/ exit = 0 => Faithful
  /\ phase \in {"markdown", "exit"} \/ exit = 0 => ValidRunResult(report)
  /\ exit = 0 => phase = "ended" /\ Successful(report)

\* Each step keeps that.
LEMMA ReportedIsInductive ==
  ASSUME Assembled, Reported, [Next]_vars
  PROVE  Reported'
<1>1. None # 0
  BY NoneAssumption
<1>2. CASE RunCase
  BY <1>2, ModeStays DEF Reported
<1>3. CASE UNCHANGED vars
  <2>1. UNCHANGED <<phase, mode, results, samples, report, exit>>
    BY <1>3 DEF vars, command, scenario
  <2>2. Total("failed")' = Total("failed")
    BY <2>1 DEF Total
  <2> QED BY <2>1, <2>2 DEF Reported, Faithful
<1>4. CASE \E m \in Modes, s \in Setups : Start(m, s)
  BY <1>1, <1>4 DEF Start, End, Reported
<1>5. CASE Reset \/ ConfirmSchema
  <2>1. phase \in {"reset", "schema"} /\ phase' \in {"schema", "cases", "ended"}
        /\ (exit' = exit \/ exit' = 2)
    BY <1>5 DEF Reset, ConfirmSchema, End
  <2> QED BY <2>1 DEF Reported
<1>6. CASE Judge
  <2>1. phase = "judge" /\ phase' = "json" /\ exit' = exit
        /\ UNCHANGED <<mode, results, samples>>
    BY <1>6 DEF Judge, scenario
  <2>2. Total("failed")' = Total("failed")
    BY <2>1 DEF Total
  <2>3. PICK p50 \in (IF samples.replay = 0 THEN {None} ELSE {1, 2}) :
        report' = [ mode |-> mode, results |-> results,
                    gates |-> ReleaseGates(Corpus, results),
                    routing |-> RoutingMetrics(Corpus, results, ReleaseGates(Corpus, results)),
                    samples |-> samples, p50 |-> p50,
                    calls |-> Total("calls"), failed |-> Total("failed") ]
    BY <1>6 DEF Judge
  <2>4. Faithful'
    BY <2>1, <2>2, <2>3 DEF Faithful
  <2> QED BY <2>1, <2>4 DEF Reported
<1>7. CASE WriteJson \/ WriteMarkdown \/ Exit \/ Killed
  <2>1. /\ UNCHANGED <<mode, results, samples, report>>
        /\ exit # 0
    BY <1>7 DEF WriteJson, WriteMarkdown, Exit, Killed, scenario, Reported
  <2>2. Total("failed")' = Total("failed")
    BY <2>1 DEF Total
  <2>3. Faithful => Faithful'
    BY <2>1, <2>2 DEF Faithful
  <2>4. CASE WriteJson
    BY <1>1, <2>1, <2>3, <2>4 DEF WriteJson, End, Reported
  <2>5. CASE WriteMarkdown
    BY <2>1, <2>3, <2>5 DEF WriteMarkdown, Reported
  <2>6. CASE Exit
    BY <2>1, <2>3, <2>6 DEF Exit, End, Reported, Successful
  <2>7. CASE Killed
    BY <2>1, <2>3, <2>7 DEF Killed, End, Reported
  <2> QED BY <1>7, <2>4, <2>5, <2>6, <2>7
<1> QED
  BY <1>2, <1>3, <1>4, <1>5, <1>6, <1>7 DEF Next

\* All cases finished: the stages hold what a complete corpus measures.
LEMMA CompleteTimings ==
  ASSUME Assembled, Timed, phase # "cases", mode = "provider_free",
         DOMAIN results = DOMAIN Corpus, \A n \in DOMAIN results : results[n].status = "PASS"
  PROVE  \A s \in Stages : samples[s] = ExpectedSamples(mode)[s]
<1>1. \A s \in Stages : samples[s] = Times(s) * Cardinality(Counted(s)) + Ahead(s)
  BY DEF Timed
<1>2. \A s : Ahead(s) = 0
  BY DEF Timed, Ahead
<1> DEFINE doubles == {n \in DOMAIN Corpus : Corpus[n].replay # None}
           failing == {n \in DOMAIN Corpus : FailsFirst(Corpus[n])}
<1>3. \A n \in DOMAIN Corpus : FailsFirst(Corpus[n]) => Corpus[n].replay = None
  BY CorpusAssumption DEF ValidCase, FailsFirst
<1>4. Counted("replay") = doubles
  BY DEF Counted, Stage
<1>5. Counted("recovery") = failing
  BY <1>3 DEF Counted, Stage
<1>6. Counted("intake") = DOMAIN Corpus \ (doubles \cup failing)
  BY DEF Counted, Stage
<1>7. /\ ExpectedSamples(mode).replay = 2 * Cardinality(doubles)
      /\ ExpectedSamples(mode).recovery = 2 * Cardinality(failing)
      /\ ExpectedSamples(mode).intake = Cardinality(DOMAIN Corpus \ (doubles \cup failing))
  BY DEF ExpectedSamples
<1>8. /\ Cardinality(doubles) \in Nat /\ Cardinality(failing) \in Nat
      /\ Cardinality(DOMAIN Corpus \ (doubles \cup failing)) \in Nat
  <2>1. doubles \in SUBSET DOMAIN Corpus /\ failing \in SUBSET DOMAIN Corpus
        /\ DOMAIN Corpus \ (doubles \cup failing) \in SUBSET DOMAIN Corpus
    OBVIOUS
  <2> HIDE DEF doubles, failing
  <2> QED BY <2>1, FiniteCorpus
<1> HIDE DEF doubles, failing
<1>9. /\ samples["intake"] = 1 * Cardinality(Counted("intake")) + 0
      /\ samples["replay"] = 2 * Cardinality(Counted("replay")) + 0
      /\ samples["recovery"] = 2 * Cardinality(Counted("recovery")) + 0
  BY <1>1, <1>2 DEF Stages, Times
<1>10. /\ samples["intake"] = ExpectedSamples(mode)["intake"]
       /\ samples["replay"] = ExpectedSamples(mode)["replay"]
       /\ samples["recovery"] = ExpectedSamples(mode)["recovery"]
  <2>1. /\ ExpectedSamples(mode)["replay"] = 2 * Cardinality(doubles)
        /\ ExpectedSamples(mode)["recovery"] = 2 * Cardinality(failing)
        /\ ExpectedSamples(mode)["intake"] = Cardinality(DOMAIN Corpus \ (doubles \cup failing))
    BY <1>7
  <2>2. /\ samples["intake"] = 1 * Cardinality(DOMAIN Corpus \ (doubles \cup failing)) + 0
        /\ samples["replay"] = 2 * Cardinality(doubles) + 0
        /\ samples["recovery"] = 2 * Cardinality(failing) + 0
    BY <1>4, <1>5, <1>6, <1>9
  <2>3. \A c \in Nat : 1 * c + 0 = c /\ 2 * c + 0 = 2 * c
    OBVIOUS
  <2> QED BY <1>8, <2>1, <2>2, <2>3
<1> QED
  BY <1>10 DEF Stages

\* A result whose run ended with 0 stands up to its own evidence.
LEMMA ConsistentAtExit ==
  ASSUME Assembled, Backed, Timed, Reported
  PROVE  PassIsConsistent
<1> SUFFICES ASSUME exit = 0, NothingSkipped
             PROVE  /\ EvidenceIssues(report) = {}
                    /\ mode = "provider_free" => TimingIssues(report) = {}
  BY DEF PassIsConsistent, NothingSkipped
<1>1. /\ phase = "ended" /\ Faithful /\ Successful(report) /\ ValidRunResult(report)
  BY DEF Reported
<1>2. /\ report.mode = mode /\ report.results = results /\ report.samples = samples
      /\ report.gates = ReleaseGates(Corpus, results)
      /\ report.routing = RoutingMetrics(Corpus, results, ReleaseGates(Corpus, results))
  BY <1>1 DEF Faithful
<1>3. DOMAIN results = DOMAIN Corpus /\ \A n \in DOMAIN results : results[n].status = "PASS"
  BY <1>1, <1>2 DEF Successful
<1>4. \A n \in DOMAIN results : CaseIssues(Corpus[n], results[n]) = {}
  BY <1>3 DEF Backed, Standing
<1>5. EvidenceIssues(report) = {}
  <2>1. UNION {CaseIssues(Corpus[n], results[n]) :
                 n \in DOMAIN results \cap DOMAIN Corpus} = {}
    BY <1>4
  <2>2. ~(report.mode = "provider_free"
            /\ \E n \in DOMAIN results : results[n].provider.name = "gemini")
    BY <1>1, <1>2 DEF ValidRunResult
  <2> QED BY ONLY <1>1, <1>2, <1>3, <2>1, <2>2 DEF EvidenceIssues, If
<1>6. ASSUME mode = "provider_free" PROVE TimingIssues(report) = {}
  <2>1. \A s \in Stages : samples[s] = ExpectedSamples(mode)[s]
    BY <1>1, <1>3, <1>6, CompleteTimings
  <2>2. DOMAIN report.samples = Stages
    BY <1>2 DEF Timed
  <2> QED BY ONLY <1>2, <2>1, <2>2 DEF TimingIssues
<1> QED
  BY <1>5, <1>6

\* The initial state of the evaluation has all parts of the inductive invariant.
LEMMA InitialParts ==
  ASSUME Init
  PROVE  Assembled /\ Backed /\ Timed /\ Reported
<1>1. /\ DOMAIN results = {} /\ phase = "idle" /\ rows = [n \in DOMAIN Corpus |-> None]
      /\ mode = None /\ step = "intake" /\ exit = None
      /\ samples = [intake |-> 0, replay |-> 0, recovery |-> 0]
  BY DEF Init
<1>2. Assembled
  BY <1>1 DEF Assembled, RowsOK, EveryRunCanBePublished
<1>3. Backed
  BY <1>1 DEF Backed, Standing
<1>4. None # 0
  BY NoneAssumption
<1>5. samples \in [Stages -> Nat]
  BY <1>1 DEF Stages
<1>6. Timed
  <2>1. ASSUME NEW s \in Stages
        PROVE  samples[s] = Times(s) * Cardinality(Counted(s)) + Ahead(s)
    <3>1. Counted(s) = {} /\ Ahead(s) = 0 /\ samples[s] = 0
      BY <1>1 DEF Counted, Ahead, Stages
    <3>2. Cardinality({}) = 0
      BY FS_EmptySet
    <3>3. Times(s) * 0 + 0 = 0
      BY DEF Times
    <3> QED BY <3>1, <3>2, <3>3
  <2> QED BY <1>1, <1>5, <2>1 DEF Timed
<1>7. Reported
  BY <1>1, <1>4 DEF Reported
<1> QED BY <1>2, <1>3, <1>6, <1>7

\* Whatever the application does, in however many cases and runs: the file of a run that
\* ended with 0 shows no issue to the comparison (comparison.py judges it again), unless a
\* synchronization took no step at all.
THEOREM PassedRunsAreConsistent ==
  ASSUME ResumesSync
  PROVE  Spec => []PassIsConsistent
<1> DEFINE IInv == Assembled /\ Backed /\ Timed /\ Reported
<1>1. Init => IInv
  BY InitialParts
<1>2. IInv /\ [Next]_vars => IInv'
  <2>1. ASSUME IInv, [Next]_vars PROVE IInv'
    <3>1. Assembled' /\ Reported'
      BY <2>1, AssembledIsInductive, ReportedIsInductive
    <3>2. Backed' /\ Timed'
      BY <2>1, CaseBacks, CaseTimed, CommandKeepsVerdicts
    <3> QED BY <3>1, <3>2
  <2> QED BY <2>1
<1>3. IInv => PassIsConsistent
  BY ConsistentAtExit
<1> QED
  BY <1>1, <1>2, <1>3, PTL DEF Spec

(***************************************************************************)
(* What is wrong leaves a mark.                                            *)
(***************************************************************************)
\* The verdicts of a probe that was not refused as it should be.
Bad == {"FAIL", "ERROR"}

\* The notifications of an order do not fit its history, its synchronization was asked for
\* by nobody who may, or it does not name the evaluator.
Noisy(row)   == row.stray # 0 \/ row.linked # row.transitions
Unasked(row) == row.sync # None /\ Approver \notin row.approvers
Off(row)     == row.bound # TRUE \/ Noisy(row) \/ Unasked(row)

\* An order that is not where its case says it should be.
Misjudged(c, row) ==
  \/ row.state \in {"APPROVED", "SYNCING", "COMPLETED"}
  \/ c.expected # None /\ (row.state # c.expected.state \/ row.issues # c.expected.issues)

\* Evidence of authority that some gate does not let pass.
Suspect(c, a) ==
  \/ a.bound # TRUE
  \/ a.approvalProbe \in Bad \/ a.retryProbe \in Bad
  \/ a.noticeProbe \in Bad \/ a.externalProbe \in Bad
  \/ c.recovery # None /\ a.retrySeen = FALSE

\* A result that shows that `what` went wrong in its case.
Told(c, r, what) ==
  \/ r.status # "PASS" \/ r.authority = None \/ Suspect(c, r.authority)
  \/ what = "providerDown" /\ r.provider.name = "gemini" /\ r.provider.failed # 0
  \/ what = "skippedAll" /\ CaseIssues(c, r) # {}
  \/ what = "skippedOne"

\* How far a scenario is at each of its steps.
Rank(s) ==
  CASE s = "intake" -> 0
    [] s = "probe" -> 1
    [] s \in {"close", "replay", "retry", "approve"} -> 2
    [] s \in {"close replay", "resume", "claim"} -> 3
    [] s \in {"close recovery", "exhaust"} -> 4
    [] s = "probe retry" -> 5
    [] s = "retry sync" -> 6
    [] OTHER -> 7

\* Three kinds of cases; the fourth is the plain one.
IsDouble(c)   == c.recovery = None /\ c.replay # None
IsRecovery(c) == c.recovery # None /\ c.approval = None
IsSync(c)     == c.recovery # None /\ c.approval # None

\* A row whose notifications fit and that nobody asked to synchronize.
Calm(row) == row.sync = None /\ row.linked = row.transitions

\* Case `c` at step `s`, having observed `o`, with its order as in `row`: how it looks while
\* nothing went wrong in it.
Clean(c, s, o, row) ==
  /\ s = "probe" /\ IsDouble(c) =>
       o.first.state = "NEEDS_REVIEW" /\ row.state = "NEEDS_REVIEW" /\ row.sync = None
  /\ s = "probe" /\ IsRecovery(c) =>
       /\ o.first.state = "FAILED_RETRYABLE" /\ row.state = "FAILED_RETRYABLE"
       /\ row.origin = c.recovery.stage /\ Calm(row)
  /\ s = "probe" /\ IsSync(c) =>
       /\ o.first.state = "READY_FOR_APPROVAL"
       /\ Calm(row) /\ row.approvers = {}
  /\ s = "replay" => row.state = "NEEDS_REVIEW" /\ row.sync = None
  /\ s = "close replay" => o.second.state = "NEEDS_REVIEW"
  /\ s = "retry" => row.origin = c.recovery.stage /\ Calm(row)
  /\ s = "resume" => row.state = c.recovery.stage /\ Calm(row)
  /\ s = "close recovery" => o.second.state # "FAILED_RETRYABLE"
  /\ s = "approve" => Calm(row) /\ row.approvers = {}
  /\ s = "claim" => row.sync # None /\ row.sync.receipt = <<>>
  /\ s = "exhaust" => row.state = "SYNCING" /\ row.sync.gen = o.gen
  /\ s \in {"probe retry", "retry sync"} => row.origin = "SYNCING" /\ row.sync.gen = o.gen
  /\ s = "execute" => row.state = "SYNCING"

\* A synchronization that will fail at its end.
Lasting(o, row) ==
  \/ o.first.status # "PASS" \/ o.first.authority.bound # TRUE
  \/ o.first.authority.approvalProbe \in Bad
  \/ Noisy(row) \/ Approver \notin row.approvers

\* How it looks once `x` went wrong in it, and nothing else.
Shown(c, s, o, row, x) ==
  /\ s = "probe" /\ IsDouble(c) => Misjudged(c, row) \/ Off(row)
  /\ s = "probe" /\ IsRecovery(c) =>
       row.state # "FAILED_RETRYABLE" \/ row.origin # c.recovery.stage \/ Off(row)
  /\ s = "probe" /\ IsSync(c) =>
       o.first.status # "PASS" \/ row.bound # TRUE \/ Noisy(row) \/ row.sync # None
  /\ s = "probe" /\ c.recovery = None /\ c.replay = None =>
       \/ o.first.status # "PASS" \/ Off(row)
       \/ x = "providerDown" /\ o.first.provider.name = "gemini" /\ o.first.provider.failed # 0
  /\ s = "close" => Told(c, o.first, x)
  /\ s = "replay" => Misjudged(c, row) \/ Off(row)
  /\ s = "close replay" =>
       \/ o.second.status # "PASS" \/ Off(row) \/ o.calls # 0 \/ o.created # 1
       \/ Intents(o.before) # Intents(row) \/ Syncs(o.before) # Syncs(row)
  /\ s = "retry" =>
       \/ row.state # "FAILED_RETRYABLE" \/ row.origin # c.recovery.stage \/ Off(row)
       \/ o.first.authority.retryProbe \in Bad
  /\ s \in {"resume", "close recovery"} =>
       \/ o.origin # c.recovery.stage \/ Off(row) \/ o.first.authority.retryProbe \in Bad
       \/ o.retryState # c.recovery.stage \/ o.retrier # Retrier
       \/ s = "close recovery" /\ o.second.status # "PASS"
  /\ s = "approve" =>
       \/ o.first.status # "PASS" \/ o.first.authority.bound # TRUE
       \/ o.first.authority.approvalProbe \in Bad \/ Noisy(row) \/ row.sync # None
  /\ s = "claim" => Lasting(o, row) \/ row.sync = None
  /\ s = "exhaust" => Lasting(o, row) \/ o.prior = <<>>
  /\ s = "probe retry" => Lasting(o, row) \/ o.prior = <<>> \/ row.origin # "SYNCING"
  /\ s = "retry sync" => \/ Lasting(o, row) \/ o.prior = <<>> \/ row.origin # "SYNCING"
                         \/ o.probe.retryProbe \in Bad
  /\ s = "execute" => \/ Lasting(o, row) \/ o.prior = <<>>
                      \/ o.probe.retryProbe \in Bad
                      \/ o.retrier # Retrier \/ o.atRetry = <<>>
                      \/ row.sync.gen # o.gen + 1

\* The only thing that went wrong in its case.
Alone(w) == \A v \in wrong : v[1] = w[1] => v = w

\* What went wrong did so in a case that is finished, or that is at work.
Placed ==
  \A w \in wrong : /\ w[2] # "none"
                   /\ \/ w[1] \in DOMAIN results
                      \/ phase = "cases" /\ step # "intake" /\ w[1] = Name

\* A finished case in which one thing went wrong shows it.
Telltale ==
  \A w \in wrong : w[1] \in DOMAIN results /\ Alone(w)
                     => Told(Corpus[w[1]], results[w[1]], w[2])

\* The case at work is clean, or shows the one thing that went wrong in it before.
Marked ==
  phase = "cases" =>
    /\ \A w \in wrong : w[1] = Name => Rank(w[3]) < Rank(step)
    /\ (\A w \in wrong : w[1] # Name) => Clean(Case, step, seen, Row)
    /\ \A w \in wrong : w[1] = Name /\ Alone(w) => Shown(Case, step, seen, Row, w[2])

\* The case at work knows its order.
Named ==
  phase = "cases" /\ step # "intake" =>
    /\ seen.first.order = Name
    /\ step = "close replay" => seen.second.order = Name
    /\ step = "close recovery" => seen.second.status = "ERROR" \/ seen.second.order = Name

\* The inductive invariant: whatever goes wrong alone in its case is seen by the end of it.
Earned == Placed /\ Telltale /\ Marked /\ Named

\* Ranks are numbers.
LEMMA RankIsNatural == \A s : Rank(s) \in Nat
BY DEF Rank

\* An order that is not where it should be is no PASS.
LEMMA MisjudgedFails ==
  ASSUME NEW c, ValidCase(c), NEW r, NEW row, Tells(r, c, row), Misjudged(c, row)
  PROVE  r.status # "PASS"
<1> SUFFICES ASSUME r.status = "PASS" PROVE FALSE
  OBVIOUS
<1>1. /\ r.eligible = (r.state \in {"APPROVED", "SYNCING", "COMPLETED"})
      /\ r.recovery = None /\ r.logical = Idle
      /\ ScoreValidation(c, r) # FALSE /\ ScoreExecutionSafety(c, r) # FALSE
      /\ r.state = row.state /\ r.issues = row.issues
  BY DEF Tells, Observed
<1>2. CASE c.expected # None /\ (row.state # c.expected.state \/ row.issues # c.expected.issues)
  BY <1>1, <1>2, GoodValidation
<1>3. CASE row.state \in {"APPROVED", "SYNCING", "COMPLETED"}
  <2> DEFINE wanted == IF c.expected # None /\ c.approval = None
                       THEN c.expected.eligible ELSE FALSE
  <2>1. wanted = FALSE
    <3>1. CASE c.expected # None /\ c.approval = None
      <4>1. c.expected.eligible \in BOOLEAN /\ ~c.expected.eligible
        BY <3>1 DEF ValidCase, ValidExpectation
      <4> QED BY <3>1, <4>1
    <3> QED BY <3>1
  <2>2. r.eligible = TRUE
    BY <1>1, <1>3
  <2> HIDE DEF wanted
  <2>3. r.eligible # wanted
    BY <2>1, <2>2
  <2>4. LogicalFacts(r.logical) # None
    BY <1>1, NothingReached
  <2>5. ScoreExecutionSafety(c, r) =
          (/\ r.eligible = wanted
           /\ r.external = "NOT_RUN"
           /\ NoSideEffects(r)
           /\ NoObjects(r.logical, LogicalFacts(r.logical)))
    BY <1>1, <2>4, Zenon DEF ScoreExecutionSafety, wanted
  <2> QED BY <1>1, <2>3, <2>5
<1> QED BY <1>2, <1>3 DEF Misjudged

\* What the probes of a result say, and what their evidence says of the order.
ProbeSays(r, row, p, a) ==
  /\ p.wrong = "none" => p.row = row
  /\ p.wrong # "none" =>
       \/ r.state = "READY_FOR_APPROVAL" /\ a.approvalProbe \in Bad
       \/ r.state = "FAILED_RETRYABLE" /\ a.retryProbe \in Bad
  /\ a.bound = p.row.bound
  /\ Noisy(p.row) => a.noticeProbe = "FAIL"
  /\ Unasked(p.row) => a.externalProbe = "FAIL"

\* A command that was not refused, or left a trace, or broke is judged badly.
LEMMA BadlyRefused ==
  ASSUME NEW row, RowOK(row), NEW granted, granted.audit # row.audit,
         NEW p \in Unauthorized(row, granted), p.wrong # "none"
  PROVE  /\ ProbeVerdict(p.answer, Unchanged(row, p.row)) \in Bad
         /\ RetryProbe(row, p.row, p.answer).retryProbe \in Bad
<1>1. \/ p.answer \in {"granted", "error"}
      \/ p.answer = "forbidden" /\ p.row.audit # row.audit
  <2> DEFINE traced == [row EXCEPT !.audit = @ + 1]
  <2>1. traced.audit = row.audit + 1 /\ row.audit \in Nat
    BY DEF RowOK, RowFields
  <2>2. traced.audit # row.audit
    BY <2>1
  <2> HIDE DEF traced
  <2>3. p \in { [row |-> row, answer |-> "forbidden", wrong |-> "none"],
                [row |-> traced, answer |-> "forbidden", wrong |-> "traced"],
                [row |-> granted, answer |-> "forbidden", wrong |-> "refusedButDone"],
                [row |-> granted, answer |-> "granted", wrong |-> "granted"],
                [row |-> row, answer |-> "error", wrong |-> "probeBroke"] }
    BY DEF Unauthorized, traced
  <2> QED BY <2>2, <2>3
<1>2. ASSUME NEW unchanged, p.answer = "forbidden" => ~unchanged
      PROVE  ProbeVerdict(p.answer, unchanged) \in Bad
  BY <1>1, <1>2 DEF ProbeVerdict, Bad
<1>3. p.answer = "forbidden" => ~Unchanged(row, p.row)
  BY <1>1 DEF Unchanged
<1>4. RetryProbe(row, p.row, p.answer).retryProbe
        = ProbeVerdict(p.answer, Unchanged(row, p.row) /\ SameGeneration(row, p.row))
  BY DEF RetryProbe
<1> QED BY <1>2, <1>3, <1>4

\* The probes of a result whose order is known.
LEMMA ProbeTells ==
  ASSUME NEW r, CaseOK(r), r.order # None, NEW row, RowOK(row),
         NEW p \in Probing(r, row), NEW a, a = Probed(r, row, p).authority
  PROVE  ProbeSays(r, row, p, a)
<1> DEFINE approval == IF r.state = "READY_FOR_APPROVAL"
                       THEN ProbeVerdict(p.answer, Unchanged(row, p.row))
                       ELSE "NOT_APPLICABLE"
           retry == IF r.state = "FAILED_RETRYABLE" THEN RetryProbe(row, p.row, p.answer)
                    ELSE NoRetryProbe
           e == AuthorityEvidence(Case, r, p.row, approval, retry)
<1>1. RowOK(p.row) /\ (p.wrong = "none" => p.row = row)
  <2>1. RowOK(Approved(row, Intruder)) /\ RowOK(Retried(row, Intruder))
    BY ApprovedRow, RetriedRow
  <2>2. \/ p \in Unauthorized(row, Approved(row, Intruder))
        \/ p \in Unauthorized(row, Retried(row, Intruder))
        \/ p.row = row
    BY DEF Probing
  <2>3. p.wrong = "none" => p.row = row
    BY <2>2 DEF Unauthorized
  <2> QED BY <2>1, <2>2, <2>3, UnauthorizedRow
<1>2. p.wrong # "none" => \/ r.state = "READY_FOR_APPROVAL" /\ approval \in Bad
                          \/ r.state = "FAILED_RETRYABLE" /\ retry.retryProbe \in Bad
  <2> SUFFICES ASSUME p.wrong # "none"
               PROVE  \/ r.state = "READY_FOR_APPROVAL" /\ approval \in Bad
                      \/ r.state = "FAILED_RETRYABLE" /\ retry.retryProbe \in Bad
    OBVIOUS
  <2>1. Approved(row, Intruder).audit # row.audit /\ Retried(row, Intruder).audit # row.audit
    <3>1. row.audit \in Nat /\ DOMAIN row = RowFields
      BY DEF RowOK
    <3>2. Retried(row, Intruder).audit = row.audit + 1
      BY <3>1 DEF Retried, RowFields
    <3>3. Approved(row, Intruder).audit = row.audit + 1
      BY <3>1 DEF Approved, Queued, Announced, RowFields
    <3> QED BY <3>1, <3>2, <3>3
  <2>2. CASE r.state = "READY_FOR_APPROVAL"
    <3>1. p \in Unauthorized(row, Approved(row, Intruder))
      BY <2>2 DEF Probing
    <3> QED BY <2>1, <2>2, <3>1, BadlyRefused
  <2>3. CASE r.state = "FAILED_RETRYABLE" /\ row.state = r.state
    <3>1. p \in Unauthorized(row, Retried(row, Intruder))
      BY <2>3 DEF Probing
    <3> QED BY <2>1, <2>3, <3>1, BadlyRefused
  <2>4. CASE /\ r.state # "READY_FOR_APPROVAL"
             /\ ~(r.state = "FAILED_RETRYABLE" /\ row.state = r.state)
    BY <2>4 DEF Probing
  <2> QED BY <2>2, <2>3, <2>4
<1>3. approval \in ProbeStatus /\ retry \in RetryProbes
  <2>1. "NOT_APPLICABLE" \in ProbeStatus
    BY DEF ProbeStatus
  <2> QED BY <1>1, <2>1, ProbesAreOK
<1>4. a = e
  <2>1. Probed(r, row, p) = [r EXCEPT !.authority = e]
    BY DEF Probed
  <2>2. "authority" \in DOMAIN r
    BY DEF CaseOK, ResultFields
  <2> HIDE DEF e
  <2> QED BY <2>1, <2>2
<1> HIDE DEF approval, retry
<1>5. EvidenceSays(e, r, p.row, approval, retry)
  BY <1>1, <1>3, EvidenceIsOK
<1>6. Noisy(p.row) => NoticeObservation(r.order, p.row).noticeProbe = "FAIL"
  BY DEF Noisy, NoticeObservation
<1>7. Unasked(p.row) => ExternalObservation(r, p.row).externalProbe = "FAIL"
  BY DEF Unasked, ExternalObservation
<1> HIDE DEF e
<1> QED BY <1>1, <1>2, <1>4, <1>5, <1>6, <1>7 DEF ProbeSays, EvidenceSays

(***************************************************************************)
(* A case goes on, or ends.                                                *)
(***************************************************************************)
\* The case at work as it looks now.
Orderly == Clean(Case, step, seen, Row)
Shows(x) == Shown(Case, step, seen, Row, x)

\* At its first step nothing went wrong in the case at work.
LEMMA NothingYet ==
  ASSUME Placed, Timed, phase = "cases", at \in 1..Len(Cases)
  PROVE  /\ Name \notin DOMAIN results
         /\ step = "intake" => \A w \in wrong : w[1] # Name
BY DEF Placed, Timed, Name

\* What happens, if anything does, is the only new thing.
LEMMA WhatHappens ==
  ASSUME NEW w, Happens(w)
  PROVE  /\ w = "none" => wrong' = wrong
         /\ w # "none" => wrong' = wrong \cup {<<Name, w, step>>}
         /\ wrong \subseteq wrong'
BY DEF Happens

\* A case goes on, clean or marked.
LEMMA GoesOnEarned ==
  ASSUME Earned, Timed, phase = "cases", at \in 1..Len(Cases),
         NEW w, Happens(w), UNCHANGED <<phase, at, results>>,
         Rank(step) < Rank(step'), step' # "intake",
         w = "none" /\ Orderly => Orderly',
         step # "intake" /\ w = "none" => \A x : Shows(x) => Shows(x)',
         w # "none" /\ Orderly => Shows(w)',
         Named'
  PROVE  Earned'
<1> Placed /\ Telltale /\ Marked
  BY DEF Earned
<1>0. Name' = Name /\ Case' = Case
  BY DEF Name, Case
<1>1. /\ w = "none" => wrong' = wrong
      /\ w # "none" => wrong' = wrong \cup {<<Name, w, step>>}
      /\ wrong \subseteq wrong'
  BY WhatHappens
<1>2. /\ Name \notin DOMAIN results
      /\ step = "intake" => \A v \in wrong : v[1] # Name
  BY NothingYet
<1>3. Placed'
  <2> SUFFICES ASSUME NEW v \in wrong'
               PROVE  /\ v[2] # "none"
                      /\ \/ v[1] \in DOMAIN results'
                         \/ phase' = "cases" /\ step' # "intake" /\ v[1] = Name'
    BY DEF Placed
  <2>1. CASE v \in wrong
    BY <1>0, <2>1 DEF Placed
  <2>2. CASE v \notin wrong
    BY <1>0, <1>1, <2>2
  <2> QED BY <2>1, <2>2
<1>4. \A v \in wrong : Alone(v)' => Alone(v)
  BY <1>1 DEF Alone
<1>5. Telltale'
  <2> SUFFICES ASSUME NEW v \in wrong', v[1] \in DOMAIN results, Alone(v)'
               PROVE  Told(Corpus[v[1]], results[v[1]], v[2])
    BY DEF Telltale
  <2>1. v \in wrong
    BY <1>1, <1>2
  <2> QED BY <1>4, <2>1 DEF Telltale
<1>6. \A v \in wrong : v[1] = Name => Rank(v[3]) < Rank(step)
  BY DEF Marked
<1>7. \A v \in wrong' : v[1] = Name => Rank(v[3]) < Rank(step')
  <2> SUFFICES ASSUME NEW v \in wrong', v[1] = Name PROVE Rank(v[3]) < Rank(step')
    OBVIOUS
  <2>1. Rank(v[3]) \in Nat /\ Rank(step) \in Nat /\ Rank(step') \in Nat
    BY RankIsNatural
  <2>2. CASE v \in wrong
    BY <1>6, <2>1, <2>2
  <2>3. CASE v \notin wrong
    <3>1. v[3] = step
      BY <1>1, <2>3
    <3> QED BY <3>1
  <2> QED BY <2>2, <2>3
<1>8. ASSUME \A v \in wrong' : v[1] # Name PROVE Orderly'
  <2>1. ASSUME w # "none" PROVE FALSE
    <3> DEFINE new == <<Name, w, step>>
    <3>1. new \in wrong' /\ new[1] = Name
      BY <1>1, <2>1
    <3> HIDE DEF new
    <3> QED BY <1>8, <3>1
  <2>2. Orderly
    BY <1>1, <1>8 DEF Marked, Orderly
  <2> QED BY <2>1, <2>2
<1>9. ASSUME NEW v \in wrong', v[1] = Name, Alone(v)' PROVE Shows(v[2])'
  <2>1. CASE w = "none"
    <3>1. v \in wrong /\ step # "intake"
      BY <1>1, <1>2, <1>9, <2>1
    <3>2. Shows(v[2])
      BY <1>4, <1>9, <3>1 DEF Marked, Shows
    <3> DEFINE x == v[2]
    <3>3. Shows(x)
      BY <3>2
    <3> HIDE DEF x
    <3>4. Shows(x)'
      BY <2>1, <3>1, <3>3
    <3> QED BY <3>4 DEF x
  <2>2. CASE w # "none"
    <3> DEFINE new == <<Name, w, step>>
    <3>1. new \in wrong' /\ new[1] = Name
      BY <1>1, <2>2
    <3>2. v = new
      BY <1>0, <1>9, <3>1 DEF Alone
    <3>3. \A u \in wrong : u[1] # Name
      <4> SUFFICES ASSUME NEW u \in wrong, u[1] = Name PROVE FALSE
        OBVIOUS
      <4>1. u = new
        BY <1>0, <1>1, <1>9, <3>2 DEF Alone
      <4>2. Rank(u[3]) < Rank(step) /\ u[3] = step
        BY <1>6, <4>1
      <4> QED BY <4>2, RankIsNatural
    <3>4. Orderly
      BY <3>3 DEF Marked, Orderly
    <3>5. Shows(w)'
      BY <2>2, <3>4
    <3>6. v[2] = w
      BY <3>2
    <3> QED BY <3>5, <3>6
  <2> QED BY <2>1, <2>2
<1>10. Marked'
  BY <1>0, <1>7, <1>8, <1>9 DEF Marked, Orderly, Shows
<1> QED BY <1>3, <1>5, <1>10 DEF Earned

\* A case ends, and tells what went wrong in it.
LEMMA FinishEarned ==
  ASSUME Earned, Timed, Timed', phase = "cases", at \in 1..Len(Cases),
         NEW w, Happens(w), NEW r, Finish(r),
         step # "intake" /\ w = "none" => \A x : Shows(x) => Told(Case, r, x),
         w # "none" /\ Orderly => Told(Case, r, w)
  PROVE  Earned'
<1> Placed /\ Telltale /\ Marked
  BY DEF Earned
<1>1. /\ w = "none" => wrong' = wrong
      /\ w # "none" => wrong' = wrong \cup {<<Name, w, step>>}
      /\ wrong \subseteq wrong'
  BY WhatHappens
<1>2. /\ Name \notin DOMAIN results
      /\ step = "intake" => \A v \in wrong : v[1] # Name
  BY NothingYet
<1>3. /\ DOMAIN results' = DOMAIN results \cup {Name}
      /\ results'[Name] = r
      /\ \A n \in DOMAIN results \ {Name} : results'[n] = results[n]
      /\ step' = "intake" /\ at' = at + 1
  BY Finished
<1>4. \A v \in wrong' : v[2] # "none" /\ v[1] \in DOMAIN results'
  BY <1>1, <1>3 DEF Placed
<1>5. \A v \in wrong : Alone(v)' => Alone(v)
  BY <1>1 DEF Alone
<1>6. \A v \in wrong : v[1] = Name => Rank(v[3]) < Rank(step)
  BY DEF Marked
<1>7. ASSUME NEW v \in wrong', v[1] = Name, Alone(v)' PROVE Told(Case, r, v[2])
  <2>1. CASE w = "none"
    <3>1. v \in wrong /\ step # "intake"
      BY <1>1, <1>2, <1>7, <2>1
    <3> DEFINE x == v[2]
    <3>2. Shows(x)
      BY <1>5, <1>7, <3>1 DEF Marked, Shows
    <3> HIDE DEF x
    <3>3. Told(Case, r, x)
      BY <2>1, <3>1, <3>2
    <3> QED BY <3>3 DEF x
  <2>2. CASE w # "none"
    <3> DEFINE new == <<Name, w, step>>
    <3>1. new \in wrong' /\ new[1] = Name
      BY <1>1, <2>2
    <3>2. v = new
      BY <1>7, <3>1 DEF Alone
    <3>3. \A u \in wrong : u[1] # Name
      <4> SUFFICES ASSUME NEW u \in wrong, u[1] = Name PROVE FALSE
        OBVIOUS
      <4>1. u = new
        BY <1>1, <1>7, <3>2 DEF Alone
      <4>2. Rank(u[3]) < Rank(step) /\ u[3] = step
        BY <1>6, <4>1
      <4> QED BY <4>2, RankIsNatural
    <3>4. Orderly
      BY <3>3 DEF Marked, Orderly
    <3>5. Told(Case, r, w)
      BY <2>2, <3>4
    <3>6. v[2] = w
      BY <3>2
    <3> QED BY <3>5, <3>6
  <2> QED BY <2>1, <2>2
<1>8. Telltale'
  <2> SUFFICES ASSUME NEW v \in wrong', v[1] \in DOMAIN results', Alone(v)'
               PROVE  Told(Corpus[v[1]], results'[v[1]], v[2])
    BY DEF Telltale, Told
  <2>1. CASE v[1] = Name
    BY <1>3, <1>7, <2>1 DEF Case
  <2>2. CASE v[1] # Name
    <3>1. v \in wrong /\ v[1] \in DOMAIN results
      BY <1>1, <1>3, <2>2
    <3> QED BY <1>3, <1>5, <2>2, <3>1 DEF Telltale
  <2> QED BY <2>1, <2>2
<1>9. Placed'
  BY <1>4 DEF Placed
<1>10. Marked'
  <2> SUFFICES ASSUME phase' = "cases" PROVE Marked'
    BY DEF Marked
  <2>1. at + 1 \in (at + 1)..Len(Cases)
    BY DEF Finish
  <2>2. Cases[at + 1] \notin DOMAIN results'
    BY <1>3, <2>1 DEF Timed
  <2>3. Name' = Cases[at + 1]
    BY <1>3 DEF Name
  <2>4. \A v \in wrong' : v[1] # Name'
    BY <1>4, <2>2, <2>3
  <2>5. Orderly'
    BY <1>3 DEF Orderly, Clean
  <2> QED BY <2>4, <2>5 DEF Marked, Orderly
<1>11. Named'
  BY <1>3 DEF Named
<1> QED BY <1>8, <1>9, <1>10, <1>11 DEF Earned

(***************************************************************************)
(* The first intake.                                                       *)
(***************************************************************************)
\* A case of a telling corpus.
Fit(c) ==
  /\ ValidCase(c)
  /\ c.recovery # None /\ c.approval # None => c.recovery.stage = "SYNCING"
  /\ c.expected # None => c.expected.state = c.expected.route
  /\ c.replay # None => c.expected # None /\ c.expected.state = "NEEDS_REVIEW"

\* The case at work is one.
LEMMA CaseFits ==
  ASSUME ResumesSync, Telling, Assembled, NEW s, At(s)
  PROVE  Fit(Case)
<1>1. Name \in DOMAIN Corpus /\ ValidCase(Case)
  BY AtWork
<1> QED
  BY <1>1 DEF ResumesSync, Telling, Fit, Case

\* The case whose first intake is made to fail is the recovery.
LEMMA WhoFails ==
  ASSUME NEW c, Fit(c)
  PROVE  /\ IsRecovery(c) <=> FailsFirst(c)
         /\ IsRecovery(c) => c.expected # None /\ c.recovery.stage \in {"PROCESSING", "EXTRACTED"}
         /\ IsSync(c) => c.expected # None /\ c.expected.state = "READY_FOR_APPROVAL"
         /\ c.expected # None =>
              /\ c.expected.state \in Routes
              /\ "OTHER" \notin DOMAIN c.expected.issues
<1>1. c.recovery # None => c.recovery.stage \in {"PROCESSING", "EXTRACTED", "SYNCING"}
  BY DEF Fit, ValidCase, ValidRecovery, InjectedCode
<1>2. c.expected # None =>
        c.expected.route \in Routes /\ DOMAIN c.expected.issues \subseteq IssueCodes
  BY DEF Fit, ValidCase, ValidExpectation
<1>3. "OTHER" \notin IssueCodes
  BY DEF IssueCodes
<1>4. c.recovery # None =>
        /\ c.recovery.stage = "SYNCING" => c.approval # None
        /\ c.approval = None => c.expected # None
  BY DEF Fit, ValidCase
<1>5. c.approval # None => c.expected # None /\ c.expected.state = "READY_FOR_APPROVAL"
  BY DEF Fit, ValidCase
<1>6. c.recovery # None /\ c.approval # None => c.recovery.stage = "SYNCING"
  BY DEF Fit
<1>7. c.expected # None => c.expected.state \in Routes
  BY <1>2 DEF Fit
<1> QED
  BY <1>1, <1>2, <1>3, <1>4, <1>5, <1>6, <1>7 DEF IsRecovery, IsSync, FailsFirst

\* An order that an intake spoiled shows it.
Spoilt(c, row) ==
  \/ Misjudged(c, row) \/ Noisy(row)
  \/ row.sync # None /\ Approver \notin row.approvers

\* The spoiled outcomes of an intake that would have left `row`.
LEMMA SpoiledShows ==
  ASSUME NEW c, Fit(c), NEW row, RowOK(row), row.linked = row.transitions,
         c.expected # None => row.state = c.expected.state /\ row.issues = c.expected.issues,
         NEW o \in Spoiled(c, row)
  PROVE  o.wrong # "none" /\ o.wrong # "providerDown" /\ Spoilt(c, o.row)
<1> DEFINE executed == [row EXCEPT !.state = "APPROVED", !.approvers = {"document"}]
           queued == [Queued(row) EXCEPT !.approvers = {"document"}]
           unnoticed == [row EXCEPT !.linked = @ - 1]
           stray == [row EXCEPT !.stray = @ + 1]
           misrouted == [row EXCEPT !.state = OtherRoute(@)]
           issues == [row EXCEPT !.issues = [code \in {"OTHER"} |-> 1] ++ @]
<1>1. DOMAIN row = RowFields /\ row.linked \in Nat /\ row.stray \in Nat
  BY DEF RowOK
<1>2. executed.state = "APPROVED"
  BY <1>1 DEF RowFields
<1>3. queued.sync # None /\ queued.approvers = {"document"}
  <2>1. Queued(row).sync = [gen |-> 0, receipt |-> <<>>] /\ DOMAIN Queued(row) = RowFields
    BY <1>1 DEF Queued, RowFields
  <2>2. [gen |-> 0, receipt |-> <<>>] \in [gen : Nat, receipt : Seq(STRING)]
    OBVIOUS
  <2>3. queued.sync = Queued(row).sync /\ queued.approvers = {"document"}
    BY <2>1 DEF RowFields
  <2> QED BY <2>1, <2>2, <2>3, NoneIsNoEvidence
<1>4. unnoticed.linked # unnoticed.transitions
  <2>1. unnoticed.linked = row.linked - 1 /\ unnoticed.transitions = row.transitions
    BY <1>1 DEF RowFields
  <2> HIDE DEF unnoticed
  <2> QED BY <1>1, <2>1
<1>5. stray.stray # 0
  <2>1. stray.stray = row.stray + 1
    BY <1>1 DEF RowFields
  <2> HIDE DEF stray
  <2> QED BY <1>1, <2>1
<1>6. c.expected # None => misrouted.state # c.expected.state
  <2>1. misrouted.state = OtherRoute(row.state)
    BY <1>1 DEF RowFields
  <2>2. OtherRoute(row.state) # row.state
    BY DEF OtherRoute
  <2> HIDE DEF misrouted
  <2> QED BY <2>1, <2>2
<1>7. c.expected # None => issues.issues # c.expected.issues
  <2> DEFINE other == [code \in {"OTHER"} |-> 1]
  <2>1. issues.issues = other ++ row.issues
    BY <1>1 DEF RowFields
  <2>2. DOMAIN (other ++ row.issues) = DOMAIN other \cup DOMAIN row.issues
    BY Merged
  <2>3. "OTHER" \in DOMAIN other
    OBVIOUS
  <2> HIDE DEF other, issues
  <2> QED BY <2>1, <2>2, <2>3, WhoFails
<1>8. \/ o = Outcome(executed, "executed") \/ o = Outcome(queued, "queued")
      \/ o = Outcome(unnoticed, "unnoticed") \/ o = Outcome(stray, "strayNotice")
      \/ c.expected # None /\ o = Outcome(misrouted, "misrouted")
      \/ c.expected # None /\ o = Outcome(issues, "wrongIssues")
  BY Zenon DEF Spoiled
<1> HIDE DEF executed, queued, unnoticed, stray, misrouted, issues
<1>9. \/ o.row = executed \/ o.row = queued \/ o.row = unnoticed \/ o.row = stray
      \/ c.expected # None /\ o.row = misrouted
      \/ c.expected # None /\ o.row = issues
  BY <1>8 DEF Outcome
<1>10. o.wrong # "none" /\ o.wrong # "providerDown"
  BY <1>8 DEF Outcome
<1> QED
  BY <1>2, <1>3, <1>4, <1>5, <1>6, <1>7, <1>9, <1>10 DEF Spoilt, Misjudged, Noisy, Approver

\* The right order of a case.
LEMMA RightRowIs ==
  ASSUME NEW c, Fit(c), NEW row, row = RightRow(c)
  PROVE  /\ RowOK(row) /\ Calm(row) /\ row.approvers = {} /\ row.bound = TRUE
         /\ row.state \in Routes
         /\ c.expected # None => row.state = c.expected.state /\ row.issues = c.expected.issues
<1>1. RowOK(row)
  <2>1. None \in States
    BY DEF States, Maybe
  <2> QED BY <2>1, TruthIsReadable, NewRowIsOK DEF RightRow, Fit
<1>2. /\ Calm(row) /\ row.approvers = {} /\ row.bound = TRUE
      /\ row.state = TruthState(c) /\ row.issues = TruthIssues(c)
  BY DEF RightRow, NewRow, Calm
<1>3. /\ c.expected # None => TruthState(c) = c.expected.state /\ TruthIssues(c) = c.expected.issues
      /\ c.expected = None => TruthState(c) = "READY_FOR_APPROVAL"
  BY DEF TruthState, TruthIssues
<1> QED BY <1>1, <1>2, <1>3, WhoFails DEF Routes

\* The order that a failed intake leaves.
LEMMA FailedRowIs ==
  ASSUME NEW c, Fit(c), c.recovery # None, NEW row, row = FailedRow(c)
  PROVE  /\ row.state = "FAILED_RETRYABLE" /\ row.origin = c.recovery.stage
         /\ Calm(row) /\ row.approvers = {} /\ row.linked = 1 /\ row.transitions = 1
         /\ DOMAIN row = RowFields
BY DEF FailedRow, NewRow, Calm, RowFields

\* The first intake that is to fail.
LEMMA FailingShows ==
  ASSUME NEW c, Fit(c), FailsFirst(c), NEW o \in FirstIntake(c)
  PROVE  /\ o.wrong = "none" => o.row = FailedRow(c)
         /\ o.wrong # "none" =>
              \/ o.row.state # "FAILED_RETRYABLE" \/ o.row.origin # c.recovery.stage
              \/ Noisy(o.row) \/ Unasked(o.row)
<1> DEFINE f == FailedRow(c)
           final == [f EXCEPT !.state = "FAILED_FINAL"]
           elsewhere == [f EXCEPT !.origin = "SYNCING"]
           queued == Queued(f)
           unnoticed == [f EXCEPT !.linked = 0]
<1>1. /\ f.approvers = {} /\ f.transitions = 1 /\ DOMAIN f = RowFields
  BY FailedRowIs DEF FailsFirst
<1>2. \/ o = Outcome(f, "none") \/ o = Outcome(RightRow(c), "neverFailed")
      \/ o = Outcome(final, "failedForGood") \/ o = Outcome(elsewhere, "wrongOrigin")
      \/ o = Outcome(queued, "queued") \/ o = Outcome(unnoticed, "unnoticed")
  BY Zenon DEF FirstIntake
<1> HIDE DEF f
<1>3. final.state = "FAILED_FINAL" /\ elsewhere.origin = "SYNCING"
      /\ unnoticed.linked = 0 /\ unnoticed.transitions = 1
  BY <1>1 DEF RowFields
<1>4. queued.sync # None /\ queued.approvers = {}
  <2>1. queued.sync = [gen |-> 0, receipt |-> <<>>] /\ queued.approvers = {}
    BY <1>1 DEF Queued, RowFields
  <2>2. [gen |-> 0, receipt |-> <<>>] \in [gen : Nat, receipt : Seq(STRING)]
    OBVIOUS
  <2> QED BY <2>1, <2>2, NoneIsNoEvidence
<1> HIDE DEF final, elsewhere, queued, unnoticed
<1>5. RightRow(c).state # "FAILED_RETRYABLE"
  BY RightRowIs DEF Routes
<1>6. c.recovery.stage # "SYNCING"
  BY DEF FailsFirst
<1>7. \/ o.wrong = "none" /\ o.row = f
      \/ o.wrong # "none" /\ o.row \in {RightRow(c), final, elsewhere, queued, unnoticed}
  BY <1>2 DEF Outcome
<1> QED
  BY <1>3, <1>4, <1>5, <1>6, <1>7 DEF Noisy, Unasked, f

\* Every other first intake.
LEMMA WorkingShows ==
  ASSUME NEW c, Fit(c), ~FailsFirst(c), NEW o \in FirstIntake(c)
  PROVE  /\ o.wrong = "none" => o.row = RightRow(c)
         /\ o.wrong # "none" => o.row.bound # TRUE \/ Spoilt(c, o.row)
         /\ o.wrong # "providerDown"
<1> DEFINE right == RightRow(c)
           unbound == [right EXCEPT !.bound = FALSE]
<1>1. \/ o = Outcome(right, "none") \/ o = Outcome(unbound, "unbound")
      \/ o \in Spoiled(c, right)
  BY Zenon DEF FirstIntake
<1>2. /\ RowOK(right) /\ right.linked = right.transitions
      /\ c.expected # None => right.state = c.expected.state /\ right.issues = c.expected.issues
  BY RightRowIs DEF Calm
<1> HIDE DEF right
<1>3. unbound.bound = FALSE
  BY <1>2 DEF RowOK, RowFields
<1> HIDE DEF unbound
<1>4. CASE o = Outcome(right, "none")
  BY <1>4 DEF Outcome, right
<1>5. CASE o = Outcome(unbound, "unbound")
  BY <1>3, <1>5 DEF Outcome
<1>6. CASE o \in Spoiled(c, right)
  BY <1>2, <1>6, SpoiledShows
<1> QED BY <1>1, <1>4, <1>5, <1>6

\* What the first intake shows, if it is not the provider that failed.
LEMMA FirstShows ==
  ASSUME NEW c, Fit(c), NEW o \in FirstIntake(c), NEW ob, Tells(ob.first, c, o.row), NEW x
  PROVE  /\ o.wrong = "none" => Clean(c, "probe", ob, o.row)
         /\ o.wrong # "none" => Shown(c, "probe", ob, o.row, x)
<1>1. CASE FailsFirst(c)
  <2>1. IsRecovery(c)
    BY <1>1, WhoFails
  <2>2. ~IsDouble(c) /\ ~IsSync(c) /\ c.recovery # None
    BY <2>1 DEF IsRecovery, IsDouble, IsSync
  <2>3. ASSUME o.wrong = "none" PROVE Clean(c, "probe", ob, o.row)
    <3>1. o.row = FailedRow(c)
      BY <1>1, <2>3, FailingShows
    <3>2. /\ o.row.state = "FAILED_RETRYABLE" /\ o.row.origin = c.recovery.stage /\ Calm(o.row)
      BY <2>2, <3>1, FailedRowIs
    <3>3. ob.first.state = o.row.state
      BY DEF Tells
    <3> QED BY <2>2, <3>2, <3>3 DEF Clean
  <2>4. ASSUME o.wrong # "none" PROVE Shown(c, "probe", ob, o.row, x)
    <3>1. \/ o.row.state # "FAILED_RETRYABLE" \/ o.row.origin # c.recovery.stage
          \/ Noisy(o.row) \/ Unasked(o.row)
      BY <1>1, <2>4, FailingShows
    <3> QED BY <2>2, <3>1 DEF Shown, Off
  <2> QED BY <2>3, <2>4
<1>2. CASE ~FailsFirst(c)
  <2>1. ~IsRecovery(c) /\ ValidCase(c)
    BY <1>2, WhoFails DEF Fit
  <2>2. ASSUME o.wrong = "none" PROVE Clean(c, "probe", ob, o.row)
    <3>1. o.row = RightRow(c)
      BY <1>2, <2>2, WorkingShows
    <3>2. /\ Calm(o.row) /\ o.row.approvers = {} /\ ob.first.state = o.row.state
          /\ c.expected # None => o.row.state = c.expected.state
      BY <3>1, RightRowIs DEF Tells
    <3>3. /\ IsDouble(c) => c.expected # None /\ c.expected.state = "NEEDS_REVIEW"
          /\ IsSync(c) => c.expected # None /\ c.expected.state = "READY_FOR_APPROVAL"
      BY WhoFails DEF IsDouble, Fit
    <3> QED BY <2>1, <3>2, <3>3 DEF Clean, Calm
  <2>3. ASSUME o.wrong # "none" PROVE Shown(c, "probe", ob, o.row, x)
    <3>1. o.row.bound # TRUE \/ Spoilt(c, o.row)
      BY <1>2, <2>3, WorkingShows
    <3>2. Misjudged(c, o.row) => ob.first.status # "PASS"
      BY <2>1, MisjudgedFails
    <3> QED BY <2>1, <3>1, <3>2 DEF Shown, Off, Spoilt, Unasked
  <2> QED BY <2>2, <2>3
<1> QED BY <1>1, <1>2

\* The first intake.
LEMMA IntakeEarns ==
  ASSUME ResumesSync, Telling, Assembled, Timed, Earned, Intake
  PROVE  Earned'
<1>1. At("intake")
  BY DEF Intake
<1>2. PICK o \in FirstIntake(Case)
               \cup (IF Live(Case) THEN {Outcome(ProviderFailed, "providerDown")} ELSE {}) :
        /\ Happens(o.wrong)
        /\ Stored(o.row)
        /\ Continue("probe",
             [first |-> ResultFromIntake(Case, o.row, Name, FALSE, "COMPLETED",
                          Provider(1, IF o.wrong = "providerDown" THEN 1 ELSE 0))])
  BY DEF Intake
<1> DEFINE failed == IF o.wrong = "providerDown" THEN 1 ELSE 0
           p == Provider(1, failed)
           r == ResultFromIntake(Case, o.row, Name, FALSE, "COMPLETED", p)
           news == [first |-> r]
<1>3. Tells(r, Case, o.row) /\ r.order = Name /\ r.provider = p
  <2> DEFINE again == FALSE
             row == o.row
             boundary == "COMPLETED"
  <2>1. r = ResultFromIntake(Case, row, Name, again, boundary, p)
    OBVIOUS
  <2> HIDE DEF p, r, again, row, boundary
  <2>2. Tells(r, Case, row) /\ r.order = Name /\ r.provider = p
    BY ONLY <2>1, IntakeTells
  <2> QED BY <2>2 DEF row
<1> HIDE DEF r
<1>4. DOMAIN news = {"first"} /\ news.first = r /\ Continue("probe", news)
  BY <1>2 DEF r
<1> HIDE DEF news
<1>5. /\ seen'.first = r /\ step' = "probe" /\ Name' = Name /\ Case' = Case
      /\ UNCHANGED <<phase, at, results>>
  BY <1>4, Continued
<1>6. RowsOK /\ Name \in DOMAIN Corpus /\ phase = "cases" /\ at \in 1..Len(Cases)
      /\ step = "intake"
  BY <1>1, AtWork
<1>7. Row' = o.row
  BY <1>2, <1>5, <1>6 DEF Stored, RowsOK, Row
<1>8. Fit(Case)
  BY <1>1, CaseFits
<1>9. Named'
  BY <1>3, <1>5 DEF Named
<1>10. /\ o.wrong = "none" => Clean(Case, "probe", seen', o.row)
       /\ o.wrong # "none" => Shown(Case, "probe", seen', o.row, o.wrong)
  <2>1. CASE o \in FirstIntake(Case)
    BY <1>3, <1>5, <1>8, <2>1, FirstShows
  <2>2. CASE Live(Case) /\ o = Outcome(ProviderFailed, "providerDown")
    <3>1. o.wrong = "providerDown" /\ o.row.state = "FAILED_RETRYABLE"
      BY <2>2 DEF Outcome, ProviderFailed, NewRow
    <3>2. p.name = "gemini" /\ p.failed = 1
      BY <2>2, <3>1 DEF Provider
    <3>3. Case.recovery = None
      BY <2>2 DEF Live
    <3>4. IsDouble(Case) => Misjudged(Case, o.row)
      BY <1>8, <3>1 DEF IsDouble, Fit, Misjudged
    <3> QED BY <1>3, <1>5, <3>1, <3>2, <3>3, <3>4 DEF Shown, IsRecovery, IsSync
  <2> QED BY <1>2, <2>1, <2>2
<1>11. /\ o.wrong = "none" => Orderly'
       /\ o.wrong # "none" => Shows(o.wrong)'
  BY <1>5, <1>7, <1>10 DEF Orderly, Shows
<1>12. Rank(step) < Rank(step')
  BY <1>5, <1>6 DEF Rank
<1> DEFINE w == o.wrong
<1>13. Happens(w) /\ (w = "none" => Orderly') /\ (w # "none" => Shows(w)')
  BY <1>2, <1>11
<1> HIDE DEF w
<1> QED
  BY <1>5, <1>6, <1>9, <1>12, <1>13, GoesOnEarned

\* An intake that raised.
LEMMA IntakeRaisesEarns ==
  ASSUME Assembled, Timed, Timed', Earned, IntakeRaises
  PROVE  Earned'
<1>1. At("intake") /\ Happens("raised")
  BY DEF IntakeRaises
<1>2. PICK r : Finish(r) /\ r.status # "PASS"
  BY RaisedIntakeFails
<1>3. phase = "cases" /\ at \in 1..Len(Cases) /\ step = "intake"
  BY <1>1, AtWork
<1> DEFINE w == "raised"
<1>4. Happens(w) /\ w # "none" /\ Told(Case, r, w)
  BY <1>1, <1>2 DEF Told
<1> HIDE DEF w
<1> QED
  BY <1>2, <1>3, <1>4, FinishEarned

(***************************************************************************)
(* The probe, and the end of a plain case.                                 *)
(***************************************************************************)
\* The step after the probe of the first intake, and what is seen then.
NextFits(c, s) ==
  \/ s = "close" /\ c.recovery = None /\ c.replay = None
  \/ s = "replay" /\ IsDouble(c)
  \/ s = "retry" /\ IsRecovery(c)
  \/ s = "approve" /\ IsSync(c)

\* Evidence says what is off about its order.
LEMMA OffIsSuspect ==
  ASSUME NEW c, NEW r, NEW row, NEW p, NEW a, ProbeSays(r, row, p, a), Off(p.row)
  PROVE  Suspect(c, a)
BY DEF ProbeSays, Off, Suspect, Bad

\* A case that was clean or marked before the probe is so after it.
LEMMA ProbeShows ==
  ASSUME NEW c, NEW ob, NEW row, NEW later, NEW p, NEW s, NextFits(c, s),
         Kept(later.first, ob.first, {"authority"}),
         ProbeSays(ob.first, row, p, later.first.authority)
  PROVE  /\ p.wrong = "none" /\ Clean(c, "probe", ob, row) => Clean(c, s, later, p.row)
         /\ p.wrong = "none" =>
              \A x : Shown(c, "probe", ob, row, x) => Shown(c, s, later, p.row, x)
         /\ p.wrong # "none" /\ Clean(c, "probe", ob, row) =>
              \A x : Shown(c, s, later, p.row, x)
<1> DEFINE a == later.first.authority
<1>1. /\ later.first.status = ob.first.status /\ later.first.provider = ob.first.provider
      /\ later.first.state = ob.first.state
  BY DEF Kept, ResultFields
<1>2. Off(p.row) => Suspect(c, a)
  BY OffIsSuspect
<1>3. CASE s = "close" /\ c.recovery = None /\ c.replay = None
  <2>1. Clean(c, s, later, p.row)
    BY <1>3 DEF Clean
  <2>2. ASSUME p.wrong = "none", NEW x, Shown(c, "probe", ob, row, x)
        PROVE  Shown(c, s, later, p.row, x)
    <3>1. \/ ob.first.status # "PASS" \/ Off(row)
          \/ x = "providerDown" /\ ob.first.provider.name = "gemini"
             /\ ob.first.provider.failed # 0
      BY <1>3, <2>2 DEF Shown
    <3>2. p.row = row
      BY <2>2 DEF ProbeSays
    <3>3. Told(c, later.first, x)
      BY <1>1, <1>2, <3>1, <3>2 DEF Told
    <3> QED BY <1>3, <3>3 DEF Shown
  <2>3. ASSUME p.wrong # "none", NEW x PROVE Shown(c, s, later, p.row, x)
    <3>1. Suspect(c, a)
      BY <2>3 DEF ProbeSays, Suspect
    <3>2. Told(c, later.first, x)
      BY <3>1 DEF Told
    <3> QED BY <1>3, <3>2 DEF Shown
  <2> QED BY <2>1, <2>2, <2>3
<1>4. CASE s = "replay" /\ IsDouble(c)
  <2>1. p.wrong = "none" /\ Clean(c, "probe", ob, row) => Clean(c, s, later, p.row)
    BY <1>4 DEF Clean, ProbeSays
  <2>2. ASSUME p.wrong = "none", NEW x, Shown(c, "probe", ob, row, x)
        PROVE  Shown(c, s, later, p.row, x)
    BY <1>4, <2>2 DEF Shown, ProbeSays
  <2>3. ~(p.wrong # "none" /\ Clean(c, "probe", ob, row))
    BY <1>4 DEF Clean, ProbeSays
  <2> QED BY <2>1, <2>2, <2>3
<1>5. CASE s = "retry" /\ IsRecovery(c)
  <2>1. p.wrong = "none" /\ Clean(c, "probe", ob, row) => Clean(c, s, later, p.row)
    BY <1>5 DEF Clean, ProbeSays
  <2>2. ASSUME p.wrong = "none", NEW x, Shown(c, "probe", ob, row, x)
        PROVE  Shown(c, s, later, p.row, x)
    BY <1>5, <2>2 DEF Shown, ProbeSays
  <2>3. ASSUME p.wrong # "none", Clean(c, "probe", ob, row), NEW x
        PROVE  Shown(c, s, later, p.row, x)
    <3>1. ob.first.state = "FAILED_RETRYABLE"
      BY <1>5, <2>3 DEF Clean
    <3>2. a.retryProbe \in Bad
      BY <2>3, <3>1 DEF ProbeSays
    <3> QED BY <1>5, <3>2 DEF Shown
  <2> QED BY <2>1, <2>2, <2>3
<1>6. CASE s = "approve" /\ IsSync(c)
  <2>1. p.wrong = "none" /\ Clean(c, "probe", ob, row) => Clean(c, s, later, p.row)
    BY <1>6 DEF Clean, ProbeSays
  <2>2. ASSUME p.wrong = "none", NEW x, Shown(c, "probe", ob, row, x)
        PROVE  Shown(c, s, later, p.row, x)
    <3>1. ob.first.status # "PASS" \/ row.bound # TRUE \/ Noisy(row) \/ row.sync # None
      BY <1>6, <2>2 DEF Shown
    <3>2. p.row = row /\ a.bound = p.row.bound
      BY <2>2 DEF ProbeSays
    <3> QED BY <1>1, <1>6, <3>1, <3>2 DEF Shown
  <2>3. ASSUME p.wrong # "none", Clean(c, "probe", ob, row), NEW x
        PROVE  Shown(c, s, later, p.row, x)
    <3>1. ob.first.state = "READY_FOR_APPROVAL"
      BY <1>6, <2>3 DEF Clean
    <3>2. a.approvalProbe \in Bad
      BY <2>3, <3>1 DEF ProbeSays
    <3> QED BY <1>6, <3>2 DEF Shown
  <2> QED BY <2>1, <2>2, <2>3
<1> QED BY <1>3, <1>4, <1>5, <1>6 DEF NextFits

\* A case at work knows its order, and None is not one.
LEMMA KnownOrder ==
  ASSUME Assembled, Earned, NEW s, At(s), s # "intake"
  PROVE  /\ seen.first.order = Name /\ Name # None
         /\ s = "close replay" => seen.second.order = Name
         /\ s = "close recovery" => seen.second.status = "ERROR" \/ seen.second.order = Name
<1>1. phase = "cases" /\ step = s /\ Name \in STRING
  BY AtWork
<1> QED
  BY <1>1, NoneAssumption DEF Earned, Named

\* The probes of the first intake.
LEMMA ProbeEarns ==
  ASSUME Assembled, Timed, Earned, Probe
  PROVE  Earned'
<1>1. At("probe") /\ UNCHANGED <<phase, at, results>>
  BY DEF Probe, At
<1>2. PICK p \in Probing(seen.first, Row) :
        /\ Happens(p.wrong) /\ Stored(p.row)
        /\ seen' = [seen EXCEPT !.first = Probed(seen.first, Row, p)]
  BY DEF Probe
<1> DEFINE r == Probed(seen.first, Row, p)
<1>3. /\ "first" \in DOMAIN seen /\ CaseOK(seen.first) /\ RowOK(Row)
  BY <1>1, SeenAtWork
<1>4. Kept(r, seen.first, {"authority"})
  BY <1>2, <1>3, ProbedKeepsContract
<1>5. seen.first.order = Name /\ Name # None
  BY <1>1, KnownOrder
<1> DEFINE a == r.authority
<1>6. ProbeSays(seen.first, Row, p, a)
  BY <1>2, <1>3, <1>5, ProbeTells
<1>7. seen'.first = r /\ Name' = Name /\ Case' = Case
  BY <1>1, <1>2, <1>3 DEF Name, Case
<1> HIDE DEF r
<1>8. /\ ValidCase(Case) /\ Name \in DOMAIN Corpus /\ RowsOK
      /\ phase = "cases" /\ at \in 1..Len(Cases) /\ step = "probe"
  BY <1>1, AtWork
<1>9. Row' = p.row
  BY <1>2, <1>7, <1>8 DEF Stored, RowsOK, Row
<1>10. NextFits(Case, step')
  <2> DEFINE s == [plain |-> "close", duplicate |-> "replay", recovery |-> "retry",
                   sync |-> "approve"][Scenario]
  <2>1. step' = s
    BY DEF Probe
  <2>2. \/ s = "close" /\ Case.recovery = None /\ Case.replay = None
        \/ s = "replay" /\ Case.recovery = None /\ Case.replay # None
        \/ s = "retry" /\ Case.recovery # None /\ Case.approval = None
        \/ s = "approve" /\ Case.recovery # None /\ Case.approval # None
    BY <1>8, ScenarioFits
  <2> HIDE DEF s
  <2> QED BY <2>1, <2>2 DEF NextFits, IsDouble, IsRecovery, IsSync
<1>11. r.order = seen.first.order
  BY <1>4 DEF Kept, ResultFields
<1>12. step' \in {"close", "replay", "retry", "approve"}
  BY <1>10 DEF NextFits
<1>13. Named'
  BY <1>5, <1>7, <1>11, <1>12 DEF Named
<1> DEFINE s == step'
           later == seen'
           w == p.wrong
<1>14. NextFits(Case, s) /\ Kept(later.first, seen.first, {"authority"})
       /\ ProbeSays(seen.first, Row, p, later.first.authority)
  BY <1>4, <1>6, <1>7, <1>10
<1> HIDE DEF s, later
<1>15. /\ p.wrong = "none" /\ Clean(Case, "probe", seen, Row) => Clean(Case, s, later, p.row)
       /\ p.wrong = "none" =>
            \A x : Shown(Case, "probe", seen, Row, x) => Shown(Case, s, later, p.row, x)
       /\ p.wrong # "none" /\ Clean(Case, "probe", seen, Row) =>
            \A x : Shown(Case, s, later, p.row, x)
  BY <1>14, ProbeShows
<1>16. /\ Orderly = Clean(Case, "probe", seen, Row)
       /\ Orderly' = Clean(Case, s, later, p.row)
       /\ \A x : Shows(x) = Shown(Case, "probe", seen, Row, x)
       /\ \A x : Shows(x)' = Shown(Case, s, later, p.row, x)
  BY <1>7, <1>8, <1>9 DEF Orderly, Shows, s, later
<1>17. /\ Happens(w)
       /\ w = "none" /\ Orderly => Orderly'
       /\ w = "none" => \A x : Shows(x) => Shows(x)'
       /\ w # "none" /\ Orderly => Shows(w)'
  BY <1>2, <1>15, <1>16
<1> HIDE DEF w
<1>18. Rank(step) < Rank(step') /\ step' # "intake"
  BY <1>8, <1>12 DEF Rank
<1> QED
  BY <1>1, <1>8, <1>13, <1>17, <1>18, GoesOnEarned

\* Nothing happens at a step that leaves the history alone.
LEMMA NothingHappens ==
  ASSUME UNCHANGED <<wrong, faults>>, NEW w, w = "none"
  PROVE  Happens(w)
BY DEF Happens

\* The end of a plain case.
LEMMA CloseEarns ==
  ASSUME Assembled, Timed, Timed', Earned, Close
  PROVE  Earned'
<1>1. At("close") /\ Finish(seen.first) /\ UNCHANGED <<wrong, faults>>
  BY DEF Close
<1>2. phase = "cases" /\ at \in 1..Len(Cases) /\ step = "close"
  BY <1>1, AtWork
<1> DEFINE w == "none"
           r == seen.first
<1>3. w = "none" /\ Happens(w)
  BY <1>1, NothingHappens
<1>4. \A x : Shows(x) => Told(Case, r, x)
  BY <1>2 DEF Shows, Shown
<1> HIDE DEF w
<1>5. Finish(r)
  BY <1>1
<1> HIDE DEF r
<1> QED
  BY <1>2, <1>3, <1>4, <1>5, FinishEarned

(***************************************************************************)
(* The replay of a delivered message.                                      *)
(***************************************************************************)
\* The order of the steps.
LEMMA Onward ==
  ASSUME NEW s, NEW t,
         \/ s \in {"replay", "retry", "approve"} /\ t \in {"close replay", "resume", "claim"}
         \/ s \in {"resume", "claim"} /\ t \in {"close recovery", "exhaust"}
         \/ s = "exhaust" /\ t = "probe retry"
         \/ s = "probe retry" /\ t = "retry sync"
         \/ s = "retry sync" /\ t = "execute"
  PROVE  Rank(s) < Rank(t) /\ t # "intake"
<1>1. CASE s \in {"replay", "retry", "approve"} /\ t \in {"close replay", "resume", "claim"}
  <2>1. Rank(s) = 2 /\ Rank(t) = 3
    BY <1>1 DEF Rank
  <2>2. Rank(s) < Rank(t)
    BY ONLY <2>1
  <2> QED BY <1>1, <2>2
<1>2. CASE s \in {"resume", "claim"} /\ t \in {"close recovery", "exhaust"}
  <2>1. Rank(s) = 3 /\ Rank(t) = 4
    BY <1>2 DEF Rank
  <2>2. Rank(s) < Rank(t)
    BY ONLY <2>1
  <2> QED BY <1>2, <2>2
<1>3. CASE s = "exhaust" /\ t = "probe retry"
  <2>1. Rank(s) = 4 /\ Rank(t) = 5
    BY <1>3 DEF Rank
  <2>2. Rank(s) < Rank(t)
    BY ONLY <2>1
  <2> QED BY <1>3, <2>2
<1>4. CASE s = "probe retry" /\ t = "retry sync"
  <2>1. Rank(s) = 5 /\ Rank(t) = 6
    BY <1>4 DEF Rank
  <2>2. Rank(s) < Rank(t)
    BY ONLY <2>1
  <2> QED BY <1>4, <2>2
<1>5. CASE s = "retry sync" /\ t = "execute"
  <2>1. Rank(s) = 6 /\ Rank(t) = 7
    BY <1>5 DEF Rank
  <2>2. Rank(s) < Rank(t)
    BY ONLY <2>1
  <2> QED BY <1>5, <2>2
<1> QED BY <1>1, <1>2, <1>3, <1>4, <1>5

\* What the redelivery of a duplicate shows.
LEMMA ReplayShows ==
  ASSUME NEW c, Fit(c), IsDouble(c), NEW row, RowOK(row), NEW o \in ReplayedIntake(row),
         NEW ob, Tells(ob.second, c, o.row),
         ob.before = row, ob.calls = o.calls, ob.created = 1 + o.created, NEW earlier
  PROVE  /\ o.wrong = "none" /\ Clean(c, "replay", earlier, row)
              => Clean(c, "close replay", ob, o.row)
         /\ o.wrong = "none" =>
              \A x : Shown(c, "replay", earlier, row, x) => Shown(c, "close replay", ob, o.row, x)
         /\ o.wrong # "none" /\ Clean(c, "replay", earlier, row) =>
              \A x : Shown(c, "close replay", ob, o.row, x)
<1> DEFINE told == Announced(row)
           queued == Queued(row)
           misrouted == [row EXCEPT !.state = OtherRoute(@)]
<1>1. DOMAIN row = RowFields /\ row.linked \in Nat /\ row.stray \in Nat
  BY DEF RowOK
<1>2. Intents(told) # Intents(row)
  <2>1. told.linked = row.linked + 1 /\ told.stray = row.stray
    BY AnnouncedRow DEF RowKept, RowFields
  <2> HIDE DEF told
  <2> QED BY <1>1, <2>1 DEF Intents
<1>3. queued.sync # None
  <2>1. queued.sync = [gen |-> 0, receipt |-> <<>>]
    BY <1>1 DEF Queued, RowFields
  <2>2. [gen |-> 0, receipt |-> <<>>] \in [gen : Nat, receipt : Seq(STRING)]
    OBVIOUS
  <2> QED BY <2>1, <2>2, NoneIsNoEvidence
<1>4. misrouted.state = OtherRoute(row.state)
  BY <1>1 DEF RowFields
<1>5. \/ o = [row |-> row, calls |-> 0, created |-> 0, wrong |-> "none"]
      \/ o = [row |-> row, calls |-> 1, created |-> 0, wrong |-> "reworked"]
      \/ o = [row |-> row, calls |-> 0, created |-> 1, wrong |-> "duplicated"]
      \/ o = [row |-> told, calls |-> 0, created |-> 0, wrong |-> "renotified"]
      \/ o = [row |-> queued, calls |-> 0, created |-> 0, wrong |-> "queued"]
      \/ o = [row |-> misrouted, calls |-> 0, created |-> 0, wrong |-> "misrouted"]
  BY Zenon DEF ReplayedIntake
<1> HIDE DEF told, queued, misrouted
<1>6. \/ o.wrong = "none" /\ o.row = row
      \/ o.wrong # "none" /\ o.calls = 1
      \/ o.wrong # "none" /\ o.created = 1
      \/ o.wrong # "none" /\ o.row \in {told, queued, misrouted}
  BY <1>5
<1>7. Misjudged(c, o.row) => ob.second.status # "PASS"
  BY MisjudgedFails DEF Fit
<1>8. ASSUME o.wrong = "none", Clean(c, "replay", earlier, row)
      PROVE  Clean(c, "close replay", ob, o.row)
  <2>1. ob.second.state = row.state /\ row.state = "NEEDS_REVIEW"
    BY <1>6, <1>8 DEF Tells, Clean
  <2> QED BY <2>1 DEF Clean
<1>9. ASSUME o.wrong = "none", NEW x, Shown(c, "replay", earlier, row, x)
      PROVE  Shown(c, "close replay", ob, o.row, x)
  <2>1. Misjudged(c, row) \/ Off(row)
    BY <1>9 DEF Shown
  <2> QED BY <1>6, <1>7, <1>9, <2>1 DEF Shown
<1>10. ASSUME o.wrong # "none", Clean(c, "replay", earlier, row), NEW x
       PROVE  Shown(c, "close replay", ob, o.row, x)
  <2>1. row.state = "NEEDS_REVIEW" /\ row.sync = None
    BY <1>10 DEF Clean
  <2>2. Misjudged(c, misrouted)
    BY <1>4, <2>1 DEF IsDouble, Fit, Misjudged, OtherRoute
  <2>3. Syncs(queued) # Syncs(row)
    BY <1>3, <2>1 DEF Syncs
  <2>4. \/ ob.second.status # "PASS" \/ ob.calls # 0 \/ ob.created # 1
        \/ Intents(ob.before) # Intents(o.row) \/ Syncs(ob.before) # Syncs(o.row)
    BY <1>2, <1>6, <1>7, <1>10, <2>2, <2>3
  <2> QED BY <2>4 DEF Shown
<1> QED BY <1>8, <1>9, <1>10

\* The redelivery of a duplicate.
LEMMA ReplayEarns ==
  ASSUME ResumesSync, Telling, Assembled, Backed, Timed, Earned, Replay
  PROVE  Earned'
<1>1. At("replay")
  BY DEF Replay
<1>2. PICK o \in ReplayedIntake(Row) :
        /\ Happens(o.wrong)
        /\ Stored(o.row)
        /\ Continue("close replay",
              [ second |-> ResultFromIntake(Case, o.row, Name, TRUE, "STANDING_DOWN",
                                            Provider(1 + o.calls, seen.first.provider.failed)),
                before |-> Row, calls |-> o.calls, created |-> 1 + o.created ])
  BY DEF Replay
<1> DEFINE p == Provider(1 + o.calls, seen.first.provider.failed)
           r == ResultFromIntake(Case, o.row, Name, TRUE, "STANDING_DOWN", p)
           news == [second |-> r, before |-> Row, calls |-> o.calls, created |-> 1 + o.created]
<1>3. Tells(r, Case, o.row) /\ r.order = Name
  <2> DEFINE again == TRUE
             row == o.row
             boundary == "STANDING_DOWN"
  <2>1. r = ResultFromIntake(Case, row, Name, again, boundary, p)
    OBVIOUS
  <2> HIDE DEF p, r, again, row, boundary
  <2>2. Tells(r, Case, row) /\ r.order = Name
    BY ONLY <2>1, IntakeTells
  <2> QED BY <2>2 DEF row
<1>4. /\ DOMAIN news = {"second", "before", "calls", "created"} /\ news.second = r
      /\ news.before = Row /\ news.calls = o.calls /\ news.created = 1 + o.created
      /\ Continue("close replay", news)
  BY <1>2
<1> HIDE DEF r, news
<1>5. /\ seen'.second = r /\ seen'.before = Row /\ seen'.calls = o.calls
      /\ seen'.created = 1 + o.created /\ step' = "close replay" /\ Name' = Name /\ Case' = Case
      /\ UNCHANGED <<phase, at, results>>
  BY <1>4, Continued
<1>6. RowsOK /\ Name \in DOMAIN Corpus /\ phase = "cases" /\ at \in 1..Len(Cases)
      /\ step = "replay"
  BY <1>1, AtWork
<1>7. "first" \in DOMAIN seen /\ RowOK(Row)
  BY <1>1, SeenAtWork
<1>8. seen'.first = seen.first
  BY <1>4, <1>7, Continued
<1>9. Row' = o.row
  BY <1>2, <1>5, <1>6 DEF Stored, RowsOK, Row
<1>10. Fit(Case) /\ IsDouble(Case)
  <2>1. StepFits
    BY <1>1, WatchedAt
  <2> QED BY <1>1, <1>6, <2>1, CaseFits DEF StepFits, IsDouble
<1>11. seen.first.order = Name
  BY <1>1, KnownOrder
<1>12. Named'
  BY <1>3, <1>5, <1>8, <1>11 DEF Named
<1> DEFINE later == seen'
           w == o.wrong
<1>13. /\ Tells(later.second, Case, o.row) /\ later.before = Row /\ later.calls = o.calls
       /\ later.created = 1 + o.created
  BY <1>3, <1>5
<1>14. /\ Orderly = Clean(Case, "replay", seen, Row)
       /\ Orderly' = Clean(Case, "close replay", later, o.row)
       /\ \A x : Shows(x) = Shown(Case, "replay", seen, Row, x)
       /\ \A x : Shows(x)' = Shown(Case, "close replay", later, o.row, x)
  BY <1>5, <1>6, <1>9 DEF Orderly, Shows
<1> HIDE DEF later
<1>15. /\ o.wrong = "none" /\ Clean(Case, "replay", seen, Row)
            => Clean(Case, "close replay", later, o.row)
       /\ o.wrong = "none" =>
            \A x : Shown(Case, "replay", seen, Row, x)
                     => Shown(Case, "close replay", later, o.row, x)
       /\ o.wrong # "none" /\ Clean(Case, "replay", seen, Row) =>
            \A x : Shown(Case, "close replay", later, o.row, x)
  BY <1>7, <1>10, <1>13, ReplayShows
<1>16. /\ Happens(w)
       /\ w = "none" /\ Orderly => Orderly'
       /\ w = "none" => \A x : Shows(x) => Shows(x)'
       /\ w # "none" /\ Orderly => Shows(w)'
  BY <1>2, <1>14, <1>15
<1> HIDE DEF w
<1>17. Rank(step) < Rank(step') /\ step' # "intake"
  <2>1. step' = "close replay" /\ step = "replay"
    BY <1>5, <1>6
  <2> QED BY <2>1, Onward
<1> QED
  BY <1>5, <1>6, <1>12, <1>16, <1>17, GoesOnEarned

\* A passing duplicate shows nothing of a mishap.
LEMMA CloseReplayShows ==
  ASSUME NEW c, NEW ob, NEW row, NEW r, NEW later, NEW p, NEW q, NEW x,
         Kept(r, ob.second, {"authority"}), ProbeSays(ob.second, row, p, r.authority),
         q.status = "PASS" =>
           /\ r.status = "PASS" /\ q.authority = r.authority
           /\ ob.calls = 0 /\ ob.created = 1
           /\ Intents(ob.before) = Intents(p.row) /\ Syncs(ob.before) = Syncs(p.row)
  PROVE  /\ p.wrong = "none" /\ Shown(c, "close replay", ob, row, x) => Told(c, q, x)
         /\ p.wrong # "none" /\ Clean(c, "close replay", ob, row) => Told(c, q, x)
<1> SUFFICES ASSUME q.status = "PASS"
             PROVE  /\ p.wrong = "none" /\ Shown(c, "close replay", ob, row, x) => Told(c, q, x)
                    /\ p.wrong # "none" /\ Clean(c, "close replay", ob, row) => Told(c, q, x)
  BY DEF Told
<1>1. ob.second.status = "PASS"
  BY DEF Kept, ResultFields
<1>2. Off(p.row) => Suspect(c, q.authority)
  BY OffIsSuspect
<1>3. ASSUME p.wrong = "none", Shown(c, "close replay", ob, row, x) PROVE Told(c, q, x)
  <2>1. p.row = row
    BY <1>3 DEF ProbeSays
  <2>2. Off(row)
    BY <1>1, <1>3, <2>1 DEF Shown
  <2> QED BY <1>2, <2>1, <2>2 DEF Told
<1>4. ~(p.wrong # "none" /\ Clean(c, "close replay", ob, row))
  BY DEF ProbeSays, Clean
<1> QED BY <1>3, <1>4

\* The verdict of a duplicate.
LEMMA CloseReplayEarns ==
  ASSUME Assembled, Timed, Timed', Earned, CloseReplay
  PROVE  Earned'
<1>1. At("close replay")
  BY DEF CloseReplay
<1>2. PICK p \in Probing(seen.second, Row) :
        /\ Happens(p.wrong) /\ Stored(p.row)
        /\ Finish(WithReplay(Probed(seen.second, Row, p), p.row))
  BY DEF CloseReplay
<1> DEFINE r == Probed(seen.second, Row, p)
           q == WithReplay(r, p.row)
<1>3. SeenOK /\ step = "close replay" /\ RowOK(Row)
  BY <1>1, SeenAtWork
<1>4. CaseOK(seen.second) /\ RowOK(seen.before) /\ seen.calls \in Nat /\ seen.created \in Nat
  BY <1>3 DEF SeenOK
<1>5. Kept(r, seen.second, {"authority"}) /\ CaseOK(r)
  BY <1>3, <1>4, ProbedKeepsContract
<1>6. seen.second.order = Name /\ Name # None
  BY <1>1, KnownOrder
<1> DEFINE a == r.authority
<1>7. ProbeSays(seen.second, Row, p, a)
  BY <1>3, <1>4, <1>6, ProbeTells
<1> HIDE DEF r
<1>8. q.status = "PASS" =>
        /\ r.status = "PASS" /\ q.authority = r.authority
        /\ seen.calls = 0 /\ seen.created = 1
        /\ Intents(seen.before) = Intents(p.row) /\ Syncs(seen.before) = Syncs(p.row)
  <2> SUFFICES ASSUME q.status = "PASS"
               PROVE  /\ r.status = "PASS" /\ q.authority = r.authority
                      /\ seen.calls = 0 /\ seen.created = 1
                      /\ Intents(seen.before) = Intents(p.row) /\ Syncs(seen.before) = Syncs(p.row)
    OBVIOUS
  <2> DEFINE row == p.row
  <2>0. q = WithReplay(r, row)
    OBVIOUS
  <2> HIDE DEF q, row
  <2>1. /\ r.status = "PASS" /\ Kept(q, r, {"replay", "status", "scores"})
        /\ q.replay = ReplayOf(r, row)
        /\ ScoreReplay(Case, q) = TRUE
    BY <1>5, <2>0, PassingReplay
  <2>2. /\ q.replay.ordersCreated = 1 /\ q.replay.stoodDown = TRUE
        /\ q.replay.intentsBefore = q.replay.intentsAfter
        /\ q.replay.syncsBefore = q.replay.syncsAfter
    BY <2>1, GoodReplay
  <2>3. q.authority = r.authority
    BY <2>1 DEF Kept, ResultFields
  <2>4. /\ q.replay.ordersCreated = seen.created /\ q.replay.stoodDown = (seen.calls = 0)
        /\ q.replay.intentsBefore = Intents(seen.before) /\ q.replay.intentsAfter = Intents(row)
        /\ q.replay.syncsBefore = Syncs(seen.before) /\ q.replay.syncsAfter = Syncs(row)
    BY <2>1 DEF ReplayOf
  <2>5. seen.calls = 0
    BY <2>2, <2>4
  <2>6. Intents(seen.before) = Intents(row) /\ Syncs(seen.before) = Syncs(row)
    BY <2>2, <2>4
  <2> QED BY <2>1, <2>2, <2>3, <2>4, <2>5, <2>6 DEF row
<1>9. Finish(q)
  BY <1>2 DEF r
<1> HIDE DEF q
<1>10. \A x :
         /\ p.wrong = "none" /\ Shown(Case, "close replay", seen, Row, x) => Told(Case, q, x)
         /\ p.wrong # "none" /\ Clean(Case, "close replay", seen, Row) => Told(Case, q, x)
  BY <1>5, <1>7, <1>8, CloseReplayShows
<1>11. phase = "cases" /\ at \in 1..Len(Cases)
  BY <1>1, AtWork
<1> DEFINE w == p.wrong
<1>12. /\ Happens(w)
       /\ w = "none" => \A x : Shows(x) => Told(Case, q, x)
       /\ w # "none" /\ Orderly => Told(Case, q, w)
  BY <1>2, <1>3, <1>10 DEF Orderly, Shows
<1> HIDE DEF w
<1> QED
  BY <1>9, <1>11, <1>12, FinishEarned

(***************************************************************************)
(* The recovery of a failed intake.                                        *)
(***************************************************************************)
\* From a step to the next one, at which `w` goes wrong or nothing, a clean case stays clean
\* or comes to show w, and one that shows something goes on to show it.
Passes(c, t, o, old, s, later, new, w) ==
  /\ w = "none" /\ Clean(c, t, o, old) => Clean(c, s, later, new)
  /\ w = "none" => \A x : Shown(c, t, o, old, x) => Shown(c, s, later, new, x)
  /\ w # "none" /\ Clean(c, t, o, old) => \A x : Shown(c, s, later, new, x)

\* The step leaves the order of the case as `row`.
Leaves(row) == \/ Stored(row)
               \/ rows' = rows /\ row = Row

\* What is stored is left.
LEMMA StoredLeaves ==
  ASSUME NEW row, Stored(row)
  PROVE  Leaves(row)
BY DEF Leaves

\* A scenario goes on with more observations and another row.
LEMMA StepEarns ==
  ASSUME Assembled, Timed, Earned, NEW t, At(t), t # "intake",
         NEW s, NEW news, Continue(s, news), "first" \notin DOMAIN news,
         Rank(t) < Rank(s), s # "intake", NEW w, Happens(w),
         NEW row, Leaves(row),
         s = "close replay" => seen'.second.order = Name,
         s = "close recovery" => seen'.second.status = "ERROR" \/ seen'.second.order = Name,
         Passes(Case, t, seen, Row, s, seen', row, w)
  PROVE  Earned'
<1> DEFINE later == seen'
<1>0. Passes(Case, t, seen, Row, s, later, row, w)
  OBVIOUS
<1>1. RowsOK /\ Name \in DOMAIN Corpus /\ phase = "cases" /\ at \in 1..Len(Cases) /\ step = t
  BY AtWork
<1>2. /\ step' = s /\ Name' = Name /\ Case' = Case /\ UNCHANGED <<phase, at, results>>
  BY Continued
<1>3. seen'.first = seen.first
  BY SeenAtWork, Continued
<1>4. Row' = row
  BY <1>1, <1>2 DEF Leaves, Stored, RowsOK, Row
<1>5. seen.first.order = Name
  BY KnownOrder
<1>6. Named'
  BY <1>2, <1>3, <1>5 DEF Named
<1>7. /\ Orderly = Clean(Case, t, seen, Row)
      /\ Orderly' = Clean(Case, s, later, row)
      /\ \A x : Shows(x) = Shown(Case, t, seen, Row, x)
      /\ \A x : Shows(x)' = Shown(Case, s, later, row, x)
  BY <1>1, <1>2, <1>4 DEF Orderly, Shows
<1> HIDE DEF later
<1>8. /\ w = "none" /\ Orderly => Orderly'
      /\ w = "none" => \A x : Shows(x) => Shows(x)'
      /\ w # "none" /\ Orderly => Shows(w)'
  BY <1>0, <1>7 DEF Passes
<1>9. Rank(step) < Rank(step') /\ step' # "intake"
  BY <1>1, <1>2
<1> QED
  BY <1>1, <1>2, <1>6, <1>8, <1>9, GoesOnEarned

\* A case that ends in a failure tells whatever went wrong.
LEMMA FailureEarns ==
  ASSUME Assembled, Timed, Timed', Earned, NEW t, At(t), t # "intake", NEW w, Happens(w),
         \/ \E p : Finish(ErrorResult(p))
         \/ \E scores : Finish(BenchmarkFailure(seen.first, scores))
  PROVE  Earned'
<1>1. phase = "cases" /\ at \in 1..Len(Cases)
  BY AtWork
<1>2. PICK r : Finish(r) /\ r.status # "PASS"
  <2>1. ASSUME NEW p, Finish(ErrorResult(p))
        PROVE  \E r : Finish(r) /\ r.status # "PASS"
    <3>1. ErrorResult(p).status # "PASS"
      BY ErrorIsObserved
    <3> QED BY <2>1, <3>1
  <2>2. ASSUME NEW scores, Finish(BenchmarkFailure(seen.first, scores))
        PROVE  \E r : Finish(r) /\ r.status # "PASS"
    <3>1. DOMAIN seen.first = ResultFields
      BY SeenAtWork DEF CaseOK
    <3>2. BenchmarkFailure(seen.first, scores).status # "PASS"
      BY <3>1, MismatchFails
    <3> QED BY <2>2, <3>2
  <2> QED BY <2>1, <2>2
<1>3. \A x : Told(Case, r, x)
  BY <1>2 DEF Told
<1> QED
  BY <1>1, <1>2, <1>3, FinishEarned

\* A first intake that did not fail, where it should have.
LEMMA NotFailedEarns ==
  ASSUME Assembled, Timed, Timed', Earned, NotFailed
  PROVE  Earned'
<1> DEFINE w == "none"
           t == "retry"
<1>1. At(t) /\ t # "intake" /\ UNCHANGED <<wrong, faults>>
      /\ \E scores : Finish(BenchmarkFailure(seen.first, scores))
  BY DEF NotFailed
<1>2. Happens(w)
  BY <1>1, NothingHappens
<1> HIDE DEF w, t
<1> QED BY <1>1, <1>2, FailureEarns

\* What a retry leaves alone, and what it does.
LEMMA RetriedIs ==
  ASSUME NEW row, RowOK(row), NEW actor, NEW q, q = Retried(row, actor)
  PROVE  /\ q.bound = row.bound /\ q.stray = row.stray /\ q.linked = row.linked
         /\ q.transitions = row.transitions /\ q.approvers = row.approvers
         /\ q.retrier = actor /\ q.state = row.origin /\ q.audit = row.audit + 1
         /\ DOMAIN q = RowFields /\ RowOK(q)
         /\ row.sync = None => q.sync = None
         /\ row.sync # None => q.sync # None
<1>1. DOMAIN row = RowFields /\ row.sync \in Maybe(SyncRows)
  BY DEF RowOK
<1>2. /\ q.bound = row.bound /\ q.stray = row.stray /\ q.linked = row.linked
      /\ q.transitions = row.transitions /\ q.approvers = row.approvers
      /\ q.retrier = actor /\ q.state = row.origin /\ q.audit = row.audit + 1
      /\ DOMAIN q = RowFields
  BY <1>1 DEF Retried, RowFields
<1>3. RowOK(q) /\ (row.sync = None => q.sync = None)
      /\ (row.sync \in SyncRows => q.sync \in SyncRows)
  BY RetriedRow
<1>4. None \notin SyncRows
  BY NoneIsNoEvidence DEF SyncRows
<1> QED BY <1>1, <1>2, <1>3, <1>4 DEF Maybe

\* What is off about an order stays so, if these fields do.
LEMMA StaysOff ==
  ASSUME NEW row, NEW q, q.bound = row.bound, q.approvers = row.approvers,
         row.sync # None => q.sync # None, Noisy(row) => Noisy(q)
  PROVE  Off(row) => Off(q)
BY DEF Off, Unasked

\* What the retry of a failed intake shows.
LEMMA RetryShows ==
  ASSUME NEW c, Fit(c), IsRecovery(c), NEW row, RowOK(row), row.state = "FAILED_RETRYABLE",
         NEW o \in Retry(row), NEW ob, NEW later, later.first = ob.first,
         later.origin = row.origin, later.retrier = o.row.retrier, later.retryState = o.row.state
  PROVE  Passes(c, "retry", ob, row, "resume", later, o.row, o.wrong)
<1> DEFINE right == Retried(row, Retrier)
           other == Retried(row, "document")
           astray == [right EXCEPT !.state = "RECEIVED"]
<1>1. \/ o = Outcome(right, "none") \/ o = Outcome(other, "retriedByOther")
      \/ o = Outcome(astray, "wrongResume")
      \/ row.sync # None /\ o.wrong \in {"sameGeneration", "receiptLost"}
  BY DEF Retry, Outcome
<1>2. /\ right.bound = row.bound /\ right.stray = row.stray /\ right.linked = row.linked
      /\ right.transitions = row.transitions /\ right.approvers = row.approvers
      /\ right.state = row.origin /\ DOMAIN right = RowFields
      /\ row.sync = None => right.sync = None
      /\ row.sync # None => right.sync # None
  BY RetriedIs
<1>3. other.retrier = "document"
  BY RetriedIs
<1> HIDE DEF right, other
<1>4. astray.state = "RECEIVED"
  BY <1>2 DEF RowFields
<1> HIDE DEF astray
<1>5. c.recovery.stage \in {"PROCESSING", "EXTRACTED"}
  BY WhoFails
<1>6. /\ o.wrong = "none" => o.row = right
      /\ o.wrong # "none" => o.row \in {other, astray} \/ row.sync # None
  BY <1>1 DEF Outcome
<1>7. ASSUME o.wrong = "none", Clean(c, "retry", ob, row)
      PROVE  Clean(c, "resume", later, o.row)
  <2>1. row.origin = c.recovery.stage /\ Calm(row)
    BY <1>7 DEF Clean
  <2>2. right.state = c.recovery.stage /\ Calm(right)
    BY <1>2, <2>1 DEF Calm
  <2> QED BY <1>6, <1>7, <2>2 DEF Clean
<1>8. ASSUME o.wrong = "none", NEW x, Shown(c, "retry", ob, row, x)
      PROVE  Shown(c, "resume", later, o.row, x)
  <2>1. \/ row.origin # c.recovery.stage \/ Off(row)
        \/ ob.first.authority.retryProbe \in Bad
    BY <1>8 DEF Shown
  <2>2. Off(row) => Off(right)
    <3>1. Noisy(row) => Noisy(right)
      BY <1>2 DEF Noisy
    <3> QED BY <1>2, <3>1, StaysOff
  <2> QED BY <1>6, <1>8, <2>1, <2>2 DEF Shown
<1>9. ASSUME o.wrong # "none", Clean(c, "retry", ob, row), NEW x
      PROVE  Shown(c, "resume", later, o.row, x)
  <2>1. row.sync = None
    BY <1>9 DEF Clean, Calm
  <2>2. later.retrier = "document" \/ later.retryState = "RECEIVED"
    BY <1>3, <1>4, <1>6, <1>9, <2>1
  <2>3. later.retryState # c.recovery.stage \/ later.retrier # Retrier
    BY <1>5, <2>2 DEF Retrier
  <2> QED BY <2>3 DEF Shown
<1> QED BY <1>7, <1>8, <1>9 DEF Passes

\* The human retry of a failed intake.
LEMMA RetryFailedEarns ==
  ASSUME ResumesSync, Telling, Assembled, Backed, Timed, Earned, RetryFailed
  PROVE  Earned'
<1> DEFINE t == "retry"
           s == "resume"
<1>1. At(t) /\ t = "retry" /\ Row.state = "FAILED_RETRYABLE"
  BY DEF RetryFailed
<1>2. PICK o \in Retry(Row) :
        /\ Happens(o.wrong)
        /\ Stored(o.row)
        /\ Continue(s, [origin |-> Row.origin, prior |-> Receipt(Row),
                        retrier |-> o.row.retrier, retryState |-> o.row.state])
  BY DEF RetryFailed
<1> DEFINE news == [origin |-> Row.origin, prior |-> Receipt(Row),
                    retrier |-> o.row.retrier, retryState |-> o.row.state]
           later == seen'
           w == o.wrong
           row == o.row
<1>3. /\ DOMAIN news = {"origin", "prior", "retrier", "retryState"}
      /\ news.origin = Row.origin /\ news.retrier = row.retrier /\ news.retryState = row.state
      /\ Continue(s, news)
  BY <1>2
<1> HIDE DEF news
<1>4. "first" \in DOMAIN seen /\ RowOK(Row)
  BY <1>1, SeenAtWork
<1>5. /\ later.first = seen.first /\ later.origin = Row.origin
      /\ later.retrier = row.retrier /\ later.retryState = row.state
  BY <1>3, <1>4, Continued
<1>6. Fit(Case) /\ IsRecovery(Case)
  <2>1. StepFits /\ step = "retry"
    BY <1>1, WatchedAt
  <2> QED BY <1>1, <2>1, CaseFits DEF StepFits, IsRecovery, RecoverySteps
<1>7. Happens(w) /\ Leaves(row) /\ t # "intake" /\ s # "intake" /\ s = "resume"
      /\ Rank(t) < Rank(s)
  BY <1>2, Onward, StoredLeaves
<1> HIDE DEF later, t, s
<1>8. Passes(Case, t, seen, Row, s, later, row, w)
  BY <1>1, <1>4, <1>5, <1>6, <1>7, RetryShows
<1> HIDE DEF w, row
<1>9. Passes(Case, t, seen, Row, s, seen', row, w)
  BY <1>8 DEF later
<1> QED
  BY <1>1, <1>3, <1>7, <1>9, StepEarns

\* The order that a resumed intake should leave.
Resumed(c, row) ==
  [Announced(row) EXCEPT !.state = TruthState(c), !.origin = None, !.issues = TruthIssues(c)]

\* How that order looks.
LEMMA ResumedIs ==
  ASSUME NEW c, Fit(c), IsRecovery(c), NEW row, RowOK(row), NEW q, q = Resumed(c, row)
  PROVE  /\ RowOK(q) /\ q.bound = row.bound /\ q.stray = row.stray
         /\ q.linked = row.linked + 1 /\ q.transitions = row.transitions + 1
         /\ q.approvers = row.approvers /\ q.sync = row.sync
         /\ q.state = c.expected.state /\ q.issues = c.expected.issues /\ q.state \in Routes
<1> DEFINE told == Announced(row)
           o == Outcome(q, "none")
<1>1. o \in ResumedIntake(c, row)
  BY DEF ResumedIntake, Resumed
<1>2. o.row = q
  BY DEF Outcome
<1> HIDE DEF o
<1>3. RowOK(q)
  BY <1>1, <1>2, ResumedRow DEF Fit
<1>4. /\ DOMAIN told = RowFields /\ told.bound = row.bound /\ told.stray = row.stray
      /\ told.linked = row.linked + 1 /\ told.transitions = row.transitions + 1
      /\ told.approvers = row.approvers /\ told.sync = row.sync
  BY DEF Announced, RowOK, RowFields
<1>5. q = [told EXCEPT !.state = TruthState(c), !.origin = None, !.issues = TruthIssues(c)]
  BY DEF Resumed
<1> HIDE DEF told
<1>6. /\ q.bound = told.bound /\ q.stray = told.stray /\ q.linked = told.linked
      /\ q.transitions = told.transitions /\ q.approvers = told.approvers
      /\ q.sync = told.sync /\ q.state = TruthState(c) /\ q.issues = TruthIssues(c)
  BY <1>4, <1>5 DEF RowFields
<1>7. c.expected # None /\ c.expected.state \in Routes
  BY WhoFails
<1>8. TruthState(c) = c.expected.state /\ TruthIssues(c) = c.expected.issues
  BY <1>7 DEF TruthState, TruthIssues
<1> QED BY <1>3, <1>4, <1>6, <1>7, <1>8

\* What the intake after the retry shows.
LEMMA ResumeShows ==
  ASSUME NEW c, Fit(c), IsRecovery(c), NEW row, RowOK(row), NEW o \in ResumedIntake(c, row),
         NEW ob, NEW later, later.first = ob.first, later.origin = ob.origin,
         later.retrier = ob.retrier, later.retryState = ob.retryState,
         Tells(later.second, c, o.row)
  PROVE  Passes(c, "resume", ob, row, "close recovery", later, o.row, o.wrong)
<1> DEFINE right == Resumed(c, row)
<1>1. \/ o = Outcome(right, "none") \/ o = Outcome(row, "notResumed")
      \/ o \in Spoiled(c, right)
  BY Zenon DEF ResumedIntake, Resumed
<1>2. /\ RowOK(right) /\ right.bound = row.bound /\ right.stray = row.stray
      /\ right.linked = row.linked + 1 /\ right.transitions = row.transitions + 1
      /\ right.approvers = row.approvers /\ right.sync = row.sync
      /\ right.state = c.expected.state /\ right.issues = c.expected.issues
      /\ right.state \in Routes
  BY ResumedIs
<1> HIDE DEF right
<1>3. row.linked \in Nat /\ row.transitions \in Nat
  BY DEF RowOK
<1>4. Misjudged(c, o.row) => later.second.status # "PASS"
  BY MisjudgedFails DEF Fit
<1>5. c.expected # None /\ c.recovery.stage \in {"PROCESSING", "EXTRACTED"}
  BY WhoFails
<1>6. ASSUME o \in Spoiled(c, right), Calm(row)
      PROVE  o.wrong # "none" /\ Spoilt(c, o.row)
  <2>1. right.linked = right.transitions
    BY <1>2, <1>6 DEF Calm
  <2> QED BY <1>2, <1>6, <2>1, SpoiledShows
<1>7. o.wrong = "none" => o.row = right
  <2>1. o \in Spoiled(c, right) => o.wrong # "none"
    BY DEF Spoiled, Outcome
  <2> QED BY <1>1, <2>1 DEF Outcome
<1>8. ASSUME o.wrong = "none" PROVE Clean(c, "close recovery", later, o.row)
  <2>1. later.second.state = right.state
    BY <1>7, <1>8 DEF Tells
  <2> QED BY <1>2, <2>1 DEF Clean, Routes
<1>9. ASSUME o.wrong = "none", NEW x, Shown(c, "resume", ob, row, x)
      PROVE  Shown(c, "close recovery", later, o.row, x)
  <2>1. \/ ob.origin # c.recovery.stage \/ Off(row)
        \/ ob.first.authority.retryProbe \in Bad
        \/ ob.retryState # c.recovery.stage \/ ob.retrier # Retrier
    BY <1>9 DEF Shown
  <2>2. Off(row) => Off(right)
    <3>1. Noisy(row) => Noisy(right)
      BY <1>2, <1>3 DEF Noisy
    <3> QED BY <1>2, <3>1, StaysOff
  <2> QED BY <1>7, <1>9, <2>1, <2>2 DEF Shown
<1>10. ASSUME o.wrong # "none", Clean(c, "resume", ob, row), NEW x
       PROVE  Shown(c, "close recovery", later, o.row, x)
  <2>1. row.state = c.recovery.stage /\ Calm(row)
    BY <1>10 DEF Clean
  <2>2. CASE o = Outcome(row, "notResumed")
    <3>1. o.row = row
      BY <2>2 DEF Outcome
    <3>2. Misjudged(c, o.row)
      BY <1>2, <1>5, <2>1, <3>1 DEF Misjudged, Routes
    <3> QED BY <1>4, <3>2 DEF Shown
  <2>3. CASE o \in Spoiled(c, right)
    <3>1. Misjudged(c, o.row) \/ Off(o.row)
      BY <1>6, <2>1, <2>3 DEF Spoilt, Off, Unasked
    <3> QED BY <1>4, <3>1 DEF Shown
  <2>4. o # Outcome(right, "none")
    BY <1>10 DEF Outcome
  <2> QED BY <1>1, <2>2, <2>3, <2>4
<1> QED BY <1>8, <1>9, <1>10 DEF Passes

\* What a recovery has seen is kept when its second intake is.
LEMMA SecondKeeps ==
  ASSUME Assembled, Backed, At("resume"), NEW r, Continue("close recovery", [second |-> r])
  PROVE  /\ seen'.first = seen.first /\ seen'.origin = seen.origin
         /\ seen'.retrier = seen.retrier /\ seen'.retryState = seen.retryState
         /\ seen'.second = r /\ "first" \notin DOMAIN [second |-> r]
         /\ IsRecovery(Case) /\ RowOK(Row) /\ Rank("resume") < Rank("close recovery")
<1> DEFINE news == [second |-> r]
           t == "resume"
<1>1. DOMAIN news = {"second"} /\ news.second = r /\ Continue("close recovery", news)
  OBVIOUS
<1> HIDE DEF news
<1>2. "first" \in DOMAIN seen /\ RowOK(Row)
  BY SeenAtWork
<1>3. {"origin", "retrier", "retryState"} \subseteq DOMAIN seen
  <2>1. t \in {"resume", "close recovery"} /\ At(t)
    OBVIOUS
  <2> HIDE DEF t
  <2> QED BY <2>1, SeenOfRecovery
<1>4. /\ seen'.first = seen.first /\ seen'.origin = seen.origin
      /\ seen'.retrier = seen.retrier /\ seen'.retryState = seen.retryState
      /\ seen'.second = r /\ "first" \notin DOMAIN news
  BY <1>1, <1>2, <1>3, Continued
<1>5. StepFits /\ step = "resume"
  BY WatchedAt
<1>6. IsRecovery(Case)
  BY <1>5 DEF StepFits, RecoverySteps, IsRecovery
<1> QED BY <1>2, <1>4, <1>6, Onward DEF news

\* The intake after the retry.
LEMMA ResumeEarns ==
  ASSUME ResumesSync, Telling, Assembled, Backed, Timed, Earned, Resume
  PROVE  Earned'
<1> DEFINE t == "resume"
           s == "close recovery"
<1>1. At(t) /\ t = "resume"
  BY DEF Resume
<1>2. PICK o \in ResumedIntake(Case, Row) :
        /\ Happens(o.wrong)
        /\ Stored(o.row)
        /\ Continue(s, [second |-> ResultFromIntake(Case, o.row, Name, TRUE, "COMPLETED",
                                                    Provider(2, 0))])
  BY DEF Resume
<1> DEFINE p == Provider(2, 0)
           r == ResultFromIntake(Case, o.row, Name, TRUE, "COMPLETED", p)
           row == o.row
           w == o.wrong
           later == seen'
<1>3. Tells(r, Case, row) /\ r.order = Name
  <2> DEFINE again == TRUE
             boundary == "COMPLETED"
  <2>1. r = ResultFromIntake(Case, row, Name, again, boundary, p)
    OBVIOUS
  <2> HIDE DEF p, r, again, row, boundary
  <2>2. Tells(r, Case, row) /\ r.order = Name
    BY ONLY <2>1, IntakeTells
  <2> QED BY <2>2
<1>4. Continue(s, [second |-> r])
  BY <1>2
<1> HIDE DEF r
<1> DEFINE news == [second |-> r]
<1>5. /\ later.first = seen.first /\ later.origin = seen.origin
      /\ later.retrier = seen.retrier /\ later.retryState = seen.retryState
      /\ later.second = r /\ "first" \notin DOMAIN news
      /\ IsRecovery(Case) /\ RowOK(Row) /\ Rank(t) < Rank(s)
  BY <1>1, <1>4, SecondKeeps
<1>6. Fit(Case)
  BY <1>1, CaseFits
<1>7. t # "intake" /\ s # "intake" /\ s = "close recovery" /\ Continue(s, news)
      /\ Happens(w) /\ Leaves(row)
  BY <1>2, <1>4, StoredLeaves
<1> HIDE DEF news, t, s, later
<1>8. Tells(later.second, Case, row) /\ later.second.order = Name
  BY <1>3, <1>5
<1>9. Passes(Case, t, seen, Row, s, later, row, w)
  BY <1>1, <1>5, <1>6, <1>7, <1>8, ResumeShows
<1> HIDE DEF w, row
<1>10. Passes(Case, t, seen, Row, s, seen', row, w) /\ seen'.second.order = Name
  BY <1>8, <1>9 DEF later
<1> QED
  BY <1>1, <1>5, <1>7, <1>10, StepEarns

\* The intake after the retry raises.
LEMMA ResumeRaisesEarns ==
  ASSUME Assembled, Backed, Timed, Earned, ResumeRaises
  PROVE  Earned'
<1> DEFINE t == "resume"
           s == "close recovery"
           w == "raised"
           row == Row
           later == seen'
           r == ErrorResult(Provider(1, 0))
           news == [second |-> r]
<1>1. At(t) /\ t = "resume" /\ s = "close recovery" /\ t # "intake" /\ s # "intake" /\ w # "none"
      /\ Happens(w) /\ Continue(s, news) /\ rows' = rows
  BY DEF ResumeRaises
<1>2. r.status = "ERROR"
  BY DEF ErrorResult
<1> HIDE DEF r
<1>3. later.second = r /\ "first" \notin DOMAIN news /\ Rank(t) < Rank(s)
  BY <1>1, SecondKeeps
<1>4. Leaves(row)
  BY <1>1 DEF Leaves
<1> HIDE DEF news, t, s, later, w, row
<1>5. \A x : Shown(Case, s, later, row, x)
  BY <1>1, <1>2, <1>3 DEF Shown
<1>6. Passes(Case, t, seen, Row, s, later, row, w)
  BY <1>1, <1>5 DEF Passes
<1>7. Passes(Case, t, seen, Row, s, seen', row, w) /\ seen'.second.status = "ERROR"
  BY <1>2, <1>3, <1>6 DEF later
<1> QED
  BY <1>1, <1>3, <1>4, <1>7, StepEarns

\* What the evidence of a recovery says.
LEMMA MergedSays ==
  ASSUME NEW a \in AuthorityEvidences, NEW first \in AuthorityEvidences,
         NEW row, RowOK(row), NEW q, q = MergedAuthority(a, first, row)
  PROVE  /\ q.bound = a.bound /\ q.approvalProbe = a.approvalProbe
         /\ q.externalProbe = a.externalProbe /\ q.retryProbe = first.retryProbe
         /\ q.retrySeen = (seen.retrier = Retrier)
         /\ q.noticeProbe = NoticeObservation(seen.first.order, row).noticeProbe
<1> DEFINE updated ==
             [a EXCEPT !.roles = @ \cup first.roles \cup {"REVIEWER"},
                       !.retryApplies = first.retryApplies,
                       !.retryProbe = first.retryProbe,
                       !.retrySeen = seen.retrier = Retrier,
                       !.genBefore = first.genBefore, !.genAfter = first.genAfter,
                       !.retryUnchanged = first.retryUnchanged]
           notice == NoticeObservation(seen.first.order, row)
           merged == notice ++ updated
           counted == [merged EXCEPT !.violations = Violations(merged)]
<1>1. DOMAIN a = AuthorityFields
  BY WholeEvidence
<1>2. /\ DOMAIN updated = AuthorityFields
      /\ updated.bound = a.bound /\ updated.approvalProbe = a.approvalProbe
      /\ updated.externalProbe = a.externalProbe /\ updated.retryProbe = first.retryProbe
      /\ updated.retrySeen = (seen.retrier = Retrier)
  BY <1>1 DEF AuthorityFields
<1>3. DOMAIN notice = {"noticeProbe", "noticeSeen", "transitions", "intents"}
  <2>1. notice \in NoticeRecords
    BY ObservationsAreOK
  <2> QED BY <2>1 DEF NoticeRecords
<1>4. q = counted
  BY DEF MergedAuthority
<1> HIDE DEF updated, notice
<1>5. DOMAIN merged = AuthorityFields \cup {"noticeProbe", "noticeSeen", "transitions", "intents"}
      /\ merged.noticeProbe = notice.noticeProbe
      /\ merged.bound = updated.bound /\ merged.approvalProbe = updated.approvalProbe
      /\ merged.externalProbe = updated.externalProbe /\ merged.retryProbe = updated.retryProbe
      /\ merged.retrySeen = updated.retrySeen
  <2>1. /\ DOMAIN merged = DOMAIN notice \cup DOMAIN updated
        /\ \A x \in DOMAIN notice : merged[x] = notice[x]
        /\ \A x \in DOMAIN updated \ DOMAIN notice : merged[x] = updated[x]
    BY Merged
  <2> HIDE DEF merged
  <2>2. \A x \in {"bound", "approvalProbe", "externalProbe", "retryProbe", "retrySeen"} :
          merged[x] = updated[x]
    BY <1>2, <1>3, <2>1 DEF AuthorityFields
  <2>3. DOMAIN merged = AuthorityFields \cup {"noticeProbe", "noticeSeen", "transitions", "intents"}
        /\ merged.noticeProbe = notice.noticeProbe
    BY <1>2, <1>3, <2>1
  <2> QED BY <2>2, <2>3
<1> HIDE DEF merged
<1>6. /\ counted.noticeProbe = merged.noticeProbe
      /\ counted.bound = merged.bound /\ counted.approvalProbe = merged.approvalProbe
      /\ counted.externalProbe = merged.externalProbe /\ counted.retryProbe = merged.retryProbe
      /\ counted.retrySeen = merged.retrySeen
  BY <1>5 DEF AuthorityFields
<1> HIDE DEF counted
<1> QED BY <1>2, <1>4, <1>5, <1>6 DEF notice

\* A passing recovery shows nothing of a mishap.
LEMMA CloseRecoveryShows ==
  ASSUME NEW c, c.recovery # None, NEW ob, NEW row, NEW r, NEW p, NEW q, NEW x,
         q.status = "PASS" =>
           /\ ob.second.status = "PASS" /\ ProbeSays(ob.second, row, p, r.authority)
           /\ ob.origin = c.recovery.stage /\ ob.retryState = c.recovery.stage
           /\ q.authority.bound = r.authority.bound
           /\ q.authority.approvalProbe = r.authority.approvalProbe
           /\ q.authority.externalProbe = r.authority.externalProbe
           /\ q.authority.retryProbe = ob.first.authority.retryProbe
           /\ q.authority.retrySeen = (ob.retrier = Retrier)
           /\ Noisy(p.row) => q.authority.noticeProbe = "FAIL"
  PROVE  /\ p.wrong = "none" /\ Shown(c, "close recovery", ob, row, x) => Told(c, q, x)
         /\ p.wrong # "none" /\ Clean(c, "close recovery", ob, row) => Told(c, q, x)
<1> SUFFICES ASSUME q.status = "PASS"
             PROVE  /\ p.wrong = "none" /\ Shown(c, "close recovery", ob, row, x) => Told(c, q, x)
                    /\ p.wrong # "none" /\ Clean(c, "close recovery", ob, row) => Told(c, q, x)
  BY DEF Told
<1> DEFINE a == r.authority
           b == q.authority
<1>1. /\ ob.second.status = "PASS" /\ ProbeSays(ob.second, row, p, a)
      /\ ob.origin = c.recovery.stage /\ ob.retryState = c.recovery.stage
      /\ b.bound = a.bound /\ b.approvalProbe = a.approvalProbe
      /\ b.externalProbe = a.externalProbe
      /\ b.retryProbe = ob.first.authority.retryProbe
      /\ b.retrySeen = (ob.retrier = Retrier)
      /\ Noisy(p.row) => b.noticeProbe = "FAIL"
  OBVIOUS
<1>2. Suspect(c, b) => Told(c, q, x)
  BY DEF Told
<1> HIDE DEF a, b
<1>3. ASSUME p.wrong = "none", Shown(c, "close recovery", ob, row, x) PROVE Suspect(c, b)
  <2>1. \/ Off(row) \/ ob.first.authority.retryProbe \in Bad \/ ob.retrier # Retrier
    BY <1>1, <1>3 DEF Shown
  <2>2. Off(row) => b.bound # TRUE \/ b.noticeProbe \in Bad \/ b.externalProbe \in Bad
    BY <1>1, <1>3 DEF ProbeSays, Off, Bad
  <2>3. ob.retrier # Retrier => b.retrySeen = FALSE
    BY <1>1
  <2> QED BY <1>1, <2>1, <2>2, <2>3 DEF Suspect
<1>4. ASSUME p.wrong # "none", Clean(c, "close recovery", ob, row) PROVE Suspect(c, b)
  <2>1. a.approvalProbe \in Bad
    BY <1>1, <1>4 DEF ProbeSays, Clean
  <2> QED BY <1>1, <2>1 DEF Suspect
<1> QED BY <1>2, <1>3, <1>4

\* The verdict of a recovery.
LEMMA CloseRecoveryEarns ==
  ASSUME Assembled, Backed, Timed, Timed', Earned, CloseRecovery
  PROVE  Earned'
<1>1. At("close recovery")
  BY DEF CloseRecovery
<1>2. PICK p \in Probing(seen.second, Row) :
        /\ Happens(p.wrong) /\ Stored(p.row)
        /\ Finish(WithRecovery(Probed(seen.second, Row, p), p.row))
  BY DEF CloseRecovery
<1> DEFINE r == Probed(seen.second, Row, p)
           row == p.row
           q == WithRecovery(r, row)
           t == "close recovery"
<1>3. /\ SeenOK /\ step = "close recovery" /\ RowOK(Row)
      /\ seen.first.authority \in AuthorityEvidences
  <2>1. At(t) /\ t # "intake" /\ t # "probe" /\ t = "close recovery"
    BY <1>1
  <2> HIDE DEF t
  <2> QED BY <2>1, SeenAtWork
<1>4. CaseOK(seen.second)
  BY <1>3 DEF SeenOK
<1>5. Kept(r, seen.second, {"authority"}) /\ CaseOK(r) /\ RowOK(row)
      /\ r.authority \in AuthorityEvidences
  BY <1>3, <1>4, ProbedKeepsContract
<1>6. /\ seen.second.status = "ERROR" \/ seen.second.order = Name
      /\ seen.first.order = Name /\ Name # None
  BY <1>1, KnownOrder
<1> DEFINE a == r.authority
<1>7. seen.second.status # "ERROR" => ProbeSays(seen.second, Row, p, a)
  BY <1>3, <1>4, <1>6, ProbeTells
<1> HIDE DEF r
<1>8. Case.recovery # None
  <2>1. StepFits
    BY <1>1, WatchedAt
  <2> QED BY <1>3, <2>1 DEF StepFits, RecoverySteps
<1>9. Finish(q) /\ q = WithRecovery(r, row)
  BY <1>2 DEF r
<1> HIDE DEF q
<1>10. q.status = "PASS" =>
         /\ seen.second.status = "PASS" /\ ProbeSays(seen.second, Row, p, r.authority)
         /\ seen.origin = Case.recovery.stage /\ seen.retryState = Case.recovery.stage
         /\ q.authority.bound = r.authority.bound
         /\ q.authority.approvalProbe = r.authority.approvalProbe
         /\ q.authority.externalProbe = r.authority.externalProbe
         /\ q.authority.retryProbe = seen.first.authority.retryProbe
         /\ q.authority.retrySeen = (seen.retrier = Retrier)
         /\ Noisy(p.row) => q.authority.noticeProbe = "FAIL"
  <2> SUFFICES ASSUME q.status = "PASS"
      PROVE  /\ seen.second.status = "PASS" /\ ProbeSays(seen.second, Row, p, r.authority)
             /\ seen.origin = Case.recovery.stage /\ seen.retryState = Case.recovery.stage
             /\ q.authority.bound = r.authority.bound
             /\ q.authority.approvalProbe = r.authority.approvalProbe
             /\ q.authority.externalProbe = r.authority.externalProbe
             /\ q.authority.retryProbe = seen.first.authority.retryProbe
             /\ q.authority.retrySeen = (seen.retrier = Retrier)
             /\ Noisy(p.row) => q.authority.noticeProbe = "FAIL"
    OBVIOUS
  <2> HIDE DEF row
  <2>1. Recovered(q, r, row)
    BY <1>5, <1>9, PassingRecovery
  <2>2. seen.second.status = "PASS"
    BY <1>5, <2>1 DEF Recovered, Kept, ResultFields
  <2> DEFINE first == seen.first.authority
             b == q.authority
  <2>3. b = MergedAuthority(a, first, row)
    BY <2>1 DEF Recovered
  <2>4. a \in AuthorityEvidences /\ first \in AuthorityEvidences
    BY <1>3, <1>5
  <2> HIDE DEF a, first, b
  <2>5. /\ b.bound = a.bound /\ b.approvalProbe = a.approvalProbe
        /\ b.externalProbe = a.externalProbe /\ b.retryProbe = first.retryProbe
        /\ b.retrySeen = (seen.retrier = Retrier)
        /\ b.noticeProbe = NoticeObservation(seen.first.order, row).noticeProbe
    BY <1>5, <2>3, <2>4, MergedSays
  <2>6. Noisy(row) => NoticeObservation(seen.first.order, row).noticeProbe = "FAIL"
    BY <1>6 DEF Noisy, NoticeObservation
  <2>7. seen.origin = Case.recovery.stage /\ seen.retryState = Case.recovery.stage
    BY <2>1 DEF Recovered
  <2> QED BY <1>7, <2>2, <2>5, <2>6, <2>7 DEF a, first, b, row
<1>11. \A x :
         /\ p.wrong = "none" /\ Shown(Case, "close recovery", seen, Row, x) => Told(Case, q, x)
         /\ p.wrong # "none" /\ Clean(Case, "close recovery", seen, Row) => Told(Case, q, x)
  BY <1>8, <1>10, CloseRecoveryShows
<1>12. phase = "cases" /\ at \in 1..Len(Cases)
  BY <1>1, AtWork
<1> DEFINE w == p.wrong
<1>13. /\ Happens(w)
       /\ w = "none" => \A x : Shows(x) => Told(Case, q, x)
       /\ w # "none" /\ Orderly => Told(Case, q, w)
  BY <1>2, <1>3, <1>11 DEF Orderly, Shows
<1> HIDE DEF w
<1> QED
  BY <1>9, <1>12, <1>13, FinishEarned

(***************************************************************************)
(* The synchronization, as far as its exhaustion.                          *)
(***************************************************************************)
\* Two rows with the same notifications and the same approvals.
Alike(q, row) ==
  /\ q.stray = row.stray /\ q.linked = row.linked /\ q.transitions = row.transitions
  /\ q.approvers = row.approvers

\* What will make a synchronization fail stays.
LEMMA LastingStays ==
  ASSUME NEW ob, NEW later, later.first = ob.first, NEW row, NEW q, Alike(q, row)
  PROVE  Lasting(ob, row) => Lasting(later, q)
BY DEF Lasting, Alike, Noisy

\* An approved order.
LEMMA ApprovedIs ==
  ASSUME NEW row, RowOK(row), NEW actor, NEW q, q = Approved(row, actor)
  PROVE  /\ DOMAIN q = RowFields /\ q.stray = row.stray
         /\ q.linked = row.linked + 1 /\ q.transitions = row.transitions + 1
         /\ q.approvers = row.approvers \cup {actor}
         /\ q.sync = [gen |-> 0, receipt |-> <<>>] /\ q.sync # None
<1> DEFINE told == Announced(row)
           queued == Queued(told)
<1>1. /\ DOMAIN told = RowFields /\ told.stray = row.stray
      /\ told.linked = row.linked + 1 /\ told.transitions = row.transitions + 1
      /\ told.approvers = row.approvers
  BY DEF Announced, RowOK, RowFields
<1> HIDE DEF told
<1>2. /\ DOMAIN queued = RowFields /\ queued.stray = told.stray
      /\ queued.linked = told.linked /\ queued.transitions = told.transitions
      /\ queued.approvers = told.approvers /\ queued.sync = [gen |-> 0, receipt |-> <<>>]
  BY <1>1 DEF Queued, RowFields
<1>3. q = [queued EXCEPT !.state = "APPROVED", !.approvers = @ \cup {actor}]
  BY DEF Approved, told
<1> HIDE DEF queued
<1>4. /\ DOMAIN q = RowFields /\ q.stray = queued.stray /\ q.linked = queued.linked
      /\ q.transitions = queued.transitions /\ q.approvers = queued.approvers \cup {actor}
      /\ q.sync = queued.sync
  BY <1>2, <1>3 DEF RowFields
<1>5. [gen |-> 0, receipt |-> <<>>] \in [gen : Nat, receipt : Seq(STRING)]
  OBVIOUS
<1> QED BY <1>1, <1>2, <1>4, <1>5, NoneIsNoEvidence

\* What an approval shows.
LEMMA ApproveShows ==
  ASSUME NEW c, NEW row, RowOK(row), row.sync = None, NEW o \in Approve(row),
         NEW ob, NEW later, later.first = ob.first
  PROVE  Passes(c, "approve", ob, row, "claim", later, o.row, o.wrong)
<1> DEFINE right == Approved(row, Approver)
           other == Approved(row, "document")
           unqueued == [right EXCEPT !.sync = None]
           unnoticed == [right EXCEPT !.linked = @ - 1]
<1>1. \/ o = Outcome(right, "none") \/ o = Outcome(other, "approvedByOther")
      \/ o = Outcome(unqueued, "noIntent") \/ o = Outcome(unnoticed, "unnoticed")
  BY Zenon DEF Approve
<1>2. /\ DOMAIN right = RowFields /\ right.stray = row.stray
      /\ right.linked = row.linked + 1 /\ right.transitions = row.transitions + 1
      /\ right.approvers = row.approvers \cup {Approver}
      /\ right.sync = [gen |-> 0, receipt |-> <<>>] /\ right.sync # None
  BY ApprovedIs
<1>3. other.approvers = row.approvers \cup {"document"}
  BY ApprovedIs
<1> HIDE DEF right, other
<1>4. unqueued.sync = None /\ unnoticed.linked = right.linked - 1
      /\ unnoticed.transitions = right.transitions
  BY <1>2 DEF RowFields
<1> HIDE DEF unqueued, unnoticed
<1>5. row.linked \in Nat /\ row.transitions \in Nat
  BY DEF RowOK
<1>6. /\ o.wrong = "none" => o.row = right
      /\ o.wrong # "none" => o.row \in {other, unqueued, unnoticed}
  BY <1>1 DEF Outcome
<1>7. ASSUME o.wrong = "none" PROVE Clean(c, "claim", later, o.row)
  BY <1>2, <1>6, <1>7 DEF Clean
<1>8. ASSUME o.wrong = "none", NEW x, Shown(c, "approve", ob, row, x)
      PROVE  Shown(c, "claim", later, o.row, x)
  <2>1. Noisy(row) => Noisy(right)
    BY <1>2, <1>5 DEF Noisy
  <2>2. \/ ob.first.status # "PASS" \/ ob.first.authority.bound # TRUE
        \/ ob.first.authority.approvalProbe \in Bad \/ Noisy(row)
    BY <1>8 DEF Shown
  <2>3. Lasting(later, right)
    BY <2>1, <2>2 DEF Lasting
  <2> QED BY <1>6, <1>8, <2>3 DEF Shown
<1>9. ASSUME o.wrong # "none", Clean(c, "approve", ob, row), NEW x
      PROVE  Shown(c, "claim", later, o.row, x)
  <2>1. row.linked = row.transitions /\ row.approvers = {}
    BY <1>9 DEF Clean, Calm
  <2>2. Approver \notin other.approvers
    BY <1>3, <2>1 DEF Approver
  <2>3. Noisy(unnoticed)
    BY <1>2, <1>4, <1>5, <2>1 DEF Noisy
  <2>4. Lasting(later, o.row) \/ o.row.sync = None
    BY <1>4, <1>6, <1>9, <2>2, <2>3 DEF Lasting
  <2> QED BY <2>4 DEF Shown
<1> QED BY <1>7, <1>8, <1>9 DEF Passes

\* A row whose state and synchronization are edited.
LEMMA SyncEditedIs ==
  ASSUME NEW row, RowOK(row), row.sync # None, NEW state
  PROVE  /\ DOMAIN row.sync = {"gen", "receipt"} /\ row.sync.gen \in Nat
         /\ LET q == [row EXCEPT !.state = state]
            IN  Alike(q, row) /\ q.sync = row.sync /\ q.state = state /\ DOMAIN q = RowFields
<1>1. DOMAIN row = RowFields /\ row.sync \in SyncRows
  BY DEF RowOK, Maybe
<1>2. DOMAIN row.sync = {"gen", "receipt"} /\ row.sync.gen \in Nat
  BY <1>1 DEF SyncRows
<1> QED BY <1>1, <1>2 DEF RowFields, Alike

\* What the bridge leaves of an order.
LEMMA BridgedIs ==
  ASSUME NEW row, RowOK(row), row.sync # None, NEW o \in Bridged(row)
  PROVE  /\ Alike(o.row, row) /\ o.row.state = "SYNCING"
         /\ o.row.sync # None /\ o.row.sync.gen = row.sync.gen
         /\ o.wrong # "none" => o.row.sync = row.sync
<1> DEFINE moved == [row EXCEPT !.state = "SYNCING"]
           bridged == [row EXCEPT !.state = "SYNCING", !.sync.receipt = <<"r1">>]
<1>1. /\ DOMAIN row.sync = {"gen", "receipt"} /\ row.sync.gen \in Nat
      /\ Alike(moved, row) /\ moved.sync = row.sync /\ moved.state = "SYNCING"
      /\ DOMAIN moved = RowFields
  BY SyncEditedIs
<1>2. o = Outcome(bridged, "none") \/ o = Outcome(moved, "receiptDropped")
  BY Zenon DEF Bridged
<1>3. /\ Alike(bridged, row) /\ bridged.state = "SYNCING"
      /\ bridged.sync = [row.sync EXCEPT !.receipt = <<"r1">>]
  <2>1. DOMAIN row = RowFields
    BY DEF RowOK
  <2> QED BY <2>1 DEF RowFields, Alike
<1>4. bridged.sync.gen = row.sync.gen
  BY <1>1, <1>3
<1>5. o.row.sync # None
  <2>1. o.row.sync \in SyncRows
    BY BridgedRow DEF RowOK, Maybe
  <2> QED BY <2>1, NoneIsNoEvidence DEF SyncRows
<1> HIDE DEF moved, bridged
<1> QED BY <1>1, <1>2, <1>3, <1>4, <1>5 DEF Outcome

\* What the bridge shows.
LEMMA BridgeShows ==
  ASSUME NEW c, NEW row, RowOK(row), row.sync # None, NEW o \in Bridged(row),
         NEW ob, NEW later, later.first = ob.first,
         later.prior = Receipt(o.row), later.gen = Generation(o.row)
  PROVE  Passes(c, "claim", ob, row, "exhaust", later, o.row, o.wrong)
<1>1. /\ Alike(o.row, row) /\ o.row.state = "SYNCING"
      /\ o.row.sync # None /\ o.row.sync.gen = row.sync.gen
      /\ o.wrong # "none" => o.row.sync = row.sync
  BY BridgedIs
<1>2. later.gen = o.row.sync.gen /\ later.prior = o.row.sync.receipt
  BY <1>1 DEF Receipt, Generation
<1>3. Clean(c, "exhaust", later, o.row)
  BY <1>1, <1>2 DEF Clean
<1>4. ASSUME o.wrong = "none", NEW x, Shown(c, "claim", ob, row, x)
      PROVE  Shown(c, "exhaust", later, o.row, x)
  <2>1. Lasting(ob, row)
    BY <1>4 DEF Shown
  <2>2. Lasting(later, o.row)
    BY <1>1, <2>1, LastingStays
  <2> QED BY <2>2 DEF Shown
<1>5. ASSUME o.wrong # "none", Clean(c, "claim", ob, row), NEW x
      PROVE  Shown(c, "exhaust", later, o.row, x)
  <2>1. row.sync.receipt = <<>>
    BY <1>5 DEF Clean
  <2> QED BY <1>1, <1>2, <1>5, <2>1 DEF Shown
<1> QED BY <1>3, <1>4, <1>5 DEF Passes

\* What the exhausted lease shows, if the order failed retryably.
LEMMA ExhaustShows ==
  ASSUME NEW c, NEW row, RowOK(row), NEW o \in Exhausted(row),
         o.row.state = "FAILED_RETRYABLE",
         NEW ob, NEW later, later.first = ob.first, later.prior = ob.prior, later.gen = ob.gen
  PROVE  Passes(c, "exhaust", ob, row, "probe retry", later, o.row, o.wrong)
<1> DEFINE failed == [row EXCEPT !.state = "FAILED_RETRYABLE", !.origin = "SYNCING",
                                 !.audit = @ + 1]
           astray == [row EXCEPT !.state = "FAILED_RETRYABLE", !.origin = "EXTRACTED",
                                 !.audit = @ + 1]
<1>1. \/ o = Outcome(failed, "none") \/ o = Outcome(astray, "wrongOrigin")
      \/ o = Outcome(row, "notExhausted")
  BY Zenon DEF Exhausted
<1>2. DOMAIN row = RowFields
  BY DEF RowOK
<1>3. /\ Alike(failed, row) /\ failed.origin = "SYNCING" /\ failed.sync = row.sync
      /\ astray.origin = "EXTRACTED"
  BY <1>2 DEF RowFields, Alike
<1> HIDE DEF failed, astray
<1>4. /\ o.wrong = "none" => o.row = failed
      /\ o.wrong # "none" => o.row \in {astray, row}
  BY <1>1 DEF Outcome
<1>5. ASSUME o.wrong = "none", Clean(c, "exhaust", ob, row)
      PROVE  Clean(c, "probe retry", later, o.row)
  <2>1. row.sync.gen = ob.gen
    BY <1>5 DEF Clean
  <2> QED BY <1>3, <1>4, <1>5, <2>1 DEF Clean
<1>6. ASSUME o.wrong = "none", NEW x, Shown(c, "exhaust", ob, row, x)
      PROVE  Shown(c, "probe retry", later, o.row, x)
  <2>1. Lasting(ob, row) \/ ob.prior = <<>>
    BY <1>6 DEF Shown
  <2>2. Lasting(ob, row) => Lasting(later, failed)
    BY <1>3, LastingStays
  <2> QED BY <1>4, <1>6, <2>1, <2>2 DEF Shown
<1>7. ASSUME o.wrong # "none", Clean(c, "exhaust", ob, row), NEW x
      PROVE  Shown(c, "probe retry", later, o.row, x)
  <2>1. row.state = "SYNCING"
    BY <1>7 DEF Clean
  <2>2. o.row = astray
    BY <1>4, <1>7, <2>1
  <2> QED BY <1>3, <2>2 DEF Shown
<1> QED BY <1>5, <1>6, <1>7 DEF Passes

\* What the probe of the retry shows.
LEMMA ProbeRetryShows ==
  ASSUME NEW c, NEW row, RowOK(row), NEW p \in Unauthorized(row, Retried(row, Intruder)),
         NEW ob, NEW later, later.first = ob.first, later.prior = ob.prior, later.gen = ob.gen,
         later.probe = RetryProbe(row, p.row, p.answer)
  PROVE  Passes(c, "probe retry", ob, row, "retry sync", later, p.row, p.wrong)
<1> DEFINE granted == Retried(row, Intruder)
<1>1. granted.audit = row.audit + 1 /\ row.audit \in Nat
  BY RetriedIs DEF RowOK
<1>2. granted.audit # row.audit /\ p \in Unauthorized(row, granted)
  BY <1>1
<1> HIDE DEF granted
<1>3. p.wrong # "none" => later.probe.retryProbe \in Bad
  BY <1>2, BadlyRefused
<1>4. p.wrong = "none" => p.row = row
  BY <1>2 DEF Unauthorized
<1>5. p.wrong = "none" /\ Clean(c, "probe retry", ob, row) => Clean(c, "retry sync", later, p.row)
  BY <1>4 DEF Clean
<1>6. ASSUME p.wrong = "none", NEW x, Shown(c, "probe retry", ob, row, x)
      PROVE  Shown(c, "retry sync", later, p.row, x)
  <2>1. Lasting(ob, row) \/ ob.prior = <<>> \/ row.origin # "SYNCING"
    BY <1>6 DEF Shown
  <2>2. Lasting(ob, row) => Lasting(later, row)
    BY DEF Lasting
  <2> QED BY <1>4, <1>6, <2>1, <2>2 DEF Shown
<1>7. p.wrong # "none" => \A x : Shown(c, "retry sync", later, p.row, x)
  BY <1>3 DEF Shown
<1> QED BY <1>5, <1>6, <1>7 DEF Passes

\* What the retry of a synchronization shows, if the order synchronizes again.
LEMMA RetrySyncShows ==
  ASSUME NEW c, NEW row, RowOK(row), row.sync # None, NEW o \in Retry(row),
         o.row.state = "SYNCING",
         NEW ob, NEW later, later.first = ob.first, later.prior = ob.prior, later.gen = ob.gen,
         later.probe = ob.probe, later.retrier = o.row.retrier, later.atRetry = Receipt(o.row)
  PROVE  Passes(c, "retry sync", ob, row, "execute", later, o.row, o.wrong)
<1> DEFINE right == Retried(row, Retrier)
           other == Retried(row, "document")
           astray == [right EXCEPT !.state = "RECEIVED"]
           same == [right EXCEPT !.sync.gen = row.sync.gen]
           lost == [right EXCEPT !.sync.receipt = <<>>]
<1>1. \/ o = Outcome(right, "none") \/ o = Outcome(other, "retriedByOther")
      \/ o = Outcome(astray, "wrongResume") \/ o = Outcome(same, "sameGeneration")
      \/ o = Outcome(lost, "receiptLost")
  BY Zenon DEF Retry
<1>2. /\ right.stray = row.stray /\ right.linked = row.linked
      /\ right.transitions = row.transitions /\ right.approvers = row.approvers
      /\ right.state = row.origin /\ DOMAIN right = RowFields /\ RowOK(right)
      /\ right.sync # None
  BY RetriedIs
<1>3. other.retrier = "document"
  BY RetriedIs
<1>4. row.sync.gen \in Nat /\ DOMAIN right.sync = {"gen", "receipt"}
  BY <1>2, SyncEditedIs
<1> HIDE DEF right, other
<1>5. astray.state = "RECEIVED"
  BY <1>2 DEF RowFields
<1>6. same.sync = [right.sync EXCEPT !.gen = row.sync.gen]
      /\ lost.sync = [right.sync EXCEPT !.receipt = <<>>]
  BY <1>2 DEF RowFields
<1> HIDE DEF astray, same, lost
<1>7. same.sync.gen = row.sync.gen /\ lost.sync.receipt = <<>>
  BY <1>4, <1>6
<1>8. /\ o.wrong = "none" => o.row = right
      /\ o.wrong # "none" => o.row \in {other, same, lost}
  BY <1>1, <1>5 DEF Outcome
<1>9. Clean(c, "execute", later, o.row)
  BY DEF Clean
<1>10. ASSUME o.wrong = "none", NEW x, Shown(c, "retry sync", ob, row, x)
       PROVE  Shown(c, "execute", later, o.row, x)
  <2>1. \/ Lasting(ob, row) \/ ob.prior = <<>> \/ row.origin # "SYNCING"
        \/ ob.probe.retryProbe \in Bad
    BY <1>10 DEF Shown
  <2>2. Lasting(ob, row) => Lasting(later, right)
    BY <1>2, LastingStays DEF Alike
  <2> QED BY <1>2, <1>8, <1>10, <2>1, <2>2 DEF Shown
<1>11. ASSUME o.wrong # "none", Clean(c, "retry sync", ob, row), NEW x
       PROVE  Shown(c, "execute", later, o.row, x)
  <2>1. row.sync.gen = ob.gen
    BY <1>11 DEF Clean
  <2>2. same.sync.gen # later.gen + 1
    BY <1>4, <1>7, <2>1
  <2>3. o.row = lost => later.atRetry = <<>>
    BY <1>7 DEF Receipt
  <2>4. o.row = other => later.retrier # Retrier
    BY <1>3 DEF Retrier
  <2> QED BY <1>8, <1>11, <2>2, <2>3, <2>4 DEF Shown
<1> QED BY <1>9, <1>10, <1>11 DEF Passes

\* What every step of a synchronization knows.
LEMMA SyncAtWork ==
  ASSUME Assembled, NEW t \in SyncSteps, At(t)
  PROVE  /\ "first" \in DOMAIN seen /\ RowOK(Row) /\ t # "intake"
         /\ t \in BridgeSteps =>
              /\ Row.sync \in SyncRows /\ Row.sync # None
              /\ {"prior", "gen"} \subseteq DOMAIN seen
         /\ t \in {"retry sync", "execute"} => "probe" \in DOMAIN seen
<1>1. t # "intake"
  BY DEF SyncSteps, BridgeSteps
<1>2. None \notin SyncRows
  BY NoneIsNoEvidence DEF SyncRows
<1> QED BY <1>1, <1>2, SeenOfSync

\* A command that raised.
LEMMA RaisedEarns ==
  ASSUME Assembled, Timed, Timed', Earned, NEW t, At(t), t # "intake", Raised
  PROVE  Earned'
<1> DEFINE w == "none"
<1>1. Finish(ErrorResult(seen.first.provider)) /\ Happens(w)
  BY NothingHappens DEF Raised
<1> HIDE DEF w
<1> QED BY <1>1, FailureEarns

\* The approval of a synchronization's order.
LEMMA ApproveOrderEarns ==
  ASSUME Assembled, Timed, Timed', Earned, ApproveOrder
  PROVE  Earned'
<1> DEFINE t == "approve"
           s == "claim"
           news == <<>>
<1>1. At(t) /\ t = "approve" /\ t \in SyncSteps
  BY DEF ApproveOrder, SyncSteps
<1>2. CASE Raised
  <2>1. t # "intake"
    OBVIOUS
  <2> HIDE DEF t
  <2> QED BY <1>1, <1>2, <2>1, RaisedEarns
<1>3. ASSUME Row.sync = None, NEW o \in Approve(Row), Happens(o.wrong), Stored(o.row),
             Continue(s, news)
      PROVE  Earned'
  <2> DEFINE later == seen'
             w == o.wrong
             row == o.row
  <2>1. DOMAIN news = {} /\ "first" \notin DOMAIN news
    OBVIOUS
  <2>2. Happens(w) /\ Leaves(row) /\ t # "intake" /\ s # "intake" /\ s = "claim"
        /\ Rank(t) < Rank(s)
    BY <1>3, Onward, StoredLeaves
  <2>0. Continue(s, news)
    BY <1>3
  <2> HIDE DEF t, s, news
  <2>3. "first" \in DOMAIN seen /\ RowOK(Row)
    BY <1>1, SyncAtWork
  <2>4. later.first = seen.first
    BY <2>0, <2>1, <2>3, Continued
  <2> HIDE DEF later
  <2>5. Passes(Case, t, seen, Row, s, later, row, w)
    BY <1>1, <1>3, <2>2, <2>3, <2>4, ApproveShows
  <2> HIDE DEF w, row
  <2>6. Passes(Case, t, seen, Row, s, seen', row, w)
    BY <2>5 DEF later
  <2>7. s # "close replay" /\ s # "close recovery"
    BY <2>2
  <2> QED BY <1>1, <2>0, <2>1, <2>2, <2>6, <2>7, StepEarns
<1> QED BY <1>2, <1>3 DEF ApproveOrder

\* The claim and the bridge.
LEMMA ClaimEarns ==
  ASSUME Assembled, Timed, Timed', Earned, ClaimAndBridge
  PROVE  Earned'
<1> DEFINE t == "claim"
           s == "exhaust"
<1>1. At(t) /\ t = "claim" /\ t \in SyncSteps /\ t # "intake"
  BY DEF ClaimAndBridge, SyncSteps
<1>2. CASE Raised
  <2> HIDE DEF t
  <2> QED BY <1>1, <1>2, RaisedEarns
<1>3. CASE /\ Finish(BenchmarkFailure(seen.first, {"reliability", "safety"}))
           /\ UNCHANGED <<wrong, faults>>
  <2> DEFINE w == "none"
  <2>1. Happens(w)
    BY <1>3, NothingHappens
  <2>2. \E scores : Finish(BenchmarkFailure(seen.first, scores))
    BY <1>3
  <2> HIDE DEF t, w
  <2> QED BY <1>1, <2>1, <2>2, FailureEarns
<1>4. ASSUME Name \in Claims, NEW o \in Bridged(Row), Happens(o.wrong), Stored(o.row),
             Continue(s, [prior |-> Receipt(o.row), gen |-> Generation(o.row)])
      PROVE  Earned'
  <2> DEFINE news == [prior |-> Receipt(o.row), gen |-> Generation(o.row)]
             later == seen'
             w == o.wrong
             row == o.row
  <2>1. /\ DOMAIN news = {"prior", "gen"} /\ "first" \notin DOMAIN news
        /\ news.prior = Receipt(row) /\ news.gen = Generation(row) /\ Continue(s, news)
    BY <1>4
  <2>2. Happens(w) /\ Leaves(row) /\ s # "intake" /\ s = "exhaust" /\ Rank(t) < Rank(s)
    BY <1>4, Onward, StoredLeaves
  <2> HIDE DEF t, s, news
  <2>3. "first" \in DOMAIN seen /\ RowOK(Row)
    BY <1>1, SyncAtWork
  <2>4. later.first = seen.first /\ later.prior = Receipt(row) /\ later.gen = Generation(row)
    BY <2>1, <2>3, Continued
  <2>5. Row.sync # None
    BY <1>4 DEF Claims, Claimable, Row
  <2> HIDE DEF later
  <2>6. Passes(Case, t, seen, Row, s, later, row, w)
    BY <1>1, <1>4, <2>2, <2>3, <2>4, <2>5, BridgeShows
  <2> HIDE DEF w, row
  <2>7. Passes(Case, t, seen, Row, s, seen', row, w)
    BY <2>6 DEF later
  <2>8. s # "close replay" /\ s # "close recovery"
    BY <2>2
  <2> QED BY <1>1, <2>1, <2>2, <2>7, <2>8, StepEarns
<1> QED BY <1>2, <1>3, <1>4 DEF ClaimAndBridge

\* The lease that was exhausted.
LEMMA ExhaustEarns ==
  ASSUME Assembled, Timed, Timed', Earned, Exhaust
  PROVE  Earned'
<1> DEFINE t == "exhaust"
           s == "probe retry"
<1>1. At(t) /\ t = "exhaust" /\ t \in SyncSteps /\ t \in BridgeSteps /\ t # "intake"
  BY DEF Exhaust, SyncSteps, BridgeSteps
<1>2. ASSUME NEW w, Happens(w), Finish(BenchmarkFailure(seen.first, {"reliability"}))
      PROVE  Earned'
  <2>1. \E scores : Finish(BenchmarkFailure(seen.first, scores))
    BY <1>2
  <2> HIDE DEF t
  <2> QED BY <1>1, <1>2, <2>1, FailureEarns
<1>3. CASE /\ Finish(BenchmarkFailure(seen.first, {"reliability"}))
           /\ UNCHANGED <<wrong, faults>>
  <2> DEFINE w == "none"
  <2>1. Happens(w)
    BY <1>3, NothingHappens
  <2> HIDE DEF t, w
  <2> QED BY <1>2, <1>3, <2>1
<1>4. ASSUME NEW o \in Exhausted(Row), Happens(o.wrong), Stored(o.row),
             o.row.state = "FAILED_RETRYABLE", Continue(s, [etag |-> ETag(o.row)])
      PROVE  Earned'
  <2> DEFINE news == [etag |-> ETag(o.row)]
             later == seen'
             w == o.wrong
             row == o.row
  <2>1. DOMAIN news = {"etag"} /\ "first" \notin DOMAIN news /\ Continue(s, news)
    BY <1>4
  <2>2. Happens(w) /\ Leaves(row) /\ s # "intake" /\ s = "probe retry" /\ Rank(t) < Rank(s)
    BY <1>4, Onward, StoredLeaves
  <2> HIDE DEF t, s, news
  <2>3. "first" \in DOMAIN seen /\ RowOK(Row) /\ {"prior", "gen"} \subseteq DOMAIN seen
    BY <1>1, SyncAtWork
  <2>4. later.first = seen.first /\ later.prior = seen.prior /\ later.gen = seen.gen
    BY <2>1, <2>3, Continued
  <2> HIDE DEF later
  <2>5. Passes(Case, t, seen, Row, s, later, row, w)
    BY <1>1, <1>4, <2>2, <2>3, <2>4, ExhaustShows
  <2> HIDE DEF w, row
  <2>6. Passes(Case, t, seen, Row, s, seen', row, w)
    BY <2>5 DEF later
  <2>7. s # "close replay" /\ s # "close recovery"
    BY <2>2
  <2> QED BY <1>1, <2>1, <2>2, <2>6, <2>7, StepEarns
<1> QED BY <1>2, <1>3, <1>4 DEF Exhaust

\* The probe of the retry.
LEMMA ProbeRetryEarns ==
  ASSUME Assembled, Timed, Earned, ProbeRetry
  PROVE  Earned'
<1> DEFINE t == "probe retry"
           s == "retry sync"
<1>1. At(t) /\ t = "probe retry" /\ t \in SyncSteps /\ t \in BridgeSteps /\ t # "intake"
  BY DEF ProbeRetry, SyncSteps, BridgeSteps
<1>2. PICK p \in Unauthorized(Row, Retried(Row, Intruder)) :
        /\ Happens(p.wrong) /\ Stored(p.row)
        /\ Continue(s, [probe |-> RetryProbe(Row, p.row, p.answer)])
  BY DEF ProbeRetry
<1> DEFINE news == [probe |-> RetryProbe(Row, p.row, p.answer)]
           later == seen'
           w == p.wrong
           row == p.row
<1>3. /\ DOMAIN news = {"probe"} /\ "first" \notin DOMAIN news /\ Continue(s, news)
      /\ news.probe = RetryProbe(Row, row, p.answer)
  BY <1>2
<1>4. Happens(w) /\ Leaves(row) /\ s # "intake" /\ s = "retry sync" /\ Rank(t) < Rank(s)
  BY <1>2, Onward, StoredLeaves
<1> HIDE DEF t, s, news
<1>5. "first" \in DOMAIN seen /\ RowOK(Row) /\ {"prior", "gen"} \subseteq DOMAIN seen
  BY <1>1, SyncAtWork
<1>6. later.first = seen.first /\ later.prior = seen.prior /\ later.gen = seen.gen
      /\ later.probe = RetryProbe(Row, row, p.answer)
  BY <1>3, <1>5, Continued
<1> HIDE DEF later
<1>7. Passes(Case, t, seen, Row, s, later, row, w)
  BY <1>1, <1>2, <1>4, <1>5, <1>6, ProbeRetryShows
<1> HIDE DEF w, row
<1>8. Passes(Case, t, seen, Row, s, seen', row, w)
  BY <1>7 DEF later
<1>9. s # "close replay" /\ s # "close recovery"
  BY <1>4
<1> QED BY <1>1, <1>3, <1>4, <1>8, <1>9, StepEarns

\* The retry of a synchronization.
LEMMA RetrySyncEarns ==
  ASSUME Assembled, Timed, Timed', Earned, RetrySync
  PROVE  Earned'
<1> DEFINE t == "retry sync"
           s == "execute"
<1>1. At(t) /\ t = "retry sync" /\ t \in SyncSteps /\ t \in BridgeSteps /\ t # "intake"
  BY DEF RetrySync, SyncSteps, BridgeSteps
<1>2. CASE Raised
  <2> HIDE DEF t
  <2> QED BY <1>1, <1>2, RaisedEarns
<1>3. ASSUME NEW o \in Retry(Row), Happens(o.wrong),
             Finish(BenchmarkFailure(seen.first, {"reliability"}))
      PROVE  Earned'
  <2> DEFINE w == o.wrong
  <2>1. Happens(w) /\ \E scores : Finish(BenchmarkFailure(seen.first, scores))
    BY <1>3
  <2> HIDE DEF t, w
  <2> QED BY <1>1, <2>1, FailureEarns
<1>4. ASSUME NEW o \in Retry(Row), Happens(o.wrong), Stored(o.row), o.row.state = "SYNCING",
             Continue(s, [retrier |-> o.row.retrier, atRetry |-> Receipt(o.row)])
      PROVE  Earned'
  <2> DEFINE news == [retrier |-> o.row.retrier, atRetry |-> Receipt(o.row)]
             later == seen'
             w == o.wrong
             row == o.row
  <2>1. /\ DOMAIN news = {"retrier", "atRetry"} /\ "first" \notin DOMAIN news
        /\ Continue(s, news) /\ news.retrier = row.retrier /\ news.atRetry = Receipt(row)
    BY <1>4
  <2>2. Happens(w) /\ Leaves(row) /\ s # "intake" /\ s = "execute" /\ Rank(t) < Rank(s)
    BY <1>4, Onward, StoredLeaves
  <2> HIDE DEF t, s, news
  <2>3. "first" \in DOMAIN seen /\ RowOK(Row) /\ {"prior", "gen"} \subseteq DOMAIN seen
        /\ "probe" \in DOMAIN seen /\ Row.sync # None
    BY <1>1, SyncAtWork
  <2>4. /\ later.first = seen.first /\ later.prior = seen.prior /\ later.gen = seen.gen
        /\ later.probe = seen.probe /\ later.retrier = row.retrier
        /\ later.atRetry = Receipt(row)
    BY <2>1, <2>3, Continued
  <2> HIDE DEF later
  <2>5. Passes(Case, t, seen, Row, s, later, row, w)
    BY <1>1, <1>4, <2>2, <2>3, <2>4, RetrySyncShows
  <2> HIDE DEF w, row
  <2>6. Passes(Case, t, seen, Row, s, seen', row, w)
    BY <2>5 DEF later
  <2>7. s # "close replay" /\ s # "close recovery"
    BY <2>2
  <2> QED BY <1>1, <2>1, <2>2, <2>6, <2>7, StepEarns
<1> QED BY <1>2, <1>3, <1>4 DEF RetrySync

\* Whatever else a scenario raises.
LEMMA BreaksEarns ==
  ASSUME Assembled, Timed, Timed', Earned, Breaks
  PROVE  Earned'
<1> DEFINE t == step
           w == "broke"
<1>1. At(t) /\ t # "intake" /\ Happens(w) /\ \E p : Finish(ErrorResult(p))
  BY DEF Breaks
<1> HIDE DEF w, t
<1> QED BY <1>1, FailureEarns

(***************************************************************************)
(* The retried synchronization, and all steps together.                    *)
(***************************************************************************)
\* What the evidence of a synchronization says.
LEMMA SyncAuthoritySays ==
  ASSUME NEW a \in AuthorityEvidences, NEW r, r.order # None, NEW row, RowOK(row),
         seen.probe \in RetryProbes, NEW q, q = SyncAuthority(a, r, row)
  PROVE  /\ q.bound = a.bound /\ q.approvalProbe = a.approvalProbe
         /\ q.retryProbe = seen.probe.retryProbe
         /\ q.retrySeen = (seen.retrier = Retrier)
         /\ q.noticeProbe = NoticeObservation(r.order, row).noticeProbe
         /\ q.externalProbe = ExternalObservation(r, row).externalProbe
<1> DEFINE external == ExternalObservation(r, row)
           notice == NoticeObservation(r.order, row)
           probe == seen.probe
           updated ==
             [a EXCEPT !.roles = @ \cup {Case.approval, "APPROVER", "REVIEWER"},
                       !.retryApplies = TRUE,
                       !.retrySeen = seen.retrier = Retrier,
                       !.approvalSeen = external.authorized]
           both == notice ++ external
           three == both ++ probe
           merged == three ++ updated
           counted == [merged EXCEPT !.violations = Violations(merged)]
<1>1. DOMAIN a = AuthorityFields
  BY WholeEvidence
<1>2. /\ DOMAIN updated = AuthorityFields
      /\ updated.bound = a.bound /\ updated.approvalProbe = a.approvalProbe
      /\ updated.retrySeen = (seen.retrier = Retrier)
  BY <1>1 DEF AuthorityFields
<1>3. /\ DOMAIN notice = {"noticeProbe", "noticeSeen", "transitions", "intents"}
      /\ DOMAIN external = {"externalProbe", "syncSeen", "syncIntents", "syncReached", "authorized"}
  <2>1. notice \in NoticeRecords /\ external \in ExternalRecords
    BY ObservationsAreOK
  <2> QED BY <2>1 DEF NoticeRecords, ExternalRecords
<1>4. DOMAIN probe = {"retryProbe", "genBefore", "genAfter", "retryUnchanged"}
  BY DEF RetryProbes
<1>5. q = counted
  BY DEF SyncAuthority
<1> HIDE DEF updated, notice, external, probe
<1>6. /\ DOMAIN both = DOMAIN notice \cup DOMAIN external
      /\ both.noticeProbe = notice.noticeProbe
      /\ both.externalProbe = external.externalProbe
  <2>1. /\ DOMAIN both = DOMAIN notice \cup DOMAIN external
        /\ \A x \in DOMAIN notice : both[x] = notice[x]
        /\ \A x \in DOMAIN external \ DOMAIN notice : both[x] = external[x]
    BY Merged
  <2> HIDE DEF both
  <2> QED BY <1>3, <2>1
<1> HIDE DEF both
<1>7. /\ DOMAIN three = DOMAIN both \cup DOMAIN probe
      /\ three.noticeProbe = notice.noticeProbe
      /\ three.externalProbe = external.externalProbe
      /\ three.retryProbe = probe.retryProbe
  <2>1. /\ DOMAIN three = DOMAIN both \cup DOMAIN probe
        /\ \A x \in DOMAIN both : three[x] = both[x]
        /\ \A x \in DOMAIN probe \ DOMAIN both : three[x] = probe[x]
    BY Merged
  <2> HIDE DEF three
  <2> QED BY <1>3, <1>4, <1>6, <2>1
<1> HIDE DEF three
<1>8. /\ AuthorityFields \subseteq DOMAIN merged
      /\ merged.noticeProbe = notice.noticeProbe
      /\ merged.externalProbe = external.externalProbe
      /\ merged.retryProbe = probe.retryProbe
      /\ merged.bound = updated.bound /\ merged.approvalProbe = updated.approvalProbe
      /\ merged.retrySeen = updated.retrySeen
  <2>1. /\ DOMAIN merged = DOMAIN three \cup DOMAIN updated
        /\ \A x \in DOMAIN three : merged[x] = three[x]
        /\ \A x \in DOMAIN updated \ DOMAIN three : merged[x] = updated[x]
    BY Merged
  <2> HIDE DEF merged
  <2>2. DOMAIN three = {"noticeProbe", "noticeSeen", "transitions", "intents", "externalProbe",
                        "syncSeen", "syncIntents", "syncReached", "authorized",
                        "retryProbe", "genBefore", "genAfter", "retryUnchanged"}
    BY <1>3, <1>4, <1>6, <1>7
  <2>3. \A x \in {"bound", "approvalProbe", "retrySeen"} : merged[x] = updated[x]
    BY <1>2, <2>1, <2>2 DEF AuthorityFields
  <2>4. \A x \in {"noticeProbe", "externalProbe", "retryProbe"} : merged[x] = three[x]
    BY <2>1, <2>2
  <2> QED BY <1>2, <1>7, <2>1, <2>3, <2>4
<1> HIDE DEF merged
<1>9. /\ counted.noticeProbe = merged.noticeProbe
      /\ counted.externalProbe = merged.externalProbe /\ counted.retryProbe = merged.retryProbe
      /\ counted.bound = merged.bound /\ counted.approvalProbe = merged.approvalProbe
      /\ counted.retrySeen = merged.retrySeen
  BY <1>8 DEF AuthorityFields
<1> HIDE DEF counted
<1> QED BY <1>2, <1>5, <1>8, <1>9 DEF notice, external, probe

\* The right outcome of a synchronization, and what every wrong one is.
LEMMA SynchronizedIs ==
  ASSUME NEW row, RowOK(row), row.sync \in SyncRows, NEW o \in Synchronized(row)
  PROVE  /\ o.wrong = "none" =>
              /\ Alike(o.row, row) /\ o.row.sync # None /\ o.row.sync.gen = row.sync.gen
         /\ o.wrong # "none" =>
              \/ o.wrong \in {"reran", "rebridged"} /\ o.steps = <<Bridge>> \o CrmSteps
              \/ o.wrong = "unfinished" /\ o.row.state = row.state
              \/ o.wrong = "skippedAll" /\ o.steps = <<>>
              \/ o.wrong = "skippedOne"
<1> DEFINE done == [row EXCEPT !.state = "COMPLETED"]
           receipt == IF done.sync.receipt = <<>> THEN <<"r1">> ELSE done.sync.receipt
           right == [done EXCEPT !.sync.receipt = receipt]
           other == [done EXCEPT !.sync.receipt = <<"r2">>]
           unfinished == [row EXCEPT !.audit = @ + 1]
           steps == IF row.sync.receipt = <<>> THEN <<Lookup, Bridge>> \o CrmSteps ELSE CrmSteps
           again == <<Bridge>> \o CrmSteps
<1> DEFINE Work(new, s, wr) == [row |-> new, steps |-> s, wrong |-> wr]
<1>1. \/ o = Work(right, steps, "none") \/ o = Work(done, again, "reran")
      \/ o = Work(other, again, "rebridged") \/ o = Work(unfinished, steps, "unfinished")
      \/ o = Work(done, <<>>, "skippedAll") \/ o = Work(done, Tail(CrmSteps), "skippedOne")
  BY Zenon DEF Synchronized
<1>2. None \notin SyncRows /\ DOMAIN row = RowFields
  BY NoneIsNoEvidence DEF SyncRows, RowOK
<1>3. /\ Alike(done, row) /\ DOMAIN done = RowFields /\ done.sync = row.sync
      /\ unfinished.state = row.state
  BY <1>2 DEF Alike, RowFields
<1>4. receipt \in Seq(STRING)
  BY <1>3, ReceiptsAreStrings DEF SyncRows
<1>5. RowOK(done)
  <2>1. RowKept(done, row, {"state", "origin", "audit"})
        /\ done.state = "COMPLETED" /\ done.origin = row.origin /\ done.audit = row.audit
    BY DEF RowKept, RowOK, RowFields
  <2> HIDE DEF done
  <2> QED BY <2>1, RoutesAreStates, StateEdited DEF RowOK, States
<1> HIDE DEF done, receipt, unfinished, other, steps, again
<1>6. right.sync \in SyncRows
  BY <1>3, <1>4, <1>5, SyncEdited
<1>7. /\ Alike(right, done) /\ right.sync = [done.sync EXCEPT !.receipt = receipt]
  BY <1>3 DEF Alike, RowFields
<1>8. right.sync.gen = row.sync.gen
  BY <1>3, <1>7 DEF SyncRows
<1> HIDE DEF right
<1>9. Alike(right, row) /\ right.sync # None
  BY <1>2, <1>3, <1>6, <1>7 DEF Alike
<1>10. CASE o = Work(right, steps, "none")
  BY <1>8, <1>9, <1>10
<1>11. CASE o = Work(done, again, "reran") \/ o = Work(other, again, "rebridged")
  BY <1>11 DEF again
<1>12. CASE o = Work(unfinished, steps, "unfinished")
  BY <1>3, <1>12
<1>13. CASE o = Work(done, <<>>, "skippedAll")
  BY <1>13
<1>14. CASE o = Work(done, Tail(CrmSteps), "skippedOne")
  BY <1>14
<1> QED BY <1>1, <1>10, <1>11, <1>12, <1>13, <1>14

\* Steps that were done before are noticed.
LEMMA RerunIsNoticed ==
  /\ ObjectsAfter(<<Bridge>> \o CrmSteps).rerun
  /\ ObjectsAfter(<<Lookup, Bridge>> \o CrmSteps).rerun
<1>1. Bridge \in Range1(StepsBefore) /\ Lookup \in Range1(StepsBefore)
  BY DEF Range1, StepsBefore
<1>2. ASSUME NEW s, 1 \in DOMAIN s, s[1] \in Range1(StepsBefore)
      PROVE  ObjectsAfter(s).rerun
  BY <1>2 DEF ObjectsAfter, Objects
<1> DEFINE one == <<Bridge>> \o CrmSteps
           two == <<Lookup, Bridge>> \o CrmSteps
<1>3. 1 \in DOMAIN one /\ one[1] = Bridge /\ 1 \in DOMAIN two /\ two[1] = Lookup
  BY DEF CrmSteps
<1> HIDE DEF one, two
<1>4. ObjectsAfter(one).rerun /\ ObjectsAfter(two).rerun
  BY <1>1, <1>2, <1>3
<1> QED BY <1>4 DEF one, two

\* The comparison doubts a synchronization that passed without taking a step.
LEMMA NoStepIsDoubted ==
  ASSUME NEW c, InSync(c), NEW q, q.scores.reliability = TRUE, q.logical.after = <<>>
  PROVE  CaseIssues(c, q) # {}
<1>1. ScoreSyncRecovery(c, q) # TRUE
  <2>1. None # TRUE
    BY NoneIsNothing
  <2> QED BY <2>1 DEF ScoreSyncRecovery
<1>2. ExpectedScores(c, q).reliability # TRUE
  <2>1. None # TRUE
    BY NoneIsNothing
  <2>2. ScoreReliability(c, q) # TRUE
    BY <1>1, <2>1 DEF ScoreReliability, InSync
  <2> QED BY <2>1, <2>2 DEF ExpectedScores
<1> DEFINE expected == ExpectedScores(c, q)
<1>3. "reliability" \in DOMAIN expected
  BY DEF ExpectedScores
<1>4. q.scores["reliability"] # expected["reliability"]
  BY <1>2
<1> HIDE DEF expected
<1>5. <<"reliability", "disagrees_with_observation">> \in
        {<<s, "disagrees_with_observation">> :
            s \in {x \in DOMAIN expected : q.scores[x] # expected[x]}}
  BY <1>3, <1>4
<1>6. <<"reliability", "disagrees_with_observation">> \in ScoreIssues(c, q)
  BY <1>5 DEF ScoreIssues, expected
<1> QED BY <1>6 DEF CaseIssues

\* What a passing synchronization must look like.
SyncPasses(c, ob, new, completed, steps, q) ==
  q.status = "PASS" =>
    /\ ob.first.status = "PASS" /\ completed
    /\ SyncReceiptStatus(ob.prior, ob.atRetry, Receipt(new)) = "PRESERVED"
    /\ Generation(new) = ob.gen + 1
    /\ ~ObjectsAfter(steps).rerun
    /\ steps = <<>> => CaseIssues(c, q) # {}
    /\ q.authority.bound = ob.first.authority.bound
    /\ q.authority.approvalProbe = ob.first.authority.approvalProbe
    /\ q.authority.retryProbe = ob.probe.retryProbe
    /\ q.authority.retrySeen = (ob.retrier = Retrier)
    /\ Noisy(new) => q.authority.noticeProbe = "FAIL"
    /\ Unasked(new) => q.authority.externalProbe = "FAIL"

\* It shows nothing of a mishap, unless a step was skipped.
LEMMA SynchronizeShows ==
  ASSUME NEW c, IsSync(c), NEW ob, NEW row, RowOK(row), row.sync \in SyncRows,
         NEW o \in Synchronized(row), NEW completed, completed = (o.row.state = "COMPLETED"),
         NEW q, SyncPasses(c, ob, o.row, completed, o.steps, q), NEW x
  PROVE  /\ o.wrong = "none" /\ Shown(c, "execute", ob, row, x) => Told(c, q, x)
         /\ o.wrong # "none" /\ Clean(c, "execute", ob, row) => Told(c, q, o.wrong)
<1> SUFFICES ASSUME q.status = "PASS"
             PROVE  /\ o.wrong = "none" /\ Shown(c, "execute", ob, row, x) => Told(c, q, x)
                    /\ o.wrong # "none" /\ Clean(c, "execute", ob, row) => Told(c, q, o.wrong)
  BY DEF Told
<1> DEFINE b == q.authority
           new == o.row
<1>1. /\ ob.first.status = "PASS" /\ new.state = "COMPLETED"
      /\ SyncReceiptStatus(ob.prior, ob.atRetry, Receipt(new)) = "PRESERVED"
      /\ Generation(new) = ob.gen + 1
      /\ ~ObjectsAfter(o.steps).rerun
      /\ o.steps = <<>> => CaseIssues(c, q) # {}
      /\ b.bound = ob.first.authority.bound
      /\ b.approvalProbe = ob.first.authority.approvalProbe
      /\ b.retryProbe = ob.probe.retryProbe
      /\ b.retrySeen = (ob.retrier = Retrier)
      /\ Noisy(new) => b.noticeProbe = "FAIL"
      /\ Unasked(new) => b.externalProbe = "FAIL"
  BY DEF SyncPasses
<1>2. Suspect(c, b) => \A y : Told(c, q, y)
  BY DEF Told
<1> HIDE DEF b
<1>3. /\ o.wrong = "none" =>
           Alike(new, row) /\ new.sync # None /\ new.sync.gen = row.sync.gen
      /\ o.wrong # "none" =>
           \/ o.wrong \in {"reran", "rebridged"} /\ o.steps = <<Bridge>> \o CrmSteps
           \/ o.wrong = "unfinished" /\ new.state = row.state
           \/ o.wrong = "skippedAll" /\ o.steps = <<>>
           \/ o.wrong = "skippedOne"
  BY SynchronizedIs
<1>4. ASSUME o.wrong = "none", Shown(c, "execute", ob, row, x) PROVE Suspect(c, b)
  <2> HIDE DEF new
  <2>1. Alike(new, row) /\ new.sync # None /\ new.sync.gen = row.sync.gen
    BY <1>3, <1>4
  <2>2. /\ ob.prior # <<>> /\ ob.atRetry # <<>>
    BY <1>1 DEF SyncReceiptStatus
  <2>3. row.sync.gen = ob.gen + 1
    BY <1>1, <2>1 DEF Generation
  <2>4. \/ Lasting(ob, row) \/ ob.probe.retryProbe \in Bad \/ ob.retrier # Retrier
    BY <1>4, <2>2, <2>3 DEF Shown
  <2>5. Lasting(ob, new) => \/ b.bound # TRUE \/ b.approvalProbe \in Bad
                            \/ b.noticeProbe \in Bad \/ b.externalProbe \in Bad
    BY <1>1, <2>1 DEF Lasting, Unasked, Bad
  <2>6. Lasting(ob, row) => Lasting(ob, new)
    BY <2>1, LastingStays
  <2>7. ob.retrier # Retrier => b.retrySeen = FALSE
    BY <1>1
  <2> QED BY <1>1, <2>4, <2>5, <2>6, <2>7 DEF Suspect, IsSync
<1>5. ASSUME o.wrong # "none", Clean(c, "execute", ob, row) PROVE Told(c, q, o.wrong)
  <2>1. row.state = "SYNCING"
    BY <1>5 DEF Clean
  <2>2. CASE o.steps = <<Bridge>> \o CrmSteps
    BY <1>1, <2>2, RerunIsNoticed
  <2>3. CASE o.wrong = "skippedAll" /\ o.steps = <<>>
    BY <1>1, <2>3 DEF Told
  <2>4. CASE o.wrong = "skippedOne"
    BY <2>4 DEF Told
  <2> QED BY <1>1, <1>3, <1>5, <2>1, <2>2, <2>3, <2>4
<1> QED BY <1>2, <1>4, <1>5

\* The verdict of a synchronization says so.
LEMMA SyncVerdict ==
  ASSUME InSync(Case), Assembled, NEW r, CaseOK(r), r.order # None,
         r.authority \in AuthorityEvidences, r = seen.first,
         seen.probe \in RetryProbes, seen.gen \in Maybe(Nat),
         NEW row, RowOK(row), NEW completed, NEW steps \in Seq(STRING),
         NEW q, q = WithSync(r, row, completed, steps)
  PROVE  SyncPasses(Case, seen, row, completed, steps, q)
<1> SUFFICES ASSUME q.status = "PASS"
             PROVE  SyncPasses(Case, seen, row, completed, steps, q)
  BY DEF SyncPasses
<1>1. /\ r.status = "PASS" /\ SyncedResult(q, r, row, steps)
      /\ SyncedAsToldTo(row, completed, steps) /\ q.scores.reliability = TRUE
  <2>1. SyncedWell(q, r, row, completed, steps)
    BY ONLY PassingSync, CaseOK(r), q = WithSync(r, row, completed, steps), q.status = "PASS",
     ZenonT(30)
  <2> QED BY <2>1, Zenon DEF SyncedWell
<1>2. /\ completed
      /\ SyncReceiptStatus(seen.prior, seen.atRetry, Receipt(row)) = "PRESERVED"
      /\ Generation(row) = seen.gen + 1 /\ ~ObjectsAfter(steps).rerun
  BY <1>1 DEF SyncedAsToldTo
<1> DEFINE a == r.authority
           b == q.authority
           ran == Ran(r, steps)
<1>3. ran.order = r.order
  BY DEF Ran, CaseOK, ResultFields
<1>4. b = SyncAuthority(a, ran, row)
  BY <1>1 DEF SyncedResult
<1>5. q.logical.after = steps
  <2>1. q.logical = ObjectsAfter(steps)
    BY <1>1 DEF SyncedResult
  <2> QED BY <2>1 DEF ObjectsAfter, Objects
<1>6. steps = <<>> => CaseIssues(Case, q) # {}
  BY <1>1, <1>5, NoStepIsDoubted
<1> HIDE DEF b, ran
<1>7. /\ b.bound = a.bound /\ b.approvalProbe = a.approvalProbe
      /\ b.retryProbe = seen.probe.retryProbe
      /\ b.retrySeen = (seen.retrier = Retrier)
      /\ b.noticeProbe = NoticeObservation(ran.order, row).noticeProbe
      /\ b.externalProbe = ExternalObservation(ran, row).externalProbe
  BY <1>3, <1>4, SyncAuthoritySays
<1>8. Noisy(row) => NoticeObservation(ran.order, row).noticeProbe = "FAIL"
  BY <1>3 DEF Noisy, NoticeObservation
<1>9. Unasked(row) => ExternalObservation(ran, row).externalProbe = "FAIL"
  BY <1>3 DEF Unasked, ExternalObservation
<1> QED BY <1>1, <1>2, <1>6, <1>7, <1>8, <1>9 DEF SyncPasses, b

\* The synchronization, of this order or of another one.
LEMMA SynchronizeEarns ==
  ASSUME ResumesSync, Assembled, Backed, Timed, Timed', Earned, Synchronize
  PROVE  Earned'
<1> DEFINE t == "execute"
<1>1. At(t) /\ t = "execute" /\ t \in SyncSteps /\ t \in BridgeSteps /\ t # "intake"
  BY DEF Synchronize, SyncSteps, BridgeSteps
<1> HIDE DEF t
<1>2. /\ CaseOK(seen.first) /\ seen.first.authority \in AuthorityEvidences
      /\ Case.recovery # None /\ Case.approval # None
      /\ RowOK(Row) /\ Row.sync \in SyncRows
      /\ seen.gen \in Maybe(Nat) /\ seen.probe \in RetryProbes
  BY <1>1, SeenOfSync
<1>3. /\ phase = "cases" /\ step = t /\ at \in 1..Len(Cases)
      /\ InSync(Case) /\ IsSync(Case)
  BY <1>1, <1>2, AtWork DEF ResumesSync, InSync, IsSync, Case
<1>4. seen.first.order # None
  BY <1>1, KnownOrder
<1> DEFINE r == seen.first
<1>5. CASE \E o \in Synchronized(Row) :
             /\ Happens(o.wrong)
             /\ Finish(WithSync(seen.first, o.row, o.row.state = "COMPLETED", o.steps))
  <2>1. PICK o \in Synchronized(Row) :
             /\ Happens(o.wrong)
             /\ Finish(WithSync(seen.first, o.row, o.row.state = "COMPLETED", o.steps))
    BY <1>5
  <2> DEFINE completed == o.row.state = "COMPLETED"
             q == WithSync(r, o.row, completed, o.steps)
             w == o.wrong
             row == o.row
             steps == o.steps
  <2>2. RowOK(row) /\ steps \in Seq(STRING)
    BY <1>2, <2>1, SynchronizedRow
  <2>3. Happens(w) /\ Finish(q) /\ q = WithSync(r, row, completed, steps)
    BY <2>1
  <2>0. completed = (o.row.state = "COMPLETED")
    OBVIOUS
  <2> HIDE DEF q, completed
  <2>4. SyncPasses(Case, seen, row, completed, steps, q)
    <3> HIDE DEF row, steps
    <3> QED BY <1>2, <1>3, <1>4, <2>2, <2>3, SyncVerdict
  <2>5. \A x :
          /\ w = "none" /\ Shown(Case, t, seen, Row, x) => Told(Case, q, x)
          /\ w # "none" /\ Clean(Case, t, seen, Row) => Told(Case, q, w)
    BY <1>1, <1>2, <1>3, <2>0, <2>4, SynchronizeShows
  <2> HIDE DEF w
  <2>6. /\ w = "none" => \A x : Shows(x) => Told(Case, q, x)
        /\ w # "none" /\ Orderly => Told(Case, q, w)
    BY <1>3, <2>5 DEF Orderly, Shows
  <2> QED BY <1>3, <2>3, <2>6, FinishEarned
<1>6. CASE /\ Finish(WithSync(seen.first, Row, TRUE, <<Lookup, Bridge>> \o CrmSteps))
           /\ UNCHANGED <<wrong, faults>>
  <2> DEFINE completed == TRUE
             steps == <<Lookup, Bridge>> \o CrmSteps
             q == WithSync(r, Row, completed, steps)
             w == "none"
  <2>1. steps \in Seq(STRING)
    BY StepsAreStrings
  <2>2. ObjectsAfter(steps).rerun
    BY RerunIsNoticed
  <2>3. Finish(q) /\ q = WithSync(r, Row, completed, steps) /\ Happens(w)
    BY <1>6, NothingHappens
  <2>4. w = "none"
    OBVIOUS
  <2> HIDE DEF q, steps, completed, w
  <2>5. SyncPasses(Case, seen, Row, completed, steps, q)
    BY <1>2, <1>3, <1>4, <2>1, <2>3, SyncVerdict
  <2>6. q.status # "PASS"
    BY <2>2, <2>5 DEF SyncPasses
  <2>7. \A x : Told(Case, q, x)
    BY <2>6 DEF Told
  <2> QED BY <1>3, <2>3, <2>7, FinishEarned
<1> QED BY <1>5, <1>6 DEF Synchronize

\* Every step of a case.
LEMMA CaseEarns ==
  ASSUME ResumesSync, Telling, Assembled, Backed, Timed, Timed', Earned, RunCase
  PROVE  Earned'
BY IntakeEarns, IntakeRaisesEarns, ProbeEarns, CloseEarns, ReplayEarns, CloseReplayEarns,
   NotFailedEarns, RetryFailedEarns, ResumeEarns, ResumeRaisesEarns, CloseRecoveryEarns,
   ApproveOrderEarns, ClaimEarns, ExhaustEarns, ProbeRetryEarns, RetrySyncEarns,
   SynchronizeEarns, BreaksEarns
DEF RunCase

(***************************************************************************)
(* The verdict on the run tells what its cases tell.                       *)
(***************************************************************************)
\* A sum of natural numbers is no less than any of them.
LEMMA SumCoversParts ==
  ASSUME NEW D, IsFiniteSet(D), NEW v, \A i \in D : v[i] \in Nat, NEW N \in Nat,
         NEW f, IsSum(f, D, v, N)
  PROVE  \A S \in Upto(D, N) : \A i \in S : v[i] <= f[S]
<1> DEFINE P == {n \in 0..N : \A S \in Upto(D, n) : \A i \in S : v[i] <= f[S]}
<1>0. /\ \A S \in Upto(D, N) : f[S] = IF S = {} THEN 0 ELSE v[One(S)] + f[S \ {One(S)}]
      /\ \A S \in Upto(D, N) : f[S] \in Nat
  BY SumIsNatural DEF IsSum
<1>1. 0 \in P
  <2>1. \A S \in Upto(D, 0) : S = {}
    BY FS_Subset, FS_CardinalityType, FS_EmptySet DEF Upto
  <2> QED BY <2>1
<1>2. ASSUME NEW n \in 0..N, n < N, n \in P
      PROVE  n + 1 \in P
  <2>1. ASSUME NEW S \in Upto(D, n + 1), NEW i \in S
        PROVE  v[i] <= f[S]
    <3>1. S \in Upto(D, N) /\ S \in SUBSET D
      BY <1>2, FS_Subset, FS_CardinalityType DEF Upto
    <3> DEFINE one == One(S)
               rest == S \ {one}
    <3>2. one \in S /\ rest \in Upto(D, n)
      BY OneLess
    <3>3. rest \in Upto(D, N)
      BY <1>2, <3>2, FS_Subset, FS_CardinalityType DEF Upto
    <3>4. f[S] = v[one] + f[rest]
      BY <1>0, <3>1
    <3>5. v[one] \in Nat /\ f[rest] \in Nat /\ v[i] \in Nat
      BY <1>0, <3>1, <3>2, <3>3
    <3>6. i = one \/ v[i] <= f[rest]
      BY <1>2, <3>2
    <3> HIDE DEF one, rest
    <3> QED BY <3>4, <3>5, <3>6
  <2> QED BY <1>2, <2>1
<1>3. \A n \in 0..N : n \in P
  <2> HIDE DEF P
  <2> QED BY <1>1, <1>2, Induction
<1> QED
  BY <1>3

\* If no call is counted as failed in all, none is in any case.
LEMMA NoneFailed ==
  ASSUME ResultsOK, Total("failed") = 0, NEW n \in DOMAIN results,
         results[n].provider.name = "gemini"
  PROVE  results[n].provider.failed = 0
<1> DEFINE D == {i \in DOMAIN results : results[i].provider.name = "gemini"}
           v == [i \in DOMAIN results |-> results[i].provider.failed]
           N == Cardinality(D)
           sum == CHOOSE f : f = [S \in SUBSET D |->
                                    IF S = {} THEN 0
                                    ELSE LET i == CHOOSE j \in S : TRUE
                                         IN  results[i].provider["failed"] + f[S \ {i}]]
<1>1. Total("failed") = sum[D]
  BY DEF Total
<1>2. IsFiniteSet(D) /\ N \in Nat
  BY FiniteCorpus DEF ResultsOK
<1>3. \A i \in D : v[i] \in Nat
  <2>1. \A i \in DOMAIN results : results[i].provider \in ProviderSummaries
    BY ProviderOfCase DEF ResultsOK, ProviderOK
  <2> QED BY <2>1 DEF ProviderSummaries
<1>4. Upto(D, N) = SUBSET D
  <2> HIDE DEF D
  <2> QED BY <1>2, FS_Subset DEF Upto
<1>5. PICK f : IsSum(f, D, v, N)
  <2> HIDE DEF D, v, N
  <2> QED BY <1>2, SumExists
<1>6. \A S \in SUBSET D : S # {} =>
        v[One(S)] = results[CHOOSE j \in S : TRUE].provider["failed"]
  BY DEF One
<1>7. f = [S \in SUBSET D |->
             IF S = {} THEN 0
             ELSE LET i == CHOOSE j \in S : TRUE
                  IN  results[i].provider["failed"] + f[S \ {i}]]
  <2> HIDE DEF D, v, N
  <2> QED BY <1>4, <1>5, <1>6 DEF IsSum, One
<1>8. sum = [S \in SUBSET D |->
               IF S = {} THEN 0
               ELSE LET i == CHOOSE j \in S : TRUE
                    IN  results[i].provider["failed"] + sum[S \ {i}]]
  <2> HIDE DEF D, v, N
  <2> QED BY ONLY <1>7, Zenon
<1> HIDE DEF sum
<1>9. IsSum(sum, D, v, N)
  <2> HIDE DEF D, v, N
  <2> QED BY <1>4, <1>6, <1>8 DEF IsSum, One
<1>10. D \in Upto(D, N) /\ n \in D
  BY <1>4
<1>11. v[n] = results[n].provider.failed /\ v[n] \in Nat
  BY <1>3, <1>10
<1> HIDE DEF D, v, N
<1>12. v[n] <= sum[D]
  BY <1>2, <1>3, <1>9, <1>10, SumCoversParts
<1> QED BY <1>1, <1>11, <1>12

\* Suspect evidence is a violation, or something is missing.
LEMMA SuspectIsNoPass ==
  ASSUME NEW c, NEW r, r.authority \in AuthorityEvidences, Suspect(c, r.authority)
  PROVE  AuthorityViolated(c, r.authority) \/ AuthorityMissing(c, r)
<1> DEFINE a == r.authority
<1>1. a.bound \in Maybe(BOOLEAN)
  BY AuthorityType DEF AuthorityOK
<1>2. CASE a.bound # TRUE
  <2>1. a.bound = FALSE \/ a.bound = None
    BY <1>1, <1>2 DEF Maybe
  <2> QED BY <2>1 DEF AuthorityViolated, AuthorityMissing
<1>3. CASE \E p \in Probes(a) : p \in Bad
  <2>1. "FAIL" \in Probes(a) \/ "ERROR" \in Probes(a)
    BY <1>3 DEF Bad
  <2>2. CASE "FAIL" \in Probes(a)
    BY <2>2 DEF AuthorityViolated
  <2>3. CASE "ERROR" \in Probes(a)
    BY <2>3 DEF AuthorityMissing
  <2> QED BY <2>1, <2>2, <2>3
<1>4. CASE c.recovery # None /\ a.retrySeen = FALSE
  BY <1>4 DEF AuthorityViolated
<1> QED BY <1>2, <1>3, <1>4 DEF Suspect, Probes

\* A run whose gates all pass has no suspect evidence.
LEMMA GatesTell ==
  ASSUME NEW rs, DOMAIN rs = DOMAIN Corpus,
         \A n \in DOMAIN rs : rs[n].authority = None \/ rs[n].authority \in AuthorityEvidences,
         AllPassed(ReleaseGates(Corpus, rs))
  PROVE  \A n \in DOMAIN rs : rs[n].authority # None /\ ~Suspect(Corpus[n], rs[n].authority)
<1> DEFINE blind    == {i \in DOMAIN Corpus :
                          \/ i \notin DOMAIN rs
                          \/ rs[i].authority = None}
           violated == {i \in DOMAIN Corpus \ blind :
                          AuthorityViolated(Corpus[i], rs[i].authority)}
           missing  == {i \in DOMAIN Corpus \ (blind \cup violated) :
                          AuthorityMissing(Corpus[i], rs[i])}
<1>1. AuthorityGate(Corpus, rs).status = "PASS"
  BY DEF AllPassed, ReleaseGates
<1>2. violated = {} /\ blind \cup missing = {}
  <2>1. AuthorityGate(Corpus, rs) =
           IF violated # {}
           THEN Gate("FAIL", Cardinality(violated), Cardinality(DOMAIN Corpus), violated)
           ELSE IF blind \cup missing # {}
           THEN GateError(DOMAIN Corpus, blind \cup missing)
           ELSE Gate("PASS", 0, Cardinality(DOMAIN Corpus), {})
    BY DEF AuthorityGate
  <2> HIDE DEF blind, violated, missing
  <2> QED BY <1>1, <2>1 DEF Gate, GateError
<1>3. \A i \in DOMAIN Corpus : /\ rs[i].authority # None
                               /\ ~AuthorityViolated(Corpus[i], rs[i].authority)
                               /\ ~AuthorityMissing(Corpus[i], rs[i])
  BY <1>2
<1> QED BY <1>3, SuspectIsNoPass

\* Nothing that is told goes unnoticed by the end, but for what is.
LEMMA EarnedAtExit ==
  ASSUME Assembled, Reported, Earned
  PROVE  PassIsEarned
<1> SUFFICES ASSUME exit = 0, OneFaultPerCase(wrong), NEW w \in wrong
             PROVE  w[2] \in Unseen
  BY DEF PassIsEarned
<1>1. /\ phase = "ended" /\ Faithful /\ Successful(report) /\ ValidRunResult(report)
  BY DEF Reported
<1>2. /\ report.mode = mode /\ report.results = results
      /\ report.gates = ReleaseGates(Corpus, results) /\ report.failed = Total("failed")
  BY <1>1 DEF Faithful
<1>3. /\ DOMAIN results = DOMAIN Corpus /\ \A n \in DOMAIN results : results[n].status = "PASS"
      /\ AllPassed(ReleaseGates(Corpus, results))
      /\ mode # "provider_free" => Total("failed") = 0
  BY <1>1, <1>2 DEF Successful
<1>4. ResultsOK
  BY DEF Assembled, ResultsOK
<1> DEFINE n == w[1]
           what == w[2]
<1>5. n \in DOMAIN results /\ Told(Corpus[n], results[n], what)
  <2>1. n \in DOMAIN results
    BY <1>1 DEF Earned, Placed
  <2>2. Alone(w)
    BY DEF OneFaultPerCase, Alone
  <2> QED BY <2>1, <2>2 DEF Earned, Telltale
<1>6. results[n].authority # None /\ ~Suspect(Corpus[n], results[n].authority)
  <2>1. \A k \in DOMAIN results :
          results[k].authority = None \/ results[k].authority \in AuthorityEvidences
    BY <1>4 DEF ResultsOK, CaseOK, ValidCaseResult
  <2> QED BY <1>3, <1>5, <2>1, GatesTell
<1>7. ~(results[n].provider.name = "gemini" /\ results[n].provider.failed # 0)
  <2> SUFFICES ASSUME results[n].provider.name = "gemini"
               PROVE  results[n].provider.failed = 0
    OBVIOUS
  <2>1. mode # "provider_free"
    BY <1>1, <1>2, <1>5 DEF ValidRunResult
  <2> HIDE DEF n
  <2> QED BY <1>3, <1>4, <1>5, <2>1, NoneFailed
<1> HIDE DEF n
<1>8. what \in {"skippedAll", "skippedOne"}
  BY <1>3, <1>5, <1>6, <1>7 DEF Told
<1> QED BY <1>8 DEF Unseen

\* The command around the cases forgets nothing that went wrong.
LEMMA CommandKeepsEarned ==
  ASSUME Assembled, Timed, Earned, [Next]_vars, ~RunCase
  PROVE  Earned'
<1>1. CASE UNCHANGED vars
  <2>1. UNCHANGED <<phase, mode, rows, at, step, seen, results, samples, wrong>>
    BY <1>1 DEF vars, command, scenario
  <2>2. UNCHANGED <<Name, Case, Row>>
    BY <2>1 DEF Name, Case, Row
  <2>3. Placed' /\ Named'
    BY <2>1, <2>2 DEF Earned, Placed, Named
  <2>4. Telltale'
    BY <2>1 DEF Earned, Telltale, Alone
  <2>5. Marked'
    BY <2>1, <2>2 DEF Earned, Marked, Alone
  <2> QED BY <2>3, <2>4, <2>5 DEF Earned
<1>2. CASE \E m \in Modes, s \in Setups : Start(m, s)
  <2>1. wrong' = {} /\ phase' \in {"reset", "ended"}
    BY <1>2 DEF Start, End
  <2> QED BY <2>1 DEF Earned, Placed, Telltale, Marked, Named
<1>3. CASE Reset \/ ConfirmSchema \/ Judge \/ WriteJson \/ WriteMarkdown \/ Exit \/ Killed
  <2>1. /\ UNCHANGED <<mode, at, step, results, seen, wrong>>
        /\ phase # "cases" /\ step = "intake" /\ step' = "intake"
        /\ phase' = "cases" => phase = "schema" /\ rows' = rows
    BY <1>3
    DEF Reset, ConfirmSchema, Judge, WriteJson, WriteMarkdown, Exit, Killed, End, scenario, Timed
  <2>2. Placed'
    BY <2>1 DEF Earned, Placed
  <2>3. Telltale'
    BY <2>1 DEF Earned, Telltale, Alone
  <2>4. Named'
    BY <2>1 DEF Named
  <2>5. Marked'
    <3>1. SUFFICES ASSUME phase' = "cases" PROVE Marked'
      BY DEF Marked
    <3>2. at = 1 /\ Name \notin DOMAIN results
      <4>1. at = 1 /\ Len(Cases) \in Nat /\ Len(Cases) # 0
        BY <2>1, <3>1, CorpusAssumption DEF Assembled
      <4>2. 1 \in 1..Len(Cases)
        BY <4>1
      <4> QED BY <4>1, <4>2 DEF Timed, Name
    <3>3. \A w \in wrong : w[1] # Name
      BY <2>1, <3>2 DEF Earned, Placed
    <3>4. Name' = Name
      BY <2>1 DEF Name
    <3>5. Clean(Case, step, seen, Row)'
      BY <2>1 DEF Clean
    <3> QED BY <2>1, <3>3, <3>4, <3>5 DEF Marked
  <2> QED BY <2>2, <2>3, <2>4, <2>5 DEF Earned
<1> QED
  BY <1>1, <1>2, <1>3 DEF Next

\* Whatever the application does wrong in however many cases, one thing in each: no run that
\* did more than skip steps of a synchronization ends with 0 (runner.py:1795).
THEOREM PassedRunsAreEarned ==
  ASSUME ResumesSync, Telling
  PROVE  Spec => []PassIsEarned
<1> DEFINE IInv == Assembled /\ Backed /\ Timed /\ Reported /\ Earned
<1>1. Init => IInv
  <2>1. ASSUME Init PROVE Earned
    <3>1. phase = "idle" /\ wrong = {}
      BY <2>1 DEF Init
    <3> QED BY <3>1 DEF Earned, Placed, Telltale, Marked, Named
  <2> QED BY <2>1, InitialParts
<1>2. IInv /\ [Next]_vars => IInv'
  <2>1. ASSUME IInv, [Next]_vars PROVE IInv'
    <3>1. Assembled' /\ Reported'
      BY <2>1, AssembledIsInductive, ReportedIsInductive
    <3>2. Backed' /\ Timed'
      BY <2>1, CaseBacks, CaseTimed, CommandKeepsVerdicts
    <3>3. Earned'
      BY <2>1, <3>2, CaseEarns, CommandKeepsEarned
    <3> QED BY <3>1, <3>2, <3>3
  <2> QED BY <2>1
<1>3. IInv => PassIsEarned
  BY EarnedAtExit
<1> QED
  BY <1>1, <1>2, <1>3, PTL DEF Spec

(***************************************************************************)
(* A claim is judged from the files of two runs, finished or killed.       *)
(***************************************************************************)
\* The only thing that went wrong in its case of a published run.
LoneIn(w, faulty) == w \in faulty /\ \A v \in faulty : v[1] = w[1] => v = w

\* Each published result shows what alone went wrong in a case of its run.
Shelved ==
  /\ \E S : published \in Seq(S)
  /\ \A k \in DOMAIN published : \A w : LoneIn(w, published[k].wrong) =>
       /\ w[1] \in DOMAIN published[k].report.results
       /\ Told(Corpus[w[1]], published[k].report.results[w[1]], w[2])

\* Publishing adds one result, of cases that are all finished.
LEMMA ShelvedIsInductive ==
  ASSUME Assembled, Reported, Earned, Shelved, [Next]_vars
  PROVE  Shelved'
<1>1. CASE WriteJson /\ published' # published
  <2> DEFINE new == [report |-> report, wrong |-> wrong]
  <2>1. phase = "json" /\ published' = Append(published, new)
    BY <1>1 DEF WriteJson
  <2>2. report.results = results
    BY <2>1 DEF Reported, Faithful
  <2>3. ASSUME NEW w, LoneIn(w, wrong)
        PROVE  /\ w[1] \in DOMAIN results
               /\ Told(Corpus[w[1]], results[w[1]], w[2])
    <3>1. w \in wrong /\ Alone(w)
      BY <2>3 DEF LoneIn, Alone
    <3>2. w[1] \in DOMAIN results
      BY <2>1, <3>1 DEF Earned, Placed
    <3> QED BY <3>1, <3>2 DEF Earned, Telltale
  <2>4. new.report = report /\ new.wrong = wrong
    OBVIOUS
  <2>5. PICK S : published \in Seq(S)
    BY DEF Shelved
  <2> HIDE DEF new
  <2> DEFINE T == S \cup {new}
  <2>6. published \in Seq(T) /\ new \in T
    BY <2>5
  <2> HIDE DEF T
  <2>7. /\ published' \in Seq(T)
        /\ DOMAIN published' = 1..(Len(published) + 1)
        /\ \A k \in 1..Len(published) : published'[k] = published[k]
        /\ published'[Len(published) + 1] = new
        /\ Len(published) \in Nat /\ DOMAIN published = 1..Len(published)
    BY <2>1, <2>6
  <2>8. ASSUME NEW k \in DOMAIN published', NEW w, LoneIn(w, published'[k].wrong)
        PROVE  /\ w[1] \in DOMAIN published'[k].report.results
               /\ Told(Corpus[w[1]], published'[k].report.results[w[1]], w[2])
    <3>1. CASE k \in DOMAIN published
      <4>1. published'[k] = published[k]
        BY <2>7, <3>1
      <4> QED BY <2>8, <3>1, <4>1 DEF Shelved
    <3>2. CASE k \notin DOMAIN published
      <4>1. published'[k] = new
        BY <2>7, <3>2
      <4> QED BY <2>2, <2>3, <2>4, <2>8, <4>1
    <3> QED BY <3>1, <3>2
  <2> QED BY <2>7, <2>8 DEF Shelved
<1>2. CASE UNCHANGED published
  BY <1>2 DEF Shelved
<1>3. [Next]_vars /\ ~WriteJson => UNCHANGED published
  <2>1. UNCHANGED vars => UNCHANGED published
    BY DEF vars, command
  <2>2. RunCase => UNCHANGED published
    BY ModeStays
  <2>3. (\E m \in Modes, s \in Setups : Start(m, s)) => UNCHANGED published
    BY DEF Start
  <2>4. Reset \/ ConfirmSchema \/ Judge \/ WriteMarkdown \/ Exit \/ Killed
          => UNCHANGED published
    BY DEF Reset, ConfirmSchema, Judge, WriteMarkdown, Exit, Killed
  <2> QED BY <2>1, <2>2, <2>3, <2>4 DEF Next
<1> QED
  BY <1>1, <1>2, <1>3

\* A result without issues carries the gates that its observations call for.
LEMMA SoundGates ==
  ASSUME NEW run, EvidenceIssues(run) = {}
  PROVE  ReleaseGates(Corpus, run.results) = run.gates
<1> DEFINE gates == ReleaseGates(Corpus, run.results)
           others == If(~ValidRunResult(run), "result_contract")
                     \cup If(run.mode = "provider_free"
                           /\ \E n \in DOMAIN run.results :
                                 run.results[n].provider.name = "gemini",
                        "provider_free_run_contains_live_evidence")
                     \cup If(DOMAIN run.results # DOMAIN Corpus, "case_identities")
                     \cup (UNION {CaseIssues(Corpus[n], run.results[n]) :
                                     n \in DOMAIN run.results \cap DOMAIN Corpus})
           routing == If(run.routing # RoutingMetrics(Corpus, run.results, gates),
                         "routing_metrics")
<1>1. EvidenceIssues(run) = others \cup If(gates # run.gates, "release_gates") \cup routing
  BY DEF EvidenceIssues
<1> HIDE DEF gates, others, routing
<1>2. gates = run.gates
  BY <1>1 DEF If
<1> QED BY <1>2 DEF gates

\* Of a result that the comparison accepts as passed, only two wrongs can be unseen.
LEMMA PassedShows ==
  ASSUME NEW run, CorrectnessPassed(run), NEW n \in DOMAIN run.results, NEW what,
         Told(Corpus[n], run.results[n], what)
  PROVE  what \in {"skippedOne", "providerDown"}
<1> DEFINE rs == run.results
<1>1. EvidenceIssues(run) = {}
  BY DEF CorrectnessPassed
<1>2. DOMAIN rs = DOMAIN Corpus
  BY <1>1 DEF EvidenceIssues, If
<1>3. ValidRunResult(run)
  BY <1>1 DEF EvidenceIssues, If
<1>4. ReleaseGates(Corpus, rs) = run.gates
  BY <1>1, SoundGates
<1>5. CaseIssues(Corpus[n], rs[n]) = {}
  <2>1. UNION {CaseIssues(Corpus[m], run.results[m]) :
                 m \in DOMAIN run.results \cap DOMAIN Corpus} = {}
    BY <1>1 DEF EvidenceIssues
  <2> QED BY <1>2, <2>1
<1>6. AllPassed(ReleaseGates(Corpus, rs)) /\ rs[n].status = "PASS"
  BY <1>4 DEF CorrectnessPassed
<1>7. \A m \in DOMAIN rs : rs[m].authority = None \/ rs[m].authority \in AuthorityEvidences
  BY <1>3 DEF ValidRunResult, ValidCaseResult
<1> HIDE DEF rs
<1>8. rs[n].authority # None /\ ~Suspect(Corpus[n], rs[n].authority)
  <2>1. n \in DOMAIN rs
    BY DEF rs
  <2> QED BY <1>2, <1>6, <1>7, <2>1, GatesTell
<1>9. Told(Corpus[n], rs[n], what)
  BY DEF rs
<1> QED BY <1>5, <1>6, <1>8, <1>9 DEF Told

\* A supported claim rests on two results that show no other wrong.
LEMMA ClaimsRestOnFiles ==
  ASSUME Shelved
  PROVE  ClaimIsEarned
<1>1. ASSUME NEW k \in DOMAIN published, CorrectnessPassed(published[k].report),
             OneFaultPerCase(published[k].wrong), NEW w \in published[k].wrong
      PROVE  w[2] \in {"skippedOne", "providerDown"}
  <2>1. LoneIn(w, published[k].wrong)
    BY <1>1 DEF OneFaultPerCase, LoneIn
  <2> QED BY <1>1, <2>1, PassedShows DEF Shelved
<1> QED
  BY <1>1 DEF ClaimIsEarned, ClaimSupported

\* Whatever went wrong in the runs whose files lie there, killed or finished, one thing in
\* each case: a claim that the comparison supports rests on no run in which the application
\* did wrong, but for a single step of a synchronization it skipped (runner.py:1795) and for
\* a provider whose calls failed while their order came out as expected (a passed run ends
\* with 1 for those; its file does not say so).
THEOREM ClaimsAreEarned ==
  ASSUME ResumesSync, Telling
  PROVE  Spec => []ClaimIsEarned
<1> DEFINE IInv == Assembled /\ Backed /\ Timed /\ Reported /\ Earned /\ Shelved
<1>1. Init => IInv
  <2>1. ASSUME Init PROVE Earned /\ Shelved
    <3>1. phase = "idle" /\ wrong = {} /\ published = <<>>
      BY <2>1 DEF Init
    <3>2. Earned
      BY <3>1 DEF Earned, Placed, Telltale, Marked, Named
    <3>3. published \in Seq({}) /\ DOMAIN published = {}
      BY <3>1
    <3> QED BY <3>2, <3>3 DEF Shelved
  <2> QED BY <2>1, InitialParts
<1>2. IInv /\ [Next]_vars => IInv'
  <2>1. ASSUME IInv, [Next]_vars PROVE IInv'
    <3>1. Assembled' /\ Reported'
      BY <2>1, AssembledIsInductive, ReportedIsInductive
    <3>2. Backed' /\ Timed'
      BY <2>1, CaseBacks, CaseTimed, CommandKeepsVerdicts
    <3>3. Earned'
      BY <2>1, <3>2, CaseEarns, CommandKeepsEarned
    <3>4. Shelved'
      BY <2>1, ShelvedIsInductive
    <3> QED BY <3>1, <3>2, <3>3, <3>4
  <2> QED BY <2>1
<1>3. IInv => ClaimIsEarned
  BY ClaimsRestOnFiles
<1> QED
  BY <1>1, <1>2, <1>3, PTL DEF Spec
==============================================================================
