------------------------------- MODULE Review -------------------------------
(***************************************************************************)
(* Human review of several orders (application/review_reads.py,            *)
(* review_commands.py, review_revalidation.py, review/concurrency.py) next *)
(* to the validation that routes them (application/validation.py).         *)
(*                                                                         *)
(* Operators open review pages, keep them as long as they like, and send   *)
(* commands with the page's ETag.  A page is read by several statements,   *)
(* each of which sees what is committed at that moment; a command checks   *)
(* the ETag without the lock first and under the order's row lock at the   *)
(* end.  Deliveries and revalidations read facts about the OTHER orders,   *)
(* decide without a transaction, and read the facts again under the lock   *)
(* of their own order only.                                                *)
(*                                                                         *)
(* A delivery of order o is the process o: Intake shows that there is one  *)
(* at a time.  Synchronization appears as the steps that others see of it. *)
(***************************************************************************)
EXTENDS Integers, Sequences, FiniteSets, OrderDomain

CONSTANTS
  Orders,
  Operators,
  Purchases,    \* what identifies a purchase: customer reference and PO number
  Documents,    \* what identifies a document: its SHA-256
  Skews,        \* how far the database's clock is ahead of the application's
  MaxClock,     \* bound: arrivals of requests
  MaxSyncs      \* bound: synchronization events

ASSUME ClockAssumption == Skews \subseteq Int /\ MaxClock \in Nat /\ MaxSyncs \in Nat

\* Deliveries and operators are processes of different kinds.
ASSUME ProcessesAssumption == IsFiniteSet(Orders) /\ Orders \cap Operators = {}

NoPurchase == "NO_PURCHASE"

Commands == {"approve", "reject", "retry", "revalidate"}

VARIABLES
  order,       \* the aggregate of each order
  document,    \* its source document
  purchase,    \* the trusted identity promoted into it
  processed,   \* orders with an extraction snapshot, in the order they got it
  issues,      \* its validation issues
  written,     \* the generation in which they were written
  revision,    \* the latest review revision number
  latest,      \* the audit event that is last by occurred_at, and its stamp
  generation,  \* committed mutations so far
  locked       \* orders whose final transaction is between lock and commit

VARIABLES
  pc,          \* where each process is: operators, and deliveries (by order)
  arrived,     \* when its request arrived (recorded_at)
  ruling,      \* what it decided, for which purchase and on which facts
  job,         \* the order on an operator's page
  page,        \* the page
  command,     \* what the operator sent
  base         \* what the unlocked check has read

VARIABLES
  clock,       \* arrivals so far
  syncs,       \* synchronization events so far
  skew,        \* how far the database's clock is ahead
  overlapped   \* history: pairs of orders whose final transactions overlapped

db       == <<order, document, purchase, processed, issues, written, revision,
              latest, generation>>
operator == <<job, page, command, base>>
time     == <<clock, syncs, skew>>
vars     == <<db, locked, pc, arrived, ruling, operator, time, overlapped>>

Processes == Orders \cup Operators

Subject(x) == IF x \in Orders THEN x ELSE job[x]

\* A request stamps its k-th event with its arrival plus k microseconds; two
\* arrivals are further apart than that.
Gap == 8 + MaxSyncs
Stamp(x, k) == Gap * arrived[x] + k

HasSnapshot(o) == \E i \in DOMAIN processed : processed[i] = o

\* Mutants: the ETag leaves out the latest audit event, or the state.
TagWithoutAudit(aggregate, number, event) ==
  [order |-> aggregate, revision |-> number, audit |-> 0]
TagWithoutState(aggregate, number, event) ==
  [order |-> NoOrigin, revision |-> number, audit |-> event]

\* compute_review_etag: a strong hash, so equal only for equal inputs.
ETag(aggregate, number, event) ==
  [order |-> aggregate, revision |-> number, audit |-> event]

CurrentTag(o) == ETag(order[o], revision[o], latest[o].id)

PageTag(a) == ETag(page[a].order, page[a].revision, page[a].audit)

\* Mutant: the ETag is not checked again under the lock.
AlwaysCurrent(a) == TRUE

\* require_if_match under the order's lock.
StillCurrent(a) == PageTag(a) = CurrentTag(job[a])

\* build_validation_facts
Facts(o, p) ==
  [ duplicate_customer_po |-> \E q \in Orders \ {o} : purchase[q] = p,
    document_already_processed |->
      \E q \in Orders \ {o} : HasSnapshot(q) /\ document[q] = document[o] ]

\* The errors that the facts stand for; the rules about the draft and the
\* trusted data may add others.
ErrorsOf(facts) ==
  (IF facts.duplicate_customer_po THEN {"DUPLICATE_CUSTOMER_PO"} ELSE {}) \cup
  (IF facts.document_already_processed THEN {"DOCUMENT_ALREADY_PROCESSED"} ELSE {})

\* Mutant: the facts are not read again under the lock.
FactsAssumed(x) == TRUE

FactsStand(x) == Facts(Subject(x), ruling[x].purchase) = ruling[x].facts

\* A transaction on o commits an audit event with this stamp.
Commit(o, at) ==
  /\ generation' = [generation EXCEPT ![o] = @ + 1]
  /\ latest' = [latest EXCEPT ![o] =
                  IF at > @.at THEN [at |-> at, id |-> generation[o] + 1] ELSE @]

Move(o, target) == order' = [order EXCEPT ![o] = target]

GoTo(x, place) == pc' = [pc EXCEPT ![x] = place]

NoPage == [order |-> [state |-> "RECEIVED", origin |-> NoOrigin],
           issues |-> 0, revision |-> 0, audit |-> 0, opened |-> 0, generation |-> 0]
NoRuling == [purchase |-> NoPurchase, issues |-> {},
             facts |-> [duplicate_customer_po |-> FALSE,
                        document_already_processed |-> FALSE]]
NoBase == [order |-> NoPage.order, revision |-> 0]

\* A request ends, and what it had in memory is gone; an operator keeps the
\* page.
Leave(x) ==
  /\ GoTo(x, IF x \in Operators THEN "page" ELSE "idle")
  /\ arrived' = [arrived EXCEPT ![x] = 0]
  /\ ruling' = [ruling EXCEPT ![x] = NoRuling]
  /\ command' = IF x \in Operators THEN [command EXCEPT ![x] = "none"] ELSE command
  /\ base' = IF x \in Operators THEN [base EXCEPT ![x] = NoBase] ELSE base
  /\ UNCHANGED <<job, page>>

\* The snapshots and issues stay, only the lifecycle and its audit move on.
KeepCase == UNCHANGED <<document, purchase, processed, issues, written, revision>>
------------------------------------------------------------------------------
\* Each order has been extracted by its first delivery, which is still running.
Init ==
  /\ order = [o \in Orders |-> [state |-> "EXTRACTED", origin |-> NoOrigin]]
  /\ document \in [Orders -> Documents]
  /\ purchase = [o \in Orders |-> NoPurchase]
  /\ processed = <<>>
  /\ issues = [o \in Orders |-> {}]
  /\ written = [o \in Orders |-> 1]
  /\ revision = [o \in Orders |-> 0]
  /\ generation = [o \in Orders |-> 1]
  /\ locked = {}
  /\ pc = [x \in Processes |-> IF x \in Orders THEN "checked" ELSE "idle"]
  /\ clock = Cardinality(Orders)
  /\ arrived \in {f \in [Processes -> 0..clock] :
                    /\ \A a \in Operators : f[a] = 0
                    /\ \A o \in Orders : f[o] > 0
                    /\ \A o, p \in Orders : f[o] = f[p] => o = p}
  /\ latest = [o \in Orders |-> [at |-> Gap * arrived[o] + 2, id |-> 1]]
  /\ ruling = [x \in Processes |-> NoRuling]
  /\ job \in [Operators -> Orders]
  /\ page = [a \in Operators |-> NoPage]
  /\ command = [a \in Operators |-> "none"]
  /\ base = [a \in Operators |-> NoBase]
  /\ syncs = 0
  /\ skew \in Skews
  /\ overlapped = {}

\* get_review_detail: the order row, then its issues, the revisions and the
\* latest audit event, each by a statement of its own.
OpenPage(a) ==
  /\ pc[a] \in {"idle", "page"}
  /\ \E o \in Orders :
        /\ job' = [job EXCEPT ![a] = o]
        /\ page' = [page EXCEPT ![a] = [NoPage EXCEPT !.order = order[o], !.opened = generation[o]]]
  /\ GoTo(a, "read issues")
  /\ UNCHANGED <<db, locked, arrived, ruling, command, base, time, overlapped>>

ReadIssues(a) ==
  /\ pc[a] = "read issues"
  /\ page' = [page EXCEPT ![a].issues = written[job[a]]]
  /\ GoTo(a, "read revision")
  /\ UNCHANGED <<db, locked, arrived, ruling, job, command, base, time, overlapped>>

ReadRevision(a) ==
  /\ pc[a] = "read revision"
  /\ page' = [page EXCEPT ![a].revision = revision[job[a]]]
  /\ GoTo(a, "read audit")
  /\ UNCHANGED <<db, locked, arrived, ruling, job, command, base, time, overlapped>>

ReadLatestAudit(a) ==
  /\ pc[a] = "read audit"
  /\ page' = [page EXCEPT ![a].audit = latest[job[a]].id,
                          ![a].generation = generation[job[a]]]
  /\ GoTo(a, "page")
  /\ UNCHANGED <<db, locked, arrived, ruling, job, command, base, time, overlapped>>

\* A command arrives at the endpoint with the page's ETag.
Send(a) ==
  /\ pc[a] = "page"
  /\ clock < MaxClock
  /\ clock' = clock + 1
  /\ arrived' = [arrived EXCEPT ![a] = clock + 1]
  /\ \E c \in Commands : command' = [command EXCEPT ![a] = c]
  /\ GoTo(a, "sent")
  /\ UNCHANGED <<db, locked, ruling, job, page, base, syncs, skew, overlapped>>

\* The unlocked check: state and revision first, the latest audit event next.
ReadBase(a) ==
  LET o == job[a] IN
  /\ pc[a] = "sent"
  /\ base' = [base EXCEPT ![a] = [order |-> order[o], revision |-> revision[o]]]
  /\ GoTo(a, "prechecked")
  /\ UNCHANGED <<db, locked, arrived, ruling, job, page, command, time, overlapped>>

Precheck(a) ==
  /\ pc[a] = "prechecked"
  /\ ETag(base[a].order, base[a].revision, latest[job[a]].id) = PageTag(a)
  /\ command[a] = "revalidate" => base[a].order.state = "NEEDS_REVIEW"
  /\ GoTo(a, "checked")
  /\ UNCHANGED <<db, locked, arrived, ruling, operator, time, overlapped>>

\* The locked transaction of a command that only moves the order.
Command(a, name, states, target, last) ==
  LET o == job[a] IN
  /\ pc[a] = "checked"
  /\ command[a] = name
  /\ o \notin locked
  /\ StillCurrent(a)
  /\ order[o].state \in states
  /\ Move(o, target)
  /\ Commit(o, Stamp(a, last))
  /\ KeepCase
  /\ Leave(a)
  /\ UNCHANGED <<locked, time, overlapped>>

\* approve_order: the sync intent it creates is the initial state of OrderSync.
Approve(a) ==
  Command(a, "approve", {"READY_FOR_APPROVAL"},
          TransitionTo(order[job[a]], "APPROVED"), 0)

Reject(a) ==
  Command(a, "reject", {"NEEDS_REVIEW", "READY_FOR_APPROVAL"},
          TransitionTo(order[job[a]], "REJECTED"), 0)

\* retry_order: two events.
RetryOrder(a) ==
  /\ CanRetry(order[job[a]])
  /\ Command(a, "retry", {"FAILED_RETRYABLE"}, Retry(order[job[a]]), 1)

MayDecide(x) ==
  IF x \in Orders THEN order[x].state = "EXTRACTED" /\ ~HasSnapshot(x)
  ELSE command[x] = "revalidate"

\* Trusted data and facts are there, and the engine decides outside any
\* transaction.
Decide(x) ==
  /\ pc[x] = "checked"
  /\ MayDecide(x)
  /\ \E p \in Purchases, other \in SUBSET {"OTHER_ERROR"} :
        LET facts == Facts(Subject(x), p) IN
        ruling' = [ruling EXCEPT ![x] =
                     [purchase |-> p, facts |-> facts, issues |-> ErrorsOf(facts) \cup other]]
  /\ GoTo(x, "decided")
  /\ UNCHANGED <<db, locked, arrived, operator, time, overlapped>>

\* The final transaction takes the lock of its own order and checks everything
\* again.
LockAndRecheck(x) ==
  LET o == Subject(x) IN
  /\ pc[x] = "decided"
  /\ o \notin locked
  /\ IF x \in Orders THEN order[o].state = "EXTRACTED" /\ ~HasSnapshot(o)
     ELSE order[o].state = "NEEDS_REVIEW" /\ StillCurrent(x)
  /\ FactsStand(x)
  /\ locked' = locked \cup {o}
  /\ overlapped' = {pair \in overlapped : o \notin pair} \cup {{o, p} : p \in locked}
  /\ GoTo(x, "locked")
  /\ UNCHANGED <<db, arrived, ruling, operator, time>>

\* It commits issues, promotion, route and audit events together.
CommitRuling(x) ==
  LET o == Subject(x)
      ready == ruling[x].issues = {}
      route == IF ready THEN "READY_FOR_APPROVAL" ELSE "NEEDS_REVIEW"
  IN
  /\ pc[x] = "locked"
  /\ Move(o, TransitionTo(TransitionTo(order[o], "VALIDATED"), route))
  /\ purchase' = IF ready THEN [purchase EXCEPT ![o] = ruling[x].purchase] ELSE purchase
  /\ issues' = [issues EXCEPT ![o] = ruling[x].issues]
  /\ written' = [written EXCEPT ![o] = generation[o] + 1]
  /\ IF x \in Orders
     THEN /\ processed' = Append(processed, o)
          /\ UNCHANGED revision
          /\ Commit(o, Stamp(x, 5))
     ELSE /\ revision' = [revision EXCEPT ![o] = @ + 1]
          /\ UNCHANGED processed
          /\ Commit(o, Stamp(x, 2))
  /\ locked' = locked \ {o}
  /\ Leave(x)
  /\ UNCHANGED <<document, time, overlapped>>

\* persist_orchestration_failure: trusted data failed or the facts changed.
DeliveryFails(o) ==
  /\ pc[o] \in {"checked", "decided"}
  /\ o \notin locked
  /\ order[o].state = "EXTRACTED"
  /\ \E failure \in FailureStates : Move(o, TransitionTo(order[o], failure))
  /\ Commit(o, Stamp(o, 3))
  /\ KeepCase
  /\ Leave(o)
  /\ UNCHANGED <<locked, time, overlapped>>

\* Another delivery of the document arrives, and claims the order if that is
\* extracted and nobody works on it.
DeliveryArrives(o) ==
  /\ pc[o] = "idle"
  /\ clock < MaxClock
  /\ clock' = clock + 1
  /\ arrived' = [arrived EXCEPT ![o] = clock + 1]
  /\ GoTo(o, "arrived")
  /\ UNCHANGED <<db, locked, ruling, operator, syncs, skew, overlapped>>

DeliveryClaims(o) ==
  /\ pc[o] = "arrived"
  /\ o \notin locked
  /\ order[o].state = "EXTRACTED"
  /\ Commit(o, Stamp(o, 1))
  /\ KeepCase
  /\ GoTo(o, "checked")
  /\ UNCHANGED <<order, locked, arrived, ruling, operator, time, overlapped>>

\* A request is refused, fails, or crashes: its transaction is rolled back.
GiveUp(x) ==
  /\ pc[x] \in {"arrived", "sent", "prechecked", "checked", "decided", "locked"}
  /\ locked' = IF pc[x] = "locked" THEN locked \ {Subject(x)} ELSE locked
  /\ Leave(x)
  /\ UNCHANGED <<db, time, overlapped>>

\* Synchronization starts, or ends one way or another; its events carry the
\* time of the database.
Synchronize(o) ==
  /\ syncs < MaxSyncs
  /\ o \notin locked
  /\ \/ order[o].state = "APPROVED" /\ Move(o, TransitionTo(order[o], "SYNCING"))
     \/ /\ order[o].state = "SYNCING"
        /\ \E target \in NormalTransitions["SYNCING"] : Move(o, TransitionTo(order[o], target))
  /\ syncs' = syncs + 1
  /\ Commit(o, Gap * (clock + skew) + 7 + syncs)
  /\ KeepCase
  /\ UNCHANGED <<locked, pc, arrived, ruling, operator, clock, skew, overlapped>>

Next ==
  \/ \E a \in Operators :
        \/ OpenPage(a) \/ ReadIssues(a) \/ ReadRevision(a) \/ ReadLatestAudit(a)
        \/ Send(a) \/ ReadBase(a) \/ Precheck(a)
        \/ Approve(a) \/ Reject(a) \/ RetryOrder(a)
  \/ \E x \in Processes :
        Decide(x) \/ LockAndRecheck(x) \/ CommitRuling(x) \/ GiveUp(x)
  \/ \E o \in Orders :
        \/ DeliveryArrives(o) \/ DeliveryClaims(o) \/ DeliveryFails(o)
        \/ Synchronize(o)

Spec == Init /\ [][Next]_vars
------------------------------------------------------------------------------
\* The page was read while nothing was committed on its order.
PageIsWhole(a) ==
  /\ pc[a] \notin {"idle", "read issues", "read revision", "read audit"}
  /\ page[a].opened = page[a].generation

AcceptsCommands(o) == order[o].state \in {"NEEDS_REVIEW", "READY_FOR_APPROVAL", "FAILED_RETRYABLE"}

\* A valid ETag was issued by the latest mutation: nothing has been committed
\* since the page was read, though the audit event in it is only the last one
\* by the times at which requests arrived or by the database's clock, and
\* though a retried order fails again in the same state
\* (review/concurrency.py).
ValidETagIsOfThisGeneration ==
  \A a \in Operators :
    PageIsWhole(a) /\ AcceptsCommands(job[a]) /\ StillCurrent(a)
      => page[a].generation = generation[job[a]]

Acts(a) == pc'[a] # pc[a] /\ generation'[job[a]] # generation[job[a]]

\* No lost update: an operator's command takes effect only if nothing was
\* committed on the order since the operator's page was read, whatever happens
\* between the unlocked check, the provider calls and the lock.
CommandsActOnWhatWasRead ==
  [][\A a \in Operators :
       Acts(a) /\ PageIsWhole(a) => page[a].generation = generation[job[a]]]_vars

\* Whoever approves has seen the issues as they are, though the page may have
\* been read while another operator's revalidation committed.
ApprovedAsShown ==
  [][\A a \in Operators :
       Acts(a) /\ order'[job[a]].state = "APPROVED" => page[a].issues = written[job[a]]]_vars

\* The recorded changes of a revision are relative to the revision before it:
\* they are computed before the lock (save_and_revalidate, _load_preflight).
ChangesFollowTheirBase ==
  [][\A a \in Operators :
       Acts(a) /\ revision'[job[a]] # revision[job[a]] => base[a].revision = revision[job[a]]]_vars

Conflicting(o, p) ==
  \/ purchase[o] # NoPurchase /\ purchase[o] = purchase[p]
  \/ document[o] = document[p]

Ready(o) == purchase[o] # NoPurchase

\* Two orders for one purchase, or with one document, both get past validation
\* only if their final transactions overlapped: the recheck under the lock of
\* one's own order finds everything else.
ConflictsNeedOverlap ==
  \A o, p \in Orders :
    o # p /\ Ready(o) /\ Ready(p) /\ Conflicting(o, p) => {o, p} \in overlapped

\* docs: the recheck inside the final transaction "rejects a changed fact set
\* rather than committing a stale result": a promotion is committed on facts
\* that hold when it is committed.
PromotedOnCurrentFacts ==
  [][\A x \in Processes :
       pc[x] = "locked" /\ purchase'[Subject(x)] # purchase[Subject(x)] => FactsStand(x)]_vars
==============================================================================
