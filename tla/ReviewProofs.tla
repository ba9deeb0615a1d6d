----------------------------- MODULE ReviewProofs -----------------------------
(***************************************************************************)
(* Proofs about Review, for any number of orders and operators, any clocks *)
(* and any skew between them.                                              *)
(*                                                                         *)
(* Tags: each commit moves an order along its lifecycle (Effect), and what *)
(* a page shows is compared with what has happened since (Reading).  While *)
(* the order of the page is the one on file the commits in between can     *)
(* only be retries and failures; a retry is newer than every event that    *)
(* its own page had shown, or else the failure after it is newer by the    *)
(* clock of the database.                                                  *)
(*                                                                         *)
(* Conflicts: what contradicts the facts of a locked transaction has been  *)
(* committed by one that was locked at the same time (Locking, Watching).  *)
(***************************************************************************)
EXTENDS Review, FiniteSetTheorems, TLAPS

Aggregates ==
  [state : {"EXTRACTED", "NEEDS_REVIEW", "READY_FOR_APPROVAL", "APPROVED", "SYNCING",
            "COMPLETED", "REJECTED"},
   origin : {NoOrigin}]
  \cup [state : FailureStates, origin : {"EXTRACTED", "SYNCING"}]

Places == {"idle", "page", "read issues", "read revision", "read audit", "sent",
           "prechecked", "arrived", "checked", "decided", "locked"}

Errors == {"DUPLICATE_CUSTOMER_PO", "DOCUMENT_ALREADY_PROCESSED", "OTHER_ERROR"}

Rulings ==
  [purchase : Purchases \cup {NoPurchase}, issues : SUBSET Errors,
   facts : [duplicate_customer_po : BOOLEAN, document_already_processed : BOOLEAN]]

Shown == Aggregates \cup {NoPage.order}

Pages == [order : Shown, issues : Nat, revision : Nat, audit : Nat, opened : Nat,
          generation : Nat]

TypeOK ==
  /\ order \in [Orders -> Aggregates]
  /\ document \in [Orders -> Documents]
  /\ purchase \in [Orders -> Purchases \cup {NoPurchase}]
  /\ processed \in Seq(Orders)
  /\ issues \in [Orders -> SUBSET Errors]
  /\ written \in [Orders -> Nat]
  /\ revision \in [Orders -> Nat]
  /\ latest \in [Orders -> [at : Int, id : Nat]]
  /\ generation \in [Orders -> Nat]
  /\ locked \in SUBSET Orders
  /\ pc \in [Processes -> Places]
  /\ arrived \in [Processes -> Nat]
  /\ ruling \in [Processes -> Rulings]
  /\ job \in [Operators -> Orders]
  /\ page \in [Operators -> Pages]
  /\ command \in [Operators -> Commands \cup {"none"}]
  /\ base \in [Operators -> [order : Shown, revision : Nat]]
  /\ clock \in Nat /\ syncs \in Nat /\ skew \in Int
  /\ overlapped \in SUBSET SUBSET Orders

\* The order a process works on.
LEMMA SubjectFacts ==
  ASSUME TypeOK, NEW x \in Processes
  PROVE  /\ Subject(x) \in Orders
         /\ x \in Orders => Subject(x) = x /\ x \notin Operators
         /\ x \in Operators => Subject(x) = job[x] /\ x \notin Orders
  BY ProcessesAssumption DEF TypeOK, Subject, Processes

\* How the lifecycle moves an order in this model.
LEMMA MoveFacts ==
  ASSUME NEW a \in Aggregates
  PROVE  /\ a.state \in {"NEEDS_REVIEW", "READY_FOR_APPROVAL"} =>
              TransitionTo(a, "REJECTED") \in Aggregates
         /\ a.state = "READY_FOR_APPROVAL" => TransitionTo(a, "APPROVED") \in Aggregates
         /\ CanRetry(a) => Retry(a) \in Aggregates
         /\ \A route \in {"NEEDS_REVIEW", "READY_FOR_APPROVAL"} :
              TransitionTo(TransitionTo(a, "VALIDATED"), route)
                = [state |-> route, origin |-> NoOrigin]
         /\ a.state = "EXTRACTED" =>
              \A failure \in FailureStates : TransitionTo(a, failure) \in Aggregates
         /\ a.state = "APPROVED" => TransitionTo(a, "SYNCING") \in Aggregates
         /\ a.state = "SYNCING" =>
              \A target \in NormalTransitions["SYNCING"] : TransitionTo(a, target) \in Aggregates
         /\ a.origin = NoOrigin <=> a.state \notin FailureStates
<1>1. /\ a.state \notin FailureStates => a.origin = NoOrigin
      /\ a.state \in FailureStates => a.origin \in {"EXTRACTED", "SYNCING"}
  BY DEF Aggregates, FailureStates
<1>. QED
  BY <1>1 DEF Aggregates, TransitionTo, CanRetry, Retry, NormalTransitions, FailureStates, NoOrigin

\* A request that ends forgets what it had, and nothing of the others.
LEMMA LeaveFacts ==
  ASSUME TypeOK, NEW x \in Processes, Leave(x)
  PROVE  /\ pc' \in [Processes -> Places] /\ arrived' \in [Processes -> Nat]
         /\ ruling' \in [Processes -> Rulings]
         /\ command' \in [Operators -> Commands \cup {"none"}]
         /\ base' \in [Operators -> [order : Shown, revision : Nat]]
         /\ UNCHANGED <<job, page>>
         /\ pc'[x] = (IF x \in Operators THEN "page" ELSE "idle") /\ arrived'[x] = 0
         /\ \A y \in Processes \ {x} :
              pc'[y] = pc[y] /\ arrived'[y] = arrived[y] /\ ruling'[y] = ruling[y]
         /\ \A a \in Operators \ {x} : command'[a] = command[a] /\ base'[a] = base[a]
<1>. DEFINE place == IF x \in Operators THEN "page" ELSE "idle"
<1>1. /\ pc' = [pc EXCEPT ![x] = place] /\ arrived' = [arrived EXCEPT ![x] = 0]
      /\ ruling' = [ruling EXCEPT ![x] = NoRuling] /\ UNCHANGED <<job, page>>
      /\ command' = IF x \in Operators THEN [command EXCEPT ![x] = "none"] ELSE command
      /\ base' = IF x \in Operators THEN [base EXCEPT ![x] = NoBase] ELSE base
  BY DEF Leave, GoTo
<1>2. place \in Places
  BY DEF Places
<1>3. NoRuling \in Rulings
  BY DEF NoRuling, Rulings
<1>4. NoBase \in [order : Shown, revision : Nat]
  BY DEF NoBase, Shown, NoPage
<1>5. /\ pc \in [Processes -> Places] /\ arrived \in [Processes -> Nat]
      /\ ruling \in [Processes -> Rulings]
      /\ command \in [Operators -> Commands \cup {"none"}]
      /\ base \in [Operators -> [order : Shown, revision : Nat]]
  BY DEF TypeOK
<1>. HIDE DEF place
<1>6. /\ pc' \in [Processes -> Places] /\ pc'[x] = place
      /\ \A y \in Processes \ {x} : pc'[y] = pc[y]
  BY <1>1, <1>2, <1>5
<1>7. /\ arrived' \in [Processes -> Nat] /\ arrived'[x] = 0
      /\ \A y \in Processes \ {x} : arrived'[y] = arrived[y]
  BY <1>1, <1>5
<1>8. /\ ruling' \in [Processes -> Rulings]
      /\ \A y \in Processes \ {x} : ruling'[y] = ruling[y]
  BY <1>1, <1>3, <1>5
<1>9. /\ command' \in [Operators -> Commands \cup {"none"}]
      /\ \A a \in Operators \ {x} : command'[a] = command[a]
  BY <1>1, <1>5
<1>10. /\ base' \in [Operators -> [order : Shown, revision : Nat]]
       /\ \A a \in Operators \ {x} : base'[a] = base[a]
  BY <1>1, <1>4, <1>5
<1>. QED
  BY <1>1, <1>6, <1>7, <1>8, <1>9, <1>10 DEF place

\* A commit gives the order a new generation, and its audit a new last event
\* or the one it had.
Recorded(o, at) ==
  /\ generation'[o] = generation[o] + 1
  /\ \/ at > latest[o].at /\ latest'[o] = [at |-> at, id |-> generation[o] + 1]
     \/ at <= latest[o].at /\ latest'[o] = latest[o]

\* What Commit does, and that it touches no other order.
LEMMA CommitFacts ==
  ASSUME TypeOK, NEW o \in Orders, NEW at \in Int, Commit(o, at)
  PROVE  /\ generation' \in [Orders -> Nat] /\ latest' \in [Orders -> [at : Int, id : Nat]]
         /\ Recorded(o, at)
         /\ \A p \in Orders \ {o} : generation'[p] = generation[p] /\ latest'[p] = latest[p]
<1>. DEFINE event == [at |-> at, id |-> generation[o] + 1]
            last == IF at > latest[o].at THEN event ELSE latest[o]
<1>1. /\ generation \in [Orders -> Nat] /\ latest \in [Orders -> [at : Int, id : Nat]]
  BY DEF TypeOK
<1>2. /\ generation' = [generation EXCEPT ![o] = generation[o] + 1]
      /\ latest' = [latest EXCEPT ![o] = last]
  BY <1>1 DEF Commit
<1>3. event \in [at : Int, id : Nat] /\ last \in [at : Int, id : Nat]
  BY <1>1
<1>4. latest[o].at \in Int
  BY <1>1
<1>5. \/ at > latest[o].at /\ last = event
      \/ at <= latest[o].at /\ last = latest[o]
  BY <1>4
<1>. HIDE DEF last
<1>. QED
  BY <1>1, <1>2, <1>3, <1>5 DEF Recorded

\* Reading and sending keep the types.
LEMMA OperatorTypes ==
  ASSUME TypeOK, NEW a \in Operators,
         \/ OpenPage(a) \/ ReadIssues(a) \/ ReadRevision(a) \/ ReadLatestAudit(a)
         \/ Send(a) \/ ReadBase(a) \/ Precheck(a)
  PROVE  TypeOK' /\ UNCHANGED db
<1>1. /\ a \in Processes /\ job[a] \in Orders /\ page[a] \in Pages
      /\ written[job[a]] \in Nat /\ revision[job[a]] \in Nat /\ latest[job[a]].id \in Nat
      /\ generation[job[a]] \in Nat /\ order[job[a]] \in Shown
  BY DEF TypeOK, Processes, Shown
<1>. USE DEF Places
<1>2. CASE OpenPage(a)
  <2>1. PICK o \in Orders :
          /\ job' = [job EXCEPT ![a] = o]
          /\ page' = [page EXCEPT ![a] = [NoPage EXCEPT !.order = order[o],
                                                        !.opened = generation[o]]]
    BY <1>2 DEF OpenPage
  <2>2. [NoPage EXCEPT !.order = order[o], !.opened = generation[o]] \in Pages
    BY DEF TypeOK, NoPage, Pages, Shown
  <2>. QED
    BY <1>1, <1>2, <2>1, <2>2 DEF TypeOK, OpenPage, GoTo, db, time
<1>3. CASE ReadIssues(a)
  <2>1. [page[a] EXCEPT !.issues = written[job[a]]] \in Pages
    BY <1>1 DEF Pages
  <2>. QED
    BY <1>1, <1>3, <2>1 DEF TypeOK, ReadIssues, GoTo, db, time
<1>4. CASE ReadRevision(a)
  <2>1. [page[a] EXCEPT !.revision = revision[job[a]]] \in Pages
    BY <1>1 DEF Pages
  <2>. QED
    BY <1>1, <1>4, <2>1 DEF TypeOK, ReadRevision, GoTo, db, time
<1>5. CASE ReadLatestAudit(a)
  <2>1. [page[a] EXCEPT !.audit = latest[job[a]].id, !.generation = generation[job[a]]] \in Pages
    BY <1>1 DEF Pages
  <2>2. page' = [page EXCEPT ![a] = [page[a] EXCEPT !.audit = latest[job[a]].id,
                                                    !.generation = generation[job[a]]]]
    BY <1>1, <1>5 DEF ReadLatestAudit, TypeOK
  <2>. QED
    BY <1>1, <1>5, <2>1, <2>2 DEF TypeOK, ReadLatestAudit, GoTo, db, time
<1>6. CASE Send(a)
  <2>1. PICK c \in Commands : command' = [command EXCEPT ![a] = c]
    BY <1>6 DEF Send
  <2>2. /\ clock' = clock + 1
        /\ arrived' = [arrived EXCEPT ![a] = clock + 1] /\ pc' = [pc EXCEPT ![a] = "sent"]
    BY <1>6 DEF Send, GoTo
  <2>3. UNCHANGED db /\ UNCHANGED <<locked, ruling, job, page, base, syncs, skew, overlapped>>
    BY <1>6 DEF Send
  <2>4. clock \in Nat
    BY DEF TypeOK
  <2>5. clock + 1 \in Nat
    BY <2>4
  <2>. QED
    BY <1>1, <2>1, <2>2, <2>3, <2>5 DEF TypeOK, db
<1>7. CASE ReadBase(a)
  <2>1. [order |-> order[job[a]], revision |-> revision[job[a]]]
          \in [order : Shown, revision : Nat]
    BY <1>1
  <2>. QED
    BY <1>1, <1>7, <2>1 DEF TypeOK, ReadBase, GoTo, db, time
<1>8. CASE Precheck(a)
  BY <1>1, <1>8 DEF TypeOK, Precheck, GoTo, db, operator, time
<1>. QED
  BY <1>2, <1>3, <1>4, <1>5, <1>6, <1>7, <1>8

\* So do the steps of deliveries and decisions that leave the orders alone.
LEMMA QuietTypes ==
  ASSUME TypeOK, NEW x \in Processes,
         Decide(x) \/ LockAndRecheck(x) \/ GiveUp(x) \/ (x \in Orders /\ DeliveryArrives(x))
  PROVE  TypeOK' /\ UNCHANGED <<db, job, page, syncs, skew>> /\ clock' \in {clock, clock + 1}
<1>. USE DEF Places
<1>1. Subject(x) \in Orders /\ clock \in Nat
  BY SubjectFacts DEF TypeOK
<1>2. CASE Decide(x)
  <2>1. PICK p \in Purchases, other \in SUBSET {"OTHER_ERROR"} :
          ruling' = [ruling EXCEPT ![x] =
                       [purchase |-> p, facts |-> Facts(Subject(x), p),
                        issues |-> ErrorsOf(Facts(Subject(x), p)) \cup other]]
    BY <1>2 DEF Decide
  <2>2. Facts(Subject(x), p)
          \in [duplicate_customer_po : BOOLEAN, document_already_processed : BOOLEAN]
    BY DEF Facts
  <2>3. ErrorsOf(Facts(Subject(x), p)) \cup other \in SUBSET Errors
    BY DEF ErrorsOf, Errors
  <2>4. [purchase |-> p, facts |-> Facts(Subject(x), p),
         issues |-> ErrorsOf(Facts(Subject(x), p)) \cup other] \in Rulings
    BY <2>2, <2>3 DEF Rulings
  <2>5. pc' = [pc EXCEPT ![x] = "decided"]
    BY <1>2 DEF Decide, GoTo
  <2>6. UNCHANGED db /\ UNCHANGED <<locked, arrived, overlapped>>
        /\ UNCHANGED operator /\ UNCHANGED time
    BY <1>2 DEF Decide
  <2>7. /\ pc' \in [Processes -> Places] /\ ruling' \in [Processes -> Rulings]
    BY <2>1, <2>4, <2>5 DEF TypeOK
  <2>. QED
    BY <2>6, <2>7 DEF TypeOK, db, operator, time
<1>3. CASE LockAndRecheck(x)
  <2>1. /\ locked' = locked \cup {Subject(x)} /\ pc' = [pc EXCEPT ![x] = "locked"]
        /\ overlapped' = {pair \in overlapped : Subject(x) \notin pair}
                           \cup {{Subject(x), p} : p \in locked}
    BY <1>3 DEF LockAndRecheck, GoTo
  <2>2. UNCHANGED db /\ UNCHANGED <<arrived, ruling>> /\ UNCHANGED operator /\ UNCHANGED time
    BY <1>3 DEF LockAndRecheck
  <2>3. locked \in SUBSET Orders /\ overlapped \in SUBSET SUBSET Orders
    BY DEF TypeOK
  <2>4. locked' \in SUBSET Orders /\ overlapped' \in SUBSET SUBSET Orders
    BY <1>1, <2>1, <2>3
  <2>5. pc' \in [Processes -> Places]
    BY <2>1 DEF TypeOK
  <2>. QED
    BY <2>2, <2>4, <2>5 DEF TypeOK, db, operator, time
<1>4. CASE GiveUp(x)
  <2>1. /\ locked' \in {locked, locked \ {Subject(x)}} /\ Leave(x)
        /\ UNCHANGED db /\ UNCHANGED time /\ UNCHANGED overlapped
    BY <1>4 DEF GiveUp
  <2>2. locked' \in SUBSET Orders
    BY <2>1 DEF TypeOK
  <2>. QED
    BY <2>1, <2>2, LeaveFacts DEF TypeOK, db, time
<1>5. CASE x \in Orders /\ DeliveryArrives(x)
  <2>1. /\ clock' = clock + 1 /\ arrived' = [arrived EXCEPT ![x] = clock + 1]
        /\ pc' = [pc EXCEPT ![x] = "arrived"]
    BY <1>5 DEF DeliveryArrives, GoTo
  <2>2. UNCHANGED db /\ UNCHANGED <<locked, ruling, syncs, skew, overlapped>> /\ UNCHANGED operator
    BY <1>5 DEF DeliveryArrives
  <2>3. clock + 1 \in Nat
    BY <1>1
  <2>4. pc' \in [Processes -> Places] /\ arrived' \in [Processes -> Nat]
    BY <2>1, <2>3 DEF TypeOK
  <2>. QED
    BY <2>1, <2>2, <2>3, <2>4 DEF TypeOK, db, operator
<1>. QED
  BY <1>2, <1>3, <1>4, <1>5

Now == Gap * (clock + skew) + 7 + syncs

\* How the life of an order goes on with an event stamped at.
Worked(o, at) ==
  /\ order[o].state = "EXTRACTED"
  /\ \/ order'[o] = order[o]
     \/ order'[o].state \in {"NEEDS_REVIEW", "READY_FOR_APPROVAL"} /\ order'[o].origin = NoOrigin
     \/ order'[o].state \in FailureStates /\ order'[o].origin = "EXTRACTED"
  /\ revision'[o] = revision[o]
  /\ at < Gap * (clock + 1)

Revised(o, at) ==
  /\ order[o].state = "NEEDS_REVIEW"
  /\ order'[o].state \in {"NEEDS_REVIEW", "READY_FOR_APPROVAL"} /\ order'[o].origin = NoOrigin
  /\ revision'[o] = revision[o] + 1
  /\ at < Gap * (clock + 1)

Ruled(o, at) ==
  /\ order[o].state \in {"NEEDS_REVIEW", "READY_FOR_APPROVAL"}
  /\ \/ order'[o] = [state |-> "REJECTED", origin |-> NoOrigin]
     \/ /\ order[o].state = "READY_FOR_APPROVAL"
        /\ order'[o] = [state |-> "APPROVED", origin |-> NoOrigin]
  /\ revision'[o] = revision[o]
  /\ at < Gap * (clock + 1)

Retried(o, at) ==
  /\ order[o].state = "FAILED_RETRYABLE"
  /\ order'[o] = [state |-> order[o].origin, origin |-> NoOrigin]
  /\ revision'[o] = revision[o]
  /\ \E a \in Operators : /\ pc[a] = "checked" /\ job[a] = o /\ StillCurrent(a)
                          /\ at = Gap * arrived[a] + 1
  /\ at < Gap * (clock + 1)

Synchronized(o, at) ==
  /\ \/ /\ order[o].state = "APPROVED"
        /\ order'[o] = [state |-> "SYNCING", origin |-> NoOrigin]
     \/ /\ order[o].state = "SYNCING"
        /\ \/ order'[o] = [state |-> "COMPLETED", origin |-> NoOrigin]
           \/ order'[o].state \in FailureStates /\ order'[o].origin = "SYNCING"
  /\ revision'[o] = revision[o]
  /\ at = Now /\ syncs' = syncs + 1

\* A commit on an order, and none.
Effect(o) ==
  \E at \in Int :
    /\ Recorded(o, at)
    /\ Worked(o, at) \/ Revised(o, at) \/ Ruled(o, at) \/ Retried(o, at) \/ Synchronized(o, at)

NoEffect(o) ==
  /\ order'[o] = order[o] /\ revision'[o] = revision[o] /\ written'[o] = written[o]
  /\ generation'[o] = generation[o] /\ latest'[o] = latest[o]

\* Arrivals are further apart than the stamps of one request.
LEMMA GapFacts ==
  ASSUME NEW m \in Int, NEW n \in Int, m < n, NEW k \in 0..7
  PROVE  /\ Gap \in Nat /\ Gap * m + k \in Int /\ Gap * n \in Int
         /\ Gap * m + k < Gap * n /\ Gap * m <= Gap * n
<1>1. Gap \in Nat /\ Gap >= 8
  BY ClockAssumption DEF Gap
<1>2. Gap * n >= Gap * (m + 1)
  BY <1>1
<1>3. Gap * (m + 1) = Gap * m + Gap
  BY <1>1
<1>. QED
  BY <1>1, <1>2, <1>3

\* A request's stamps are those of its arrival.
LEMMA StampFacts ==
  ASSUME TypeOK, NEW x \in Processes, arrived[x] <= clock, NEW k \in 0..7
  PROVE  /\ Stamp(x, k) \in Int /\ Stamp(x, k) = Gap * arrived[x] + k
         /\ Stamp(x, k) < Gap * (clock + 1)
<1>1. arrived[x] \in Int /\ clock \in Int /\ clock + 1 \in Int /\ arrived[x] < clock + 1
  BY DEF TypeOK
<1>. QED
  BY <1>1, GapFacts DEF Stamp

\* What a commit on one order is, apart from the case it may store.
Wrote(o) ==
  /\ Effect(o)
  /\ \A p \in Orders \ {o} : NoEffect(p)
  /\ UNCHANGED <<document, job, page, clock, skew>>

KeptCase == UNCHANGED <<purchase, processed, issues, written>>

\* A command that only moves the order.
LEMMA CommandFacts ==
  ASSUME TypeOK, NEW a \in Operators, NEW target \in Aggregates, NEW k \in 0..1, arrived[a] <= clock,
         NEW name, NEW states, Command(a, name, states, target, k),
         \/ Ruled(job[a], Stamp(a, k))
         \/ Retried(job[a], Stamp(a, k))
  PROVE  /\ TypeOK' /\ Wrote(job[a]) /\ KeptCase /\ UNCHANGED <<revision, locked, overlapped, syncs>>
         /\ order'[job[a]] = target
<1>1. a \in Processes /\ job[a] \in Orders /\ k \in 0..7
  BY DEF TypeOK, Processes
<1>2. /\ order' = [order EXCEPT ![job[a]] = target] /\ Commit(job[a], Stamp(a, k)) /\ Leave(a)
      /\ UNCHANGED <<document, purchase, processed, issues, written, revision>>
      /\ UNCHANGED locked /\ UNCHANGED overlapped /\ UNCHANGED time
  BY DEF Command, Move, KeepCase
<1>3. Stamp(a, k) \in Int
  BY <1>1, StampFacts
<1>4. /\ order' \in [Orders -> Aggregates] /\ order'[job[a]] = target
      /\ \A p \in Orders \ {job[a]} : order'[p] = order[p]
  BY <1>1, <1>2 DEF TypeOK
<1>5. /\ generation' \in [Orders -> Nat] /\ latest' \in [Orders -> [at : Int, id : Nat]]
      /\ Recorded(job[a], Stamp(a, k))
      /\ \A p \in Orders \ {job[a]} : generation'[p] = generation[p] /\ latest'[p] = latest[p]
  BY <1>1, <1>2, <1>3, CommitFacts
<1>6. /\ pc' \in [Processes -> Places] /\ arrived' \in [Processes -> Nat]
      /\ ruling' \in [Processes -> Rulings]
      /\ command' \in [Operators -> Commands \cup {"none"}]
      /\ base' \in [Operators -> [order : Shown, revision : Nat]]
      /\ UNCHANGED <<job, page>>
  BY <1>1, <1>2, LeaveFacts
<1>7. TypeOK'
  BY <1>2, <1>4, <1>5, <1>6 DEF TypeOK, time
<1>8. Effect(job[a])
  BY <1>3, <1>5 DEF Effect
<1>9. \A p \in Orders \ {job[a]} : NoEffect(p)
  BY <1>2, <1>4, <1>5 DEF NoEffect
<1>. QED
  BY <1>2, <1>4, <1>6, <1>7, <1>8, <1>9 DEF Wrote, KeptCase, time

\* An approval is a ruling on an order that is ready.
LEMMA ApproveFacts ==
  ASSUME TypeOK, NEW a \in Operators, arrived[a] <= clock, Approve(a)
  PROVE  /\ TypeOK' /\ Wrote(job[a]) /\ KeptCase /\ UNCHANGED <<revision, locked, overlapped, syncs>>
         /\ Leave(a) /\ StillCurrent(a) /\ order[job[a]].state = "READY_FOR_APPROVAL"
         /\ order'[job[a]].state = "APPROVED" /\ job[a] \notin locked
<1>. DEFINE target == TransitionTo(order[job[a]], "APPROVED")
<1>1. /\ Command(a, "approve", {"READY_FOR_APPROVAL"}, target, 0)
      /\ order[job[a]].state = "READY_FOR_APPROVAL" /\ StillCurrent(a) /\ Leave(a)
      /\ job[a] \notin locked /\ order' = [order EXCEPT ![job[a]] = target] /\ UNCHANGED revision
  BY DEF Approve, Command, Move, KeepCase
<1>2. /\ job[a] \in Orders /\ order[job[a]] \in Aggregates /\ a \in Processes
      /\ order \in [Orders -> Aggregates]
  BY DEF TypeOK, Processes
<1>3. target \in Aggregates /\ target = [state |-> "APPROVED", origin |-> NoOrigin]
  BY <1>1, <1>2, MoveFacts DEF TransitionTo, FailureStates
<1>4. order'[job[a]] = target
  BY <1>1, <1>2
<1>5. 0 \in 0..1 /\ 0 \in 0..7
  OBVIOUS
<1>6. Stamp(a, 0) < Gap * (clock + 1)
  BY <1>2, <1>5, StampFacts
<1>7. Ruled(job[a], Stamp(a, 0))
  BY <1>1, <1>3, <1>4, <1>6 DEF Ruled
<1>8. target.state = "APPROVED"
  BY <1>3
<1>. HIDE DEF target
<1>. QED
  BY <1>1, <1>3, <1>4, <1>5, <1>7, <1>8, CommandFacts

\* A rejection is a ruling on an order that is ready or in review.
LEMMA RejectFacts ==
  ASSUME TypeOK, NEW a \in Operators, arrived[a] <= clock, Reject(a)
  PROVE  /\ TypeOK' /\ Wrote(job[a]) /\ KeptCase /\ UNCHANGED <<revision, locked, overlapped, syncs>>
         /\ Leave(a) /\ StillCurrent(a)
         /\ order[job[a]].state \in {"NEEDS_REVIEW", "READY_FOR_APPROVAL"}
         /\ order'[job[a]].state = "REJECTED" /\ job[a] \notin locked
<1>. DEFINE target == TransitionTo(order[job[a]], "REJECTED")
<1>1. /\ Command(a, "reject", {"NEEDS_REVIEW", "READY_FOR_APPROVAL"}, target, 0)
      /\ order[job[a]].state \in {"NEEDS_REVIEW", "READY_FOR_APPROVAL"} /\ StillCurrent(a) /\ Leave(a)
      /\ job[a] \notin locked /\ order' = [order EXCEPT ![job[a]] = target] /\ UNCHANGED revision
  BY DEF Reject, Command, Move, KeepCase
<1>2. /\ job[a] \in Orders /\ order[job[a]] \in Aggregates /\ a \in Processes
      /\ order \in [Orders -> Aggregates]
  BY DEF TypeOK, Processes
<1>3. target \in Aggregates /\ target = [state |-> "REJECTED", origin |-> NoOrigin]
  BY <1>1, <1>2, MoveFacts DEF TransitionTo, FailureStates
<1>4. order'[job[a]] = target
  BY <1>1, <1>2
<1>5. 0 \in 0..1 /\ 0 \in 0..7
  OBVIOUS
<1>6. Stamp(a, 0) < Gap * (clock + 1)
  BY <1>2, <1>5, StampFacts
<1>7. Ruled(job[a], Stamp(a, 0))
  BY <1>1, <1>3, <1>4, <1>6 DEF Ruled
<1>8. target.state = "REJECTED"
  BY <1>3
<1>. HIDE DEF target
<1>. QED
  BY <1>1, <1>3, <1>4, <1>5, <1>7, <1>8, CommandFacts

\* A retry takes the order back to where it failed.
LEMMA RetryFacts ==
  ASSUME TypeOK, NEW a \in Operators, arrived[a] <= clock, RetryOrder(a)
  PROVE  /\ TypeOK' /\ Wrote(job[a]) /\ KeptCase /\ UNCHANGED <<revision, locked, overlapped, syncs>>
         /\ Leave(a) /\ StillCurrent(a)
         /\ order[job[a]].state = "FAILED_RETRYABLE"
         /\ order'[job[a]] = [state |-> order[job[a]].origin, origin |-> NoOrigin]
         /\ job[a] \notin locked
<1>. DEFINE target == Retry(order[job[a]])
<1>1. /\ Command(a, "retry", {"FAILED_RETRYABLE"}, target, 1) /\ CanRetry(order[job[a]])
      /\ order[job[a]].state = "FAILED_RETRYABLE" /\ StillCurrent(a) /\ Leave(a)
      /\ pc[a] = "checked"
      /\ job[a] \notin locked /\ order' = [order EXCEPT ![job[a]] = target] /\ UNCHANGED revision
  BY DEF RetryOrder, Command, Move, KeepCase
<1>2. /\ job[a] \in Orders /\ order[job[a]] \in Aggregates /\ a \in Processes
      /\ order \in [Orders -> Aggregates]
  BY DEF TypeOK, Processes
<1>3. target \in Aggregates /\ target = [state |-> order[job[a]].origin, origin |-> NoOrigin]
  BY <1>1, <1>2, MoveFacts DEF Retry
<1>4. order'[job[a]] = target
  BY <1>1, <1>2
<1>5. 1 \in 0..1 /\ 1 \in 0..7
  OBVIOUS
<1>6. Stamp(a, 1) < Gap * (clock + 1) /\ Stamp(a, 1) = Gap * arrived[a] + 1
  BY <1>2, <1>5, StampFacts
<1>7. Retried(job[a], Stamp(a, 1))
  BY <1>1, <1>3, <1>4, <1>6 DEF Retried
<1>. HIDE DEF target
<1>. QED
  BY <1>1, <1>3, <1>4, <1>5, <1>7, CommandFacts

\* A decision is committed: the order is routed, with its issues and, if there
\* are none, its purchase.
LEMMA RulingFacts ==
  ASSUME TypeOK, NEW x \in Processes, arrived[x] <= clock, CommitRuling(x),
         order[Subject(x)].state = IF x \in Orders THEN "EXTRACTED" ELSE "NEEDS_REVIEW"
  PROVE  /\ TypeOK' /\ Wrote(Subject(x)) /\ UNCHANGED <<overlapped, syncs>>
         /\ Leave(x) /\ locked' = locked \ {Subject(x)} /\ pc[x] = "locked"
         /\ order'[Subject(x)] =
              [state |-> IF ruling[x].issues = {} THEN "READY_FOR_APPROVAL" ELSE "NEEDS_REVIEW",
               origin |-> NoOrigin]
         /\ purchase' = IF ruling[x].issues = {}
                        THEN [purchase EXCEPT ![Subject(x)] = ruling[x].purchase] ELSE purchase
         /\ processed' = IF x \in Orders THEN Append(processed, Subject(x)) ELSE processed
         /\ x \in Orders => revision' = revision
         /\ \A p \in Orders \ {Subject(x)} : revision'[p] = revision[p]
<1>. DEFINE o == Subject(x)
            route == IF ruling[x].issues = {} THEN "READY_FOR_APPROVAL" ELSE "NEEDS_REVIEW"
            target == [state |-> route, origin |-> NoOrigin]
            k == IF x \in Orders THEN 5 ELSE 2
<1>1. /\ o \in Orders /\ order[o] \in Aggregates /\ order \in [Orders -> Aggregates]
      /\ (x \in Orders => o = x) /\ route \in {"READY_FOR_APPROVAL", "NEEDS_REVIEW"}
  BY SubjectFacts DEF TypeOK
<1>2. TransitionTo(TransitionTo(order[o], "VALIDATED"), route) = target
  BY <1>1, MoveFacts
<1>3. target \in Aggregates /\ target.state = route /\ target.origin = NoOrigin
  BY <1>1 DEF Aggregates
<1>4. k \in 0..7
  OBVIOUS
<1>. HIDE DEF target, route, k
<1>5. Stamp(x, k) \in Int /\ Stamp(x, k) < Gap * (clock + 1)
  BY <1>4, StampFacts
<1>. USE DEF k
<1>6. order' = [order EXCEPT ![o] = target]
  BY <1>2 DEF CommitRuling, Move, route
<1>7. /\ Commit(o, Stamp(x, k)) /\ Leave(x) /\ locked' = locked \ {o} /\ pc[x] = "locked"
      /\ issues' = [issues EXCEPT ![o] = ruling[x].issues]
      /\ written' = [written EXCEPT ![o] = generation[o] + 1]
      /\ UNCHANGED document /\ UNCHANGED overlapped /\ UNCHANGED time
  BY DEF CommitRuling
<1>8. /\ purchase' = IF ruling[x].issues = {}
                     THEN [purchase EXCEPT ![o] = ruling[x].purchase] ELSE purchase
      /\ processed' = IF x \in Orders THEN Append(processed, o) ELSE processed
      /\ revision' = IF x \in Orders THEN revision
                     ELSE [revision EXCEPT ![o] = revision[o] + 1]
  BY <1>1 DEF CommitRuling, TypeOK
<1>. HIDE DEF k, o
<1>9. /\ order' \in [Orders -> Aggregates] /\ order'[o] = target
      /\ \A p \in Orders \ {o} : order'[p] = order[p]
  BY <1>1, <1>3, <1>6
<1>10. /\ generation' \in [Orders -> Nat] /\ latest' \in [Orders -> [at : Int, id : Nat]]
       /\ Recorded(o, Stamp(x, k))
       /\ \A p \in Orders \ {o} : generation'[p] = generation[p] /\ latest'[p] = latest[p]
  BY <1>1, <1>5, <1>7, CommitFacts
<1>11. /\ pc' \in [Processes -> Places] /\ arrived' \in [Processes -> Nat]
       /\ ruling' \in [Processes -> Rulings]
       /\ command' \in [Operators -> Commands \cup {"none"}]
       /\ base' \in [Operators -> [order : Shown, revision : Nat]]
       /\ UNCHANGED <<job, page>>
  BY <1>7, LeaveFacts
<1>12. /\ ruling[x].purchase \in Purchases \cup {NoPurchase} /\ ruling[x].issues \in SUBSET Errors
       /\ purchase \in [Orders -> Purchases \cup {NoPurchase}] /\ issues \in [Orders -> SUBSET Errors]
       /\ generation[o] \in Nat /\ revision[o] \in Nat /\ written \in [Orders -> Nat]
       /\ revision \in [Orders -> Nat] /\ processed \in Seq(Orders) /\ locked \in SUBSET Orders
  BY <1>1 DEF TypeOK, Rulings
<1>13. purchase' \in [Orders -> Purchases \cup {NoPurchase}]
  BY <1>8, <1>12
<1>14. processed' \in Seq(Orders)
  BY <1>1, <1>8, <1>12
<1>15. /\ revision' \in [Orders -> Nat]
       /\ \A p \in Orders \ {o} : revision'[p] = revision[p]
       /\ revision'[o] = IF x \in Orders THEN revision[o] ELSE revision[o] + 1
  BY <1>1, <1>8, <1>12
<1>16. /\ issues' \in [Orders -> SUBSET Errors] /\ written' \in [Orders -> Nat]
       /\ \A p \in Orders \ {o} : written'[p] = written[p]
  <2>1. generation[o] + 1 \in Nat
    BY <1>12
  <2>2. issues' \in [Orders -> SUBSET Errors]
    BY <1>7, <1>12
  <2>. QED
    BY <1>7, <1>12, <2>1, <2>2
<1>17. locked' \in SUBSET Orders
  BY <1>7, <1>12
<1>18. UNCHANGED <<document, overlapped, clock, syncs, skew>>
  BY <1>7 DEF time
<1>19. TypeOK'
  BY <1>9, <1>10, <1>11, <1>13, <1>14, <1>15, <1>16, <1>17, <1>18 DEF TypeOK
<1>20. Effect(o)
  <2>1. CASE x \in Orders
    <3>1. order[o].state = "EXTRACTED"
      BY <2>1 DEF o
    <3>2. Worked(o, Stamp(x, k))
      BY <1>1, <1>3, <1>5, <1>9, <1>15, <2>1, <3>1 DEF Worked, route
    <3>. QED
      BY <1>5, <1>10, <3>2 DEF Effect
  <2>2. CASE x \notin Orders
    <3>1. order[o].state = "NEEDS_REVIEW"
      BY <2>2 DEF o
    <3>2. Revised(o, Stamp(x, k))
      BY <1>1, <1>3, <1>5, <1>9, <1>15, <2>2, <3>1 DEF Revised, route
    <3>. QED
      BY <1>5, <1>10, <3>2 DEF Effect
  <2>. QED
    BY <2>1, <2>2
<1>21. \A p \in Orders \ {o} : NoEffect(p)
  BY <1>9, <1>10, <1>15, <1>16 DEF NoEffect
<1>22. Wrote(o)
  BY <1>11, <1>18, <1>20, <1>21 DEF Wrote
<1>23. order'[o] = [state |-> IF ruling[x].issues = {} THEN "READY_FOR_APPROVAL"
                                                       ELSE "NEEDS_REVIEW",
                    origin |-> NoOrigin]
  BY <1>9 DEF target, route
<1>. QED
  BY <1>7, <1>8, <1>15, <1>18, <1>19, <1>22, <1>23 DEF o

\* A delivery claims the order, or fails.
LEMMA DeliveryFacts ==
  ASSUME TypeOK, NEW o \in Orders, arrived[o] <= clock, DeliveryFails(o) \/ DeliveryClaims(o)
  PROVE  /\ TypeOK' /\ Wrote(o) /\ KeptCase /\ UNCHANGED <<revision, locked, overlapped, syncs>>
         /\ o \notin locked /\ order[o].state = "EXTRACTED" /\ pc[o] # "locked"
         /\ order'[o] = order[o] \/ order'[o].origin = "EXTRACTED"
         /\ order'[o].state \in {"EXTRACTED"} \cup FailureStates
         /\ pc'[o] \in {"idle", "checked"} /\ UNCHANGED <<command, base>>
         /\ \A y \in Processes \ {o} :
              pc'[y] = pc[y] /\ arrived'[y] = arrived[y] /\ ruling'[y] = ruling[y]
<1>1. /\ o \in Processes /\ o \notin Operators /\ order[o] \in Aggregates
      /\ order \in [Orders -> Aggregates]
  BY ProcessesAssumption DEF TypeOK, Processes
<1>2. /\ order[o].state = "EXTRACTED" /\ o \notin locked /\ pc[o] # "locked"
      /\ UNCHANGED <<document, purchase, processed, issues, written, revision>>
      /\ UNCHANGED locked /\ UNCHANGED time /\ UNCHANGED overlapped
  BY DEF DeliveryFails, DeliveryClaims, KeepCase
<1>3. PICK k \in {1, 3} :
        /\ Commit(o, Stamp(o, k))
        /\ \/ UNCHANGED order
           \/ \E failure \in FailureStates :
                 order' = [order EXCEPT ![o] = TransitionTo(order[o], failure)]
  BY DEF DeliveryFails, DeliveryClaims, Move
<1>4. k \in 0..7
  OBVIOUS
<1>5. Stamp(o, k) \in Int /\ Stamp(o, k) < Gap * (clock + 1)
  BY <1>1, <1>4, StampFacts
<1>6. PICK target \in Aggregates :
        /\ order' = [order EXCEPT ![o] = target]
        /\ target = order[o] \/ (target.state \in FailureStates /\ target.origin = "EXTRACTED")
  <2>1. CASE UNCHANGED order
    BY <1>1, <2>1
  <2>2. ASSUME NEW failure \in FailureStates,
               order' = [order EXCEPT ![o] = TransitionTo(order[o], failure)]
        PROVE  \E target \in Aggregates :
                 /\ order' = [order EXCEPT ![o] = target]
                 /\ target.state \in FailureStates /\ target.origin = "EXTRACTED"
    <3>1. TransitionTo(order[o], failure) \in Aggregates
      BY <1>1, <1>2, MoveFacts
    <3>2. /\ TransitionTo(order[o], failure).state = failure
          /\ TransitionTo(order[o], failure).origin = "EXTRACTED"
      BY <1>2 DEF TransitionTo
    <3>. QED
      BY <2>2, <3>1, <3>2
  <2>. QED
    BY <1>3, <2>1, <2>2
<1>7. /\ order' \in [Orders -> Aggregates] /\ order'[o] = target
      /\ \A p \in Orders \ {o} : order'[p] = order[p]
  BY <1>1, <1>6
<1>8. /\ generation' \in [Orders -> Nat] /\ latest' \in [Orders -> [at : Int, id : Nat]]
      /\ Recorded(o, Stamp(o, k))
      /\ \A p \in Orders \ {o} : generation'[p] = generation[p] /\ latest'[p] = latest[p]
  BY <1>3, <1>5, CommitFacts
<1>9. /\ pc' \in [Processes -> Places] /\ arrived' \in [Processes -> Nat]
      /\ ruling' \in [Processes -> Rulings]
      /\ command' \in [Operators -> Commands \cup {"none"}]
      /\ base' \in [Operators -> [order : Shown, revision : Nat]]
      /\ UNCHANGED <<job, page, command, base>> /\ pc'[o] \in {"idle", "checked"}
      /\ \A y \in Processes \ {o} :
           pc'[y] = pc[y] /\ arrived'[y] = arrived[y] /\ ruling'[y] = ruling[y]
  <2>1. CASE DeliveryFails(o)
    <3>1. Leave(o) /\ UNCHANGED <<command, base>>
      BY <1>1, <2>1 DEF DeliveryFails, Leave
    <3>. QED
      BY <1>1, <3>1, LeaveFacts
  <2>2. CASE DeliveryClaims(o)
    <3>1. /\ pc' = [pc EXCEPT ![o] = "checked"] /\ UNCHANGED <<arrived, ruling>>
          /\ UNCHANGED operator
      BY <2>2 DEF DeliveryClaims, GoTo
    <3>. QED
      BY <1>1, <3>1 DEF TypeOK, operator, Places
  <2>. QED
    BY <2>1, <2>2
<1>10. UNCHANGED <<document, overlapped, clock, syncs, skew, locked>>
  BY <1>2 DEF time
<1>11. TypeOK'
  BY <1>2, <1>7, <1>8, <1>9, <1>10 DEF TypeOK
<1>12. Worked(o, Stamp(o, k))
  BY <1>2, <1>5, <1>6, <1>7 DEF Worked
<1>13. Effect(o)
  BY <1>5, <1>8, <1>12 DEF Effect
<1>14. \A p \in Orders \ {o} : NoEffect(p)
  BY <1>2, <1>7, <1>8 DEF NoEffect
<1>. QED
  BY <1>2, <1>6, <1>7, <1>9, <1>10, <1>11, <1>13, <1>14 DEF Wrote, KeptCase

\* Synchronization moves an approved order on, by the clock of the database.
LEMMA SynchronizeFacts ==
  ASSUME TypeOK, NEW o \in Orders, Synchronize(o)
  PROVE  /\ TypeOK' /\ Wrote(o) /\ KeptCase /\ UNCHANGED <<revision, locked, overlapped>>
         /\ o \notin locked /\ order[o].state \in {"APPROVED", "SYNCING"}
         /\ syncs' = syncs + 1 /\ UNCHANGED <<pc, arrived, ruling, command, base>>
<1>1. /\ order[o] \in Aggregates /\ order \in [Orders -> Aggregates]
  BY DEF TypeOK
<1>2. /\ o \notin locked /\ syncs' = syncs + 1 /\ Commit(o, Now)
      /\ UNCHANGED <<document, purchase, processed, issues, written, revision>>
      /\ UNCHANGED <<locked, pc, arrived, ruling, clock, skew, overlapped>>
      /\ UNCHANGED operator
  BY DEF Synchronize, KeepCase, Now
<1>3. /\ clock + skew \in Int /\ syncs \in Nat /\ syncs + 1 \in Nat
  <2>1. clock \in Nat /\ skew \in Int /\ syncs \in Nat
    BY DEF TypeOK
  <2>. QED
    BY <2>1
<1>4. Now \in Int
  <2>1. Gap \in Nat
    BY ClockAssumption DEF Gap
  <2>2. Gap * (clock + skew) \in Int
    BY <1>3, <2>1
  <2>. QED
    BY <1>3, <2>2 DEF Now
<1>5. PICK target \in Aggregates :
        /\ order' = [order EXCEPT ![o] = target]
        /\ \/ order[o].state = "APPROVED" /\ target = [state |-> "SYNCING", origin |-> NoOrigin]
           \/ /\ order[o].state = "SYNCING"
              /\ \/ target = [state |-> "COMPLETED", origin |-> NoOrigin]
                 \/ target.state \in FailureStates /\ target.origin = "SYNCING"
  <2>1. CASE /\ order[o].state = "APPROVED"
             /\ order' = [order EXCEPT ![o] = TransitionTo(order[o], "SYNCING")]
    <3>1. TransitionTo(order[o], "SYNCING") \in Aggregates
      BY <1>1, <2>1, MoveFacts
    <3>2. TransitionTo(order[o], "SYNCING") = [state |-> "SYNCING", origin |-> NoOrigin]
      BY DEF TransitionTo, FailureStates
    <3>. QED
      BY <2>1, <3>1, <3>2
  <2>2. ASSUME order[o].state = "SYNCING", NEW target \in NormalTransitions["SYNCING"],
               order' = [order EXCEPT ![o] = TransitionTo(order[o], target)]
        PROVE  \E t \in Aggregates :
                 /\ order' = [order EXCEPT ![o] = t]
                 /\ \/ t = [state |-> "COMPLETED", origin |-> NoOrigin]
                    \/ t.state \in FailureStates /\ t.origin = "SYNCING"
    <3>1. TransitionTo(order[o], target) \in Aggregates
      BY <1>1, <2>2, MoveFacts
    <3>2. target = "COMPLETED" \/ target \in FailureStates
      BY DEF NormalTransitions
    <3>3. \/ TransitionTo(order[o], target) = [state |-> "COMPLETED", origin |-> NoOrigin]
          \/ /\ TransitionTo(order[o], target).state \in FailureStates
             /\ TransitionTo(order[o], target).origin = "SYNCING"
      BY <2>2, <3>2 DEF TransitionTo, FailureStates
    <3>. QED
      BY <2>2, <3>1, <3>3
  <2>. QED
    BY <2>1, <2>2 DEF Synchronize, Move
<1>6. /\ order' \in [Orders -> Aggregates] /\ order'[o] = target
      /\ \A p \in Orders \ {o} : order'[p] = order[p]
  BY <1>1, <1>5
<1>7. /\ generation' \in [Orders -> Nat] /\ latest' \in [Orders -> [at : Int, id : Nat]]
      /\ Recorded(o, Now)
      /\ \A p \in Orders \ {o} : generation'[p] = generation[p] /\ latest'[p] = latest[p]
  BY <1>2, <1>4, CommitFacts
<1>8. UNCHANGED <<job, page, command, base>>
  BY <1>2 DEF operator
<1>9. TypeOK'
  BY <1>2, <1>3, <1>6, <1>7, <1>8 DEF TypeOK
<1>10. Synchronized(o, Now)
  BY <1>2, <1>5, <1>6 DEF Synchronized
<1>11. Effect(o)
  BY <1>4, <1>7, <1>10 DEF Effect
<1>12. \A p \in Orders \ {o} : NoEffect(p)
  BY <1>2, <1>6, <1>7 DEF NoEffect
<1>. QED
  BY <1>2, <1>5, <1>8, <1>9, <1>11, <1>12 DEF Wrote, KeptCase

Extracting(o) == order[o].state = "EXTRACTED" \/ order[o].origin = "EXTRACTED"

Synced(o) == order[o].state \in {"SYNCING", "COMPLETED"} \/ order[o].origin = "SYNCING"

\* The latest event is no newer than the last arrival, or it was recorded by
\* synchronization, and the next one of that kind will be newer.
Times ==
  /\ \A x \in Processes : arrived[x] <= clock
  /\ \A o \in Orders :
       /\ latest[o].id <= generation[o]
       /\ latest[o].at < Gap * (clock + 1) \/ (Synced(o) /\ latest[o].at < Now)

PageRead(a) == pc[a] \notin {"idle", "read issues", "read revision", "read audit"}

\* Nothing has been committed since the page was opened: it shows what is there,
\* as far as it has been read.
UpToDate(a) ==
  /\ page[a].order = order[job[a]]
  /\ pc[a] # "read issues" => page[a].issues = written[job[a]]
  /\ pc[a] \notin {"read issues", "read revision"} => page[a].revision = revision[job[a]]
  /\ PageRead(a) => page[a].audit = latest[job[a]].id

\* Something has, and the tag of the page is no longer that of the order, or
\* will not be when the order can be commanded again.
Superseded(a) ==
  /\ page[a].order.state = "NEEDS_REVIEW" =>
       revision[job[a]] > page[a].revision \/ order[job[a]].state = "REJECTED"
  /\ page[a].order.state = "FAILED_RETRYABLE" =>
       \/ latest[job[a]].id > page[a].audit
       \/ order[job[a]].state = "SYNCING" /\ latest[job[a]].at < Now

\* An order that was ready for approval does not become ready again.
RuledOn(o) ==
  order[o].state \in {"APPROVED", "SYNCING", "COMPLETED", "REJECTED"} \/ order[o].origin = "SYNCING"

Reading(a) ==
  pc[a] # "idle" =>
    /\ page[a].opened <= generation[job[a]]
    /\ page[a].opened = generation[job[a]] => UpToDate(a)
    /\ page[a].opened < generation[job[a]] /\ page[a].order.state = "READY_FOR_APPROVAL" =>
         RuledOn(job[a])
    /\ PageRead(a) => page[a].audit <= latest[job[a]].id
    /\ PageIsWhole(a) /\ page[a].opened < generation[job[a]] => Superseded(a)

\* A command is newer than the event its page shows as the latest, unless that
\* was recorded by synchronization.
Commanding(a) ==
  pc[a] \in {"sent", "prechecked", "checked", "decided", "locked"}
  /\ page[a].audit = latest[job[a]].id =>
    \/ latest[job[a]].at < Gap * arrived[a]
    \/ Synced(job[a]) /\ latest[job[a]].at < Now

TimeMoves ==
  /\ skew' = skew /\ clock' \in {clock, clock + 1} /\ syncs' \in {syncs, syncs + 1}

\* Time moves on.
LEMMA NowFacts ==
  ASSUME TypeOK, TimeMoves
  PROVE  /\ Now \in Int /\ Now' \in Int /\ Now' >= Now
         /\ syncs' = syncs + 1 => Now' > Now
         /\ Gap * (clock + 1) \in Int /\ Gap * (clock' + 1) \in Int
         /\ Gap * (clock + 1) <= Gap * (clock' + 1)
<1>1. Gap \in Nat
  BY ClockAssumption DEF Gap
<1>2. clock \in Nat /\ skew \in Int /\ syncs \in Nat
  BY DEF TypeOK
<1>. DEFINE here == Gap * (clock + skew)
            next == Gap * (clock + 1)
            there == Gap * (clock' + skew)
            after == Gap * (clock' + 1)
<1>3. /\ here \in Int /\ next \in Int
      /\ Gap * ((clock + 1) + skew) = here + Gap
      /\ Gap * ((clock + 1) + 1) = next + Gap
  BY <1>1, <1>2
<1>4. there \in {here, here + Gap} /\ after \in {next, next + Gap}
  BY <1>3 DEF TimeMoves
<1>5. syncs' \in {syncs, syncs + 1} /\ skew' = skew
  BY DEF TimeMoves
<1>6. Now = here + 7 + syncs
  BY DEF Now
<1>7. Now' = there + 7 + syncs'
  BY <1>5 DEF Now
<1>. HIDE DEF here, next, there, after
<1>8. /\ Now \in Int /\ Now' \in Int /\ Now' >= Now
      /\ syncs' = syncs + 1 => Now' > Now
  <2>1. there \in Int /\ there >= here
    BY <1>1, <1>3, <1>4
  <2>2. syncs' \in Int /\ syncs' >= syncs
    BY <1>2, <1>5
  <2>3. Now \in Int /\ Now' \in Int
    BY <1>2, <1>3, <1>6, <1>7, <2>1, <2>2
  <2>4. ASSUME syncs' = syncs + 1 PROVE Now' > Now
    BY <1>2, <1>3, <1>6, <1>7, <2>1, <2>4
  <2>5. ASSUME syncs' = syncs PROVE Now' >= Now
    BY <1>2, <1>3, <1>6, <1>7, <2>1, <2>5
  <2>6. Now' >= Now
    BY <1>5, <2>3, <2>4, <2>5
  <2>. QED
    BY <2>3, <2>4, <2>6
<1>9. next \in Int /\ after \in Int /\ next <= after
  BY <1>1, <1>3, <1>4
<1>. QED
  BY <1>8, <1>9 DEF next, after

\* What every commit does.
LEMMA EffectFacts ==
  ASSUME TypeOK, NEW o \in Orders, latest[o].id <= generation[o], Effect(o)
  PROVE  /\ generation[o] \in Nat /\ generation'[o] = generation[o] + 1
         /\ revision[o] \in Nat /\ latest[o].id \in Nat /\ latest[o].at \in Int
         /\ \/ latest'[o] = latest[o]
            \/ latest'[o].id = generation[o] + 1
         /\ latest'[o].id >= latest[o].id /\ latest'[o].id <= generation'[o]
         /\ latest'[o].at \in Int
         /\ revision'[o] >= revision[o]
         /\ Synced(o) => Synced(o)'
         /\ RuledOn(o) => RuledOn(o)'
<1>1. /\ order[o] \in Aggregates /\ latest[o] \in [at : Int, id : Nat] /\ generation[o] \in Nat
      /\ revision[o] \in Nat
  BY DEF TypeOK
<1>2. PICK at \in Int :
        /\ Recorded(o, at)
        /\ \/ Worked(o, at) \/ Revised(o, at) \/ Ruled(o, at) \/ Retried(o, at)
           \/ Synchronized(o, at)
  BY DEF Effect
<1>3. /\ generation'[o] = generation[o] + 1
      /\ latest'[o] = latest[o] \/ latest'[o] = [at |-> at, id |-> generation[o] + 1]
  BY <1>2 DEF Recorded
<1>4. /\ latest[o].id \in Nat /\ latest[o].at \in Int
      /\ latest'[o] = latest[o] \/ latest'[o].id = generation[o] + 1
      /\ latest'[o].at \in Int
      /\ latest'[o].id >= latest[o].id /\ latest'[o].id <= generation'[o]
  BY <1>1, <1>3
<1>5. revision'[o] = revision[o] \/ revision'[o] = revision[o] + 1
  BY <1>2 DEF Worked, Revised, Ruled, Retried, Synchronized
<1>6. order[o].state \in FailureStates <=> order[o].origin # NoOrigin
  BY <1>1, MoveFacts
<1>7. Synced(o) => Synced(o)'
  BY <1>2, <1>6
     DEF Worked, Revised, Ruled, Retried, Synchronized, Synced, FailureStates, NoOrigin
<1>8. RuledOn(o) => RuledOn(o)'
  BY <1>2, <1>6
     DEF Worked, Revised, Ruled, Retried, Synchronized, RuledOn, FailureStates, NoOrigin
<1>. QED
  BY <1>1, <1>3, <1>4, <1>5, <1>7, <1>8

\* The clocks: every event leaves the latest one explained.
LEMMA TimesStep ==
  ASSUME TypeOK, Times, TimeMoves,
         \A o \in Orders : NoEffect(o) \/ (Effect(o) /\ clock' = clock),
         \A x \in Processes : arrived'[x] <= clock'
  PROVE  Times'
<1>1. ASSUME NEW o \in Orders
      PROVE  /\ latest'[o].id <= generation'[o]
             /\ latest'[o].at < Gap * (clock' + 1) \/ (Synced(o)' /\ latest'[o].at < Now')
  <2>1. /\ latest[o].id <= generation[o]
        /\ latest[o].at < Gap * (clock + 1) \/ (Synced(o) /\ latest[o].at < Now)
        /\ latest[o].at \in Int
    BY DEF Times, TypeOK
  <2>2. /\ Now \in Int /\ Now' \in Int /\ Now' >= Now
        /\ syncs' = syncs + 1 => Now' > Now
        /\ Gap * (clock + 1) \in Int /\ Gap * (clock' + 1) \in Int
        /\ Gap * (clock + 1) <= Gap * (clock' + 1)
    BY NowFacts
  <2>3. CASE NoEffect(o)
    <3>1. latest'[o] = latest[o] /\ generation'[o] = generation[o] /\ (Synced(o) => Synced(o)')
      BY <2>3 DEF NoEffect, Synced
    <3>. HIDE DEF Now
    <3>. QED
      BY <2>1, <2>2, <3>1
  <2>4. CASE Effect(o) /\ clock' = clock
    <3>1. /\ latest'[o].id <= generation'[o] /\ (Synced(o) => Synced(o)')
      BY <2>1, <2>4, EffectFacts
    <3>2. PICK at \in Int :
            /\ Recorded(o, at)
            /\ \/ Worked(o, at) \/ Revised(o, at) \/ Ruled(o, at) \/ Retried(o, at)
               \/ Synchronized(o, at)
      BY <2>4 DEF Effect
    <3>3. latest'[o].at = latest[o].at \/ latest'[o].at = at
      BY <3>2 DEF Recorded
    <3>4. \/ at < Gap * (clock + 1)
          \/ at = Now /\ syncs' = syncs + 1 /\ Synced(o)'
      BY <3>2 DEF Worked, Revised, Ruled, Retried, Synchronized, Synced
    <3>. HIDE DEF Now
    <3>5. latest[o].at < Gap * (clock' + 1) \/ (Synced(o)' /\ latest[o].at < Now')
      BY <2>1, <2>2, <3>1
    <3>6. at < Gap * (clock' + 1) \/ (Synced(o)' /\ at < Now')
      BY <2>2, <3>4
    <3>. QED
      BY <3>1, <3>3, <3>5, <3>6
  <2>. QED
    BY <2>3, <2>4
<1>. QED
  BY <1>1 DEF Times

\* The first commit after a page was read as a whole supersedes it.
LEMMA FirstCommit ==
  ASSUME TypeOK, TypeOK', Times, TimeMoves, \A b \in Operators : Reading(b) /\ Commanding(b),
         NEW a \in Operators, UpToDate(a), PageRead(a), Effect(job[a]),
         page'[a] = page[a], job'[a] = job[a]
  PROVE  Superseded(a)'
<1>. DEFINE o == job[a]
<1>1. /\ o \in Orders /\ order[o] \in Aggregates /\ latest[o].id <= generation[o]
      /\ page[a].order = order[o] /\ page[a].revision = revision[o]
      /\ page[a].audit = latest[o].id /\ latest[o].id \in Nat /\ generation[o] \in Nat
      /\ latest[o].at \in Int /\ revision[o] \in Nat
  BY DEF TypeOK, Times, UpToDate, PageRead
<1>2. PICK at \in Int :
        /\ Recorded(o, at)
        /\ \/ Worked(o, at) \/ Revised(o, at) \/ Ruled(o, at) \/ Retried(o, at)
           \/ Synchronized(o, at)
  BY DEF Effect
<1>. HIDE DEF o
<1>3. CASE order[o].state = "NEEDS_REVIEW"
  <2>1. Revised(o, at) \/ (Ruled(o, at) /\ order'[o].state = "REJECTED")
    BY <1>2, <1>3 DEF Worked, Ruled, Retried, Synchronized
  <2>2. revision'[o] > page[a].revision \/ order'[o].state = "REJECTED"
    BY <1>1, <2>1 DEF Revised
  <2>. QED
    BY <1>1, <1>3, <2>2 DEF Superseded, o
<1>4. CASE order[o].state = "FAILED_RETRYABLE"
  <2>1. Retried(o, at)
    BY <1>2, <1>4 DEF Worked, Revised, Ruled, Synchronized
  <2>2. PICK b \in Operators : /\ pc[b] = "checked" /\ job[b] = o /\ StillCurrent(b)
                               /\ at = Gap * arrived[b] + 1
    BY <2>1 DEF Retried
  <2>3. page[b].audit = latest[o].id
    BY <2>2 DEF StillCurrent, PageTag, CurrentTag, ETag
  <2>4. latest[o].at < Gap * arrived[b] \/ (Synced(o) /\ latest[o].at < Now)
    BY <2>2, <2>3 DEF Commanding
  <2>5. Gap * arrived[b] \in Int
    <3>1. b \in Processes /\ arrived[b] \in Int /\ arrived[b] < arrived[b] + 1
      BY DEF TypeOK, Processes
    <3>. QED
      BY <3>1, ClockAssumption DEF Gap
  <2>6. Now \in Int /\ Now' \in Int /\ Now' >= Now
    BY NowFacts
  <2>. HIDE DEF Now
  <2>7. latest'[o].id > page[a].audit \/ (latest'[o] = latest[o] /\ Synced(o) /\ latest[o].at < Now)
    <3>1. CASE at > latest[o].at
      <4>1. latest'[o].id = generation[o] + 1
        BY <1>1, <1>2, <3>1 DEF Recorded
      <4>. QED
        BY <1>1, <4>1
    <3>2. CASE at <= latest[o].at
      <4>1. ~(latest[o].at < Gap * arrived[b])
        BY <1>1, <2>2, <2>5, <3>2
      <4>2. latest'[o] = latest[o]
        BY <1>1, <1>2, <3>2 DEF Recorded
      <4>. QED
        BY <2>4, <4>1, <4>2
    <3>. QED
      BY <1>1, <3>1, <3>2
  <2>8. Synced(o) => order'[o].state = "SYNCING"
    BY <1>4, <2>1 DEF Synced, Retried
  <2>9. latest'[o].id > page[a].audit \/ (order'[o].state = "SYNCING" /\ latest'[o].at < Now')
    BY <1>1, <2>6, <2>7, <2>8
  <2>. QED
    BY <1>1, <1>4, <2>9 DEF Superseded, o
<1>5. CASE order[o].state \notin {"NEEDS_REVIEW", "FAILED_RETRYABLE"}
  BY <1>1, <1>5 DEF Superseded
<1>. QED
  BY <1>3, <1>4, <1>5

\* A superseded page remains superseded.
LEMMA StillSuperseded ==
  ASSUME TypeOK, TypeOK', TimeMoves, NEW a \in Operators, Superseded(a),
         latest[job[a]].id <= generation[job[a]], page[a].audit <= latest[job[a]].id,
         NoEffect(job[a]) \/ Effect(job[a]),
         page'[a] = page[a], job'[a] = job[a]
  PROVE  Superseded(a)'
<1>. DEFINE o == job[a]
<1>1. /\ o \in Orders /\ order[o] \in Aggregates /\ page[a] \in Pages
      /\ Now \in Int /\ Now' \in Int /\ Now' >= Now
      /\ latest[o].id \in Nat /\ latest[o].at \in Int /\ generation[o] \in Nat
      /\ revision[o] \in Nat /\ revision'[o] \in Nat
  BY NowFacts DEF TypeOK
<1>2. page[a].audit \in Nat /\ page[a].revision \in Nat
  BY <1>1 DEF Pages
<1>. HIDE DEF o, Now
<1>3. CASE NoEffect(o)
  <2>1. order'[o] = order[o] /\ revision'[o] = revision[o] /\ latest'[o] = latest[o]
    BY <1>3 DEF NoEffect
  <2>2. latest[o].at < Now => latest[o].at < Now'
    BY <1>1
  <2>. QED
    BY <2>1, <2>2 DEF Superseded, o
<1>4. CASE Effect(o)
  <2>1. /\ latest'[o].id >= latest[o].id /\ latest'[o].id \in Int
        /\ revision'[o] >= revision[o]
    <3>1. latest[o].id <= generation[o]
      BY DEF o
    <3>2. latest'[o] \in [at : Int, id : Nat]
      BY <1>1 DEF TypeOK
    <3>3. latest'[o].id >= latest[o].id /\ revision'[o] >= revision[o]
      BY <1>1, <1>4, <3>1, EffectFacts
    <3>. QED
      BY <3>2, <3>3
  <2>2. PICK at \in Int :
          /\ Recorded(o, at)
          /\ \/ Worked(o, at) \/ Revised(o, at) \/ Ruled(o, at) \/ Retried(o, at)
             \/ Synchronized(o, at)
    BY <1>4 DEF Effect
  <2>3. page[a].order.state = "NEEDS_REVIEW" =>
          revision'[o] > page[a].revision \/ order'[o].state = "REJECTED"
    <3>1. order[o].state # "REJECTED"
      BY <2>2 DEF Worked, Revised, Ruled, Retried, Synchronized
    <3>2. page[a].order.state = "NEEDS_REVIEW" => revision[o] > page[a].revision
      BY <3>1 DEF Superseded, o
    <3>. QED
      BY <1>1, <1>2, <2>1, <3>2
  <2>4. page[a].order.state = "FAILED_RETRYABLE" => latest'[o].id > page[a].audit
    <3>1. ASSUME order[o].state = "SYNCING", latest[o].at < Now
          PROVE  latest'[o].id > page[a].audit
      <4>1. at = Now
        BY <2>2, <3>1 DEF Worked, Revised, Ruled, Retried, Synchronized
      <4>2. latest'[o].id = generation[o] + 1
        BY <1>1, <2>2, <3>1, <4>1 DEF Recorded
      <4>3. page[a].audit <= latest[o].id /\ latest[o].id <= generation[o]
        BY DEF o
      <4>. QED
        BY <1>1, <1>2, <4>2, <4>3
    <3>2. ASSUME latest[o].id > page[a].audit PROVE latest'[o].id > page[a].audit
      BY <1>1, <1>2, <2>1, <3>2
    <3>. QED
      BY <3>1, <3>2 DEF Superseded, o
  <2>. QED
    BY <2>3, <2>4 DEF Superseded, o
<1>. QED
  BY <1>3, <1>4 DEF o

AtWork == {"sent", "prechecked", "checked", "decided", "locked"}

\* A page that is kept says no less after a commit, or after none.
LEMMA ReadingKept ==
  ASSUME TypeOK, TypeOK', Times, TimeMoves, \A b \in Operators : Reading(b) /\ Commanding(b),
         NEW a \in Operators, NoEffect(job[a]) \/ Effect(job[a]),
         page'[a] = page[a], job'[a] = job[a],
         pc'[a] = pc[a] \/ (PageRead(a) /\ PageRead(a)')
  PROVE  Reading(a)'
<1>. PICK o \in Orders : o = job[a] /\ o = job'[a]
  BY DEF TypeOK
<1>1. /\ o \in Orders /\ page[a] \in Pages /\ generation[o] \in Nat /\ latest[o].id \in Nat
      /\ latest[o].id <= generation[o]
  BY DEF TypeOK, Times
<1>2. page[a].opened \in Nat /\ page[a].audit \in Nat
  BY <1>1 DEF Pages
<1>3. SUFFICES ASSUME pc'[a] # "idle" PROVE Reading(a)'
  BY DEF Reading
<1>4. /\ pc[a] # "idle" /\ (PageRead(a)' <=> PageRead(a))
      /\ (PageIsWhole(a)' <=> PageIsWhole(a))
  BY <1>3 DEF PageRead, PageIsWhole
<1>5. Reading(a)
  OBVIOUS
<1>6. CASE NoEffect(o)
  <2>1. /\ order'[o] = order[o] /\ revision'[o] = revision[o] /\ written'[o] = written[o]
        /\ generation'[o] = generation[o] /\ latest'[o] = latest[o]
    BY <1>6 DEF NoEffect
  <2>2. UpToDate(a) => UpToDate(a)'
    BY <1>4, <2>1 DEF UpToDate, PageRead
  <2>3. RuledOn(o) => RuledOn(o)'
    BY <2>1 DEF RuledOn
  <2>4. ASSUME PageIsWhole(a), Superseded(a) PROVE Superseded(a)'
    <3>1. page[a].audit <= latest[o].id
      BY <1>4, <1>5, <2>4 DEF Reading, PageIsWhole, PageRead
    <3>. QED
      BY <1>1, <1>6, <2>4, <3>1, StillSuperseded
  <2>. QED
    BY <1>4, <1>5, <2>1, <2>2, <2>3, <2>4 DEF Reading
<1>7. CASE Effect(o)
  <2>1. /\ generation'[o] = generation[o] + 1 /\ latest'[o].id >= latest[o].id
        /\ RuledOn(o) => RuledOn(o)'
    BY <1>1, <1>7, EffectFacts
  <2>2. latest'[o].id \in Nat
    BY <1>1 DEF TypeOK
  <2>3. page[a].opened <= generation'[o] /\ page[a].opened # generation'[o]
    BY <1>1, <1>2, <1>4, <1>5, <2>1 DEF Reading
  <2>4. ASSUME page[a].order.state = "READY_FOR_APPROVAL" PROVE RuledOn(o)'
    <3>1. CASE page[a].opened = generation[o]
      <4>1. order[o].state = "READY_FOR_APPROVAL"
        BY <1>4, <1>5, <2>4, <3>1 DEF Reading, UpToDate
      <4>2. order'[o].state \in {"APPROVED", "REJECTED"}
        BY <1>7, <4>1 DEF Effect, Worked, Revised, Ruled, Retried, Synchronized
      <4>. QED
        BY <4>2 DEF RuledOn
    <3>2. CASE page[a].opened # generation[o]
      <4>1. page[a].opened < generation[o]
        BY <1>1, <1>2, <1>4, <1>5, <3>2 DEF Reading
      <4>. QED
        BY <1>4, <1>5, <2>1, <2>4, <4>1 DEF Reading
    <3>. QED
      BY <3>1, <3>2
  <2>5. PageRead(a) => page[a].audit <= latest'[o].id
    BY <1>1, <1>2, <1>4, <1>5, <2>1, <2>2 DEF Reading
  <2>6. ASSUME PageIsWhole(a) PROVE Superseded(a)'
    <3>1. PageRead(a)
      BY <2>6 DEF PageIsWhole, PageRead
    <3>2. CASE page[a].opened = generation[o]
      <4>1. UpToDate(a)
        BY <1>4, <1>5, <3>2 DEF Reading
      <4>. QED
        BY <1>7, <3>1, <4>1, FirstCommit
    <3>3. CASE page[a].opened # generation[o]
      <4>1. page[a].opened < generation[o]
        BY <1>1, <1>2, <1>4, <1>5, <3>3 DEF Reading
      <4>2. Superseded(a) /\ page[a].audit <= latest[o].id
        BY <1>4, <1>5, <2>6, <3>1, <4>1 DEF Reading
      <4>. QED
        BY <1>1, <1>7, <4>2, StillSuperseded
    <3>. QED
      BY <3>2, <3>3
  <2>. QED
    BY <1>4, <2>3, <2>4, <2>5, <2>6 DEF Reading
<1>. QED
  BY <1>6, <1>7

\* A command under way stays newer than the event on its page.
LEMMA CommandingKept ==
  ASSUME TypeOK, TypeOK', Times, TimeMoves,
         NEW a \in Operators, Reading(a), Commanding(a), NoEffect(job[a]) \/ Effect(job[a]),
         page'[a] = page[a], job'[a] = job[a],
         pc'[a] \in AtWork => pc[a] \in AtWork /\ arrived'[a] = arrived[a]
  PROVE  Commanding(a)'
<1>. PICK o \in Orders : o = job[a] /\ o = job'[a]
  BY DEF TypeOK
<1>1. /\ o \in Orders /\ page[a] \in Pages /\ generation[o] \in Nat /\ latest[o].id \in Nat
      /\ latest[o].id <= generation[o] /\ latest[o].at \in Int
      /\ Now \in Int /\ Now' \in Int /\ Now' >= Now
  BY NowFacts DEF TypeOK, Times
<1>2. page[a].audit \in Nat
  BY <1>1 DEF Pages
<1>. HIDE DEF Now
<1>3. SUFFICES ASSUME pc'[a] \in AtWork, page[a].audit = latest'[o].id
               PROVE  \/ latest'[o].at < Gap * arrived[a]
                      \/ Synced(o)' /\ latest'[o].at < Now'
  BY DEF Commanding, AtWork
<1>4. pc[a] \in AtWork /\ page[a].audit <= latest[o].id
  BY <1>3 DEF Reading, PageRead, AtWork
<1>5. latest'[o] = latest[o] /\ (Synced(o) => Synced(o)')
  <2>1. CASE NoEffect(o)
    BY <2>1 DEF NoEffect, Synced
  <2>2. CASE Effect(o)
    <3>1. latest'[o] = latest[o] \/ latest'[o].id = generation[o] + 1
      BY <1>1, <2>2, EffectFacts
    <3>2. latest'[o].id # generation[o] + 1
      BY <1>1, <1>2, <1>3, <1>4
    <3>. QED
      BY <1>1, <2>2, <3>1, <3>2, EffectFacts
  <2>. QED
    BY <2>1, <2>2
<1>6. \/ latest[o].at < Gap * arrived[a]
      \/ Synced(o) /\ latest[o].at < Now
  BY <1>3, <1>4, <1>5 DEF Commanding, AtWork
<1>. QED
  BY <1>1, <1>5, <1>6

Tags == Times /\ \A a \in Operators : Reading(a) /\ Commanding(a)

\* An operator reads a page, sends a command, and the command is checked.
LEMMA OperatorTags ==
  ASSUME TypeOK, TypeOK', Tags, NEW a \in Operators,
         \/ OpenPage(a) \/ ReadIssues(a) \/ ReadRevision(a) \/ ReadLatestAudit(a)
         \/ Send(a) \/ ReadBase(a) \/ Precheck(a)
  PROVE  Tags'
<1>1. /\ UNCHANGED db /\ skew' = skew /\ syncs' = syncs /\ clock \in Nat
      /\ \/ clock' = clock /\ arrived' = arrived
         \/ Send(a) /\ clock' = clock + 1 /\ arrived' = [arrived EXCEPT ![a] = clock + 1]
  BY OperatorTypes
     DEF OpenPage, ReadIssues, ReadRevision, ReadLatestAudit, Send, ReadBase, Precheck, time, TypeOK
<1>2. TimeMoves
  BY <1>1 DEF TimeMoves
<1>3. \A o \in Orders : NoEffect(o)
  BY <1>1 DEF NoEffect, db
<1>4. arrived \in [Processes -> Nat] /\ a \in Processes
  BY DEF TypeOK, Processes
<1>5. \A x \in Processes : arrived'[x] <= clock'
  BY <1>1, <1>4 DEF Tags, Times
<1>6. Times'
  BY <1>2, <1>3, <1>5, TimesStep DEF Tags
<1>7. ASSUME NEW b \in Operators, b # a PROVE Reading(b)' /\ Commanding(b)'
  <2>1. /\ page'[b] = page[b] /\ job'[b] = job[b] /\ pc'[b] = pc[b] /\ arrived'[b] = arrived[b]
    <3>1. /\ page \in [Operators -> Pages] /\ job \in [Operators -> Orders]
          /\ pc \in [Processes -> Places] /\ b \in Processes /\ a \in Processes
      BY DEF TypeOK, Processes
    <3>2. arrived'[b] = arrived[b]
      BY <1>1, <1>4, <1>7, <3>1
    <3>3. \E place : pc' = [pc EXCEPT ![a] = place]
      BY DEF OpenPage, ReadIssues, ReadRevision, ReadLatestAudit, Send, ReadBase, Precheck, GoTo
    <3>4. job' = job \/ \E o \in Orders : job' = [job EXCEPT ![a] = o]
      BY DEF OpenPage, ReadIssues, ReadRevision, ReadLatestAudit, Send, ReadBase, Precheck, operator
    <3>5. page'[b] = page[b]
      BY <1>7, <3>1
         DEF OpenPage, ReadIssues, ReadRevision, ReadLatestAudit, Send, ReadBase, Precheck, operator
    <3>. QED
      BY <1>7, <3>1, <3>2, <3>3, <3>4, <3>5
  <2>2. job[b] \in Orders
    BY DEF TypeOK
  <2>. QED
    BY <1>2, <1>3, <2>1, <2>2, ReadingKept, CommandingKept DEF Tags
<1>8. Reading(a)' /\ Commanding(a)'
  <2>1. /\ job[a] \in Orders /\ page[a] \in Pages /\ order \in [Orders -> Aggregates]
        /\ generation \in [Orders -> Nat] /\ latest \in [Orders -> [at : Int, id : Nat]]
        /\ pc \in [Processes -> Places] /\ page \in [Operators -> Pages]
        /\ job \in [Operators -> Orders]
    BY DEF TypeOK
  <2>2. Reading(a) /\ Commanding(a)
    BY DEF Tags
  <2>3. CASE OpenPage(a)
    <3>1. PICK o \in Orders :
            /\ job' = [job EXCEPT ![a] = o]
            /\ page' = [page EXCEPT ![a] = [NoPage EXCEPT !.order = order[o],
                                                          !.opened = generation[o]]]
      BY <2>3 DEF OpenPage
    <3>2. /\ job'[a] = o /\ page'[a].order = order[o] /\ page'[a].opened = generation[o]
          /\ pc'[a] = "read issues"
      BY <1>4, <2>1, <2>3, <3>1 DEF OpenPage, GoTo, NoPage
    <3>3. order'[o] = order[o] /\ generation'[o] = generation[o] /\ generation[o] \in Nat
      BY <1>3, <2>1 DEF NoEffect
    <3>4. UpToDate(a)' /\ ~PageRead(a)' /\ ~PageIsWhole(a)'
      BY <3>2, <3>3 DEF UpToDate, PageRead, PageIsWhole
    <3>5. page'[a].opened = generation'[job'[a]] /\ page'[a].opened \in Nat
      BY <3>2, <3>3
    <3>6. Reading(a)'
      BY <3>4, <3>5 DEF Reading
    <3>7. Commanding(a)'
      BY <3>2 DEF Commanding
    <3>. QED
      BY <3>6, <3>7
  <2>4. CASE ReadIssues(a) \/ ReadRevision(a) \/ ReadLatestAudit(a)
    <3>. PICK o \in Orders : o = job[a] /\ o = job'[a]
      BY <2>1, <2>4 DEF ReadIssues, ReadRevision, ReadLatestAudit
    <3>1. /\ order'[o] = order[o] /\ generation'[o] = generation[o] /\ generation[o] \in Nat
          /\ latest'[o] = latest[o] /\ written'[o] = written[o] /\ revision'[o] = revision[o]
          /\ latest[o].id \in Nat
      BY <1>3, <2>1 DEF NoEffect
    <3>2. /\ page'[a].order = page[a].order /\ page'[a].opened = page[a].opened
          /\ pc[a] # "idle" /\ ~PageRead(a)
          /\ \/ pc[a] = "read issues" /\ pc'[a] = "read revision" /\ page'[a].issues = written[o]
             \/ /\ pc[a] = "read revision" /\ pc'[a] = "read audit"
                /\ page'[a].issues = page[a].issues /\ page'[a].revision = revision[o]
             \/ /\ pc[a] = "read audit" /\ pc'[a] = "page"
                /\ page'[a].issues = page[a].issues /\ page'[a].revision = page[a].revision
                /\ page'[a].audit = latest[o].id /\ page'[a].generation = generation[o]
      <4>1. CASE ReadIssues(a)
        <5>1. /\ page'[a] = [page[a] EXCEPT !.issues = written[o]]
              /\ pc[a] = "read issues" /\ pc'[a] = "read revision"
          BY <1>4, <2>1, <4>1 DEF ReadIssues, GoTo
        <5>. QED
          BY <2>1, <5>1 DEF Pages, PageRead
      <4>2. CASE ReadRevision(a)
        <5>1. /\ page'[a] = [page[a] EXCEPT !.revision = revision[o]]
              /\ pc[a] = "read revision" /\ pc'[a] = "read audit"
          BY <1>4, <2>1, <4>2 DEF ReadRevision, GoTo
        <5>. QED
          BY <2>1, <5>1 DEF Pages, PageRead
      <4>3. CASE ReadLatestAudit(a)
        <5>1. /\ page'[a] = [page[a] EXCEPT !.audit = latest[o].id, !.generation = generation[o]]
              /\ pc[a] = "read audit" /\ pc'[a] = "page"
          BY <1>4, <2>1, <4>3 DEF ReadLatestAudit, GoTo
        <5>. QED
          BY <2>1, <5>1 DEF Pages, PageRead
      <4>. QED
        BY <2>4, <4>1, <4>2, <4>3
    <3>3. RuledOn(o)' <=> RuledOn(o)
      BY <3>1 DEF RuledOn
    <3>4. /\ page[a].opened <= generation[o]
          /\ page[a].opened = generation[o] => UpToDate(a)
          /\ page[a].opened < generation[o] /\ page[a].order.state = "READY_FOR_APPROVAL" =>
               RuledOn(o)
      BY <2>2, <3>2 DEF Reading
    <3>5. UpToDate(a) => UpToDate(a)'
      BY <3>1, <3>2 DEF UpToDate, PageRead
    <3>6. PageRead(a)' => pc'[a] = "page" /\ page'[a].audit = latest[o].id
                          /\ page'[a].generation = generation[o]
      BY <3>2 DEF PageRead
    <3>7. page[a].opened \in Nat
      BY <2>1 DEF Pages
    <3>8. PageIsWhole(a)' => page[a].opened = generation[o]
      BY <3>2, <3>6 DEF PageIsWhole, PageRead
    <3>9. Reading(a)'
      <4>1. page'[a].opened = page[a].opened /\ page'[a].order.state = page[a].order.state
        BY <3>2
      <4>2. page'[a].opened <= generation'[o]
            /\ (page'[a].opened = generation'[o] => UpToDate(a)')
        BY <3>1, <3>4, <3>5, <4>1
      <4>3. page'[a].opened < generation'[o] /\ page'[a].order.state = "READY_FOR_APPROVAL"
              => RuledOn(o)'
        BY <3>1, <3>3, <3>4, <4>1
      <4>4. PageRead(a)' => page'[a].audit <= latest'[o].id
        BY <3>1, <3>6
      <4>5. ~(PageIsWhole(a)' /\ page'[a].opened < generation'[o])
        BY <3>1, <3>7, <3>8, <4>1
      <4>. QED
        BY <4>2, <4>3, <4>4, <4>5 DEF Reading
    <3>10. Commanding(a)'
      BY <3>2 DEF Commanding
    <3>. QED
      BY <3>9, <3>10
  <2>5. CASE Send(a)
    <3>1. /\ page'[a] = page[a] /\ job'[a] = job[a] /\ pc[a] = "page" /\ pc'[a] = "sent"
          /\ arrived'[a] = clock + 1
      BY <1>4, <2>1, <2>5 DEF Send, GoTo
    <3>2. Reading(a)'
      BY <1>2, <1>3, <2>1, <3>1, ReadingKept DEF Tags, PageRead
    <3>3. Commanding(a)'
      <4>. PICK o \in Orders : o = job[a] /\ o = job'[a]
        BY <2>1, <3>1
      <4>1. latest'[o] = latest[o] /\ (Synced(o)' <=> Synced(o)) /\ Now \in Int /\ Now' \in Int
            /\ Now' >= Now /\ latest[o].at \in Int
        BY <1>2, <1>3, <2>1, NowFacts DEF NoEffect, Synced
      <4>2. latest[o].at < Gap * (clock + 1) \/ (Synced(o) /\ latest[o].at < Now)
        BY DEF Tags, Times
      <4>. HIDE DEF Now
      <4>3. latest[o].at < Gap * (clock + 1) \/ (Synced(o) /\ latest[o].at < Now')
        BY <4>1, <4>2
      <4>. QED
        BY <3>1, <4>1, <4>3 DEF Commanding
    <3>. QED
      BY <3>2, <3>3
  <2>6. CASE ReadBase(a) \/ Precheck(a)
    <3>1. /\ page'[a] = page[a] /\ job'[a] = job[a] /\ pc[a] \in AtWork /\ pc'[a] \in AtWork
          /\ arrived'[a] = arrived[a]
      BY <1>4, <2>1, <2>6 DEF ReadBase, Precheck, GoTo, AtWork, operator
    <3>2. PageRead(a) /\ PageRead(a)'
      BY <3>1 DEF PageRead, AtWork
    <3>. QED
      BY <1>2, <1>3, <2>1, <2>2, <3>1, <3>2, ReadingKept, CommandingKept DEF Tags
  <2>. QED
    BY <2>3, <2>4, <2>5, <2>6
<1>. QED
  BY <1>6, <1>7, <1>8 DEF Tags

\* All other steps leave the pages alone, and at most end a command.
LEMMA OtherTags ==
  ASSUME TypeOK, TypeOK', Tags, TimeMoves, UNCHANGED <<job, page>>,
         \A o \in Orders : NoEffect(o) \/ (Effect(o) /\ clock' = clock),
         \A x \in Processes : arrived'[x] \in {arrived[x], 0, clock'},
         \A a \in Operators :
           \/ pc'[a] = pc[a] /\ arrived'[a] = arrived[a]
           \/ pc[a] \in AtWork /\ pc'[a] = "page"
           \/ pc[a] \in AtWork /\ pc'[a] \in AtWork /\ arrived'[a] = arrived[a]
  PROVE  Tags'
<1>1. Times'
  <2>1. \A x \in Processes : arrived[x] <= clock /\ arrived[x] \in Nat
    BY DEF Tags, Times, TypeOK
  <2>2. clock \in Nat /\ clock' \in Nat /\ clock' >= clock
    BY DEF TypeOK, TimeMoves
  <2>3. \A x \in Processes : arrived'[x] <= clock'
    BY <2>1, <2>2
  <2>. QED
    BY <2>3, TimesStep DEF Tags
<1>2. ASSUME NEW a \in Operators PROVE Reading(a)' /\ Commanding(a)'
  <2>1. /\ job[a] \in Orders /\ page'[a] = page[a] /\ job'[a] = job[a]
        /\ NoEffect(job[a]) \/ Effect(job[a])
    BY DEF TypeOK
  <2>2. pc'[a] = pc[a] \/ (PageRead(a) /\ PageRead(a)')
    BY DEF PageRead, AtWork
  <2>3. pc'[a] \in AtWork => pc[a] \in AtWork /\ arrived'[a] = arrived[a]
    BY DEF AtWork
  <2>. QED
    BY <2>1, <2>2, <2>3, ReadingKept, CommandingKept DEF Tags
<1>. QED
  BY <1>1, <1>2 DEF Tags

\* A locked transaction has its order to itself, in the state it has checked.
Locking ==
  /\ \A x \in Processes : pc[x] = "locked" =>
       /\ Subject(x) \in locked
       /\ order[Subject(x)].state = IF x \in Orders THEN "EXTRACTED" ELSE "NEEDS_REVIEW"
       /\ x \in Operators => StillCurrent(x)
  /\ \A x, y \in Processes :
       pc[x] = "locked" /\ pc[y] = "locked" /\ Subject(x) = Subject(y) => x = y

\* An order has a snapshot once it has left extraction, and no purchase before
\* it has left review.
Snapshots ==
  \A o \in Orders :
    /\ Extracting(o) \/ order[o].state = "NEEDS_REVIEW" => purchase[o] = NoPurchase
    /\ ~Extracting(o) => HasSnapshot(o)

Contradicts(q, x) ==
  \/ purchase[q] = ruling[x].purchase
  \/ HasSnapshot(q) /\ document[q] = document[Subject(x)]

\* What contradicts a promotion under way was committed by a transaction that
\* overlaps it.
Watching ==
  /\ \A x \in Processes :
       pc[x] \in {"decided", "locked"} => ErrorsOf(ruling[x].facts) \subseteq ruling[x].issues
  /\ \A x, y \in Processes :
       x # y /\ pc[x] = "locked" /\ pc[y] = "locked" => {Subject(x), Subject(y)} \in overlapped
  /\ \A x \in Processes : pc[x] = "locked" /\ ruling[x].issues = {} =>
       \A q \in Orders \ {Subject(x)} : Contradicts(q, x) => {Subject(x), q} \in overlapped

Exclusion == Locking /\ Snapshots /\ Watching /\ ConflictsNeedOverlap

\* Steps that take no lock, and commit on orders that are not locked.
LEMMA FreeStep ==
  ASSUME TypeOK, TypeOK', Exclusion,
         UNCHANGED <<document, purchase, processed, locked, overlapped>>,
         \A o \in Orders : NoEffect(o) \/ o \notin locked,
         \A o \in Orders :
           /\ Extracting(o)' \/ order'[o].state = "NEEDS_REVIEW" =>
                Extracting(o) \/ order[o].state = "NEEDS_REVIEW"
           /\ Extracting(o) => Extracting(o)',
         \A x \in Processes :
           /\ pc'[x] = "locked" =>
                /\ pc[x] = "locked" /\ ruling'[x] = ruling[x]
                /\ x \in Operators => job'[x] = job[x] /\ page'[x] = page[x]
           /\ pc'[x] = "decided" =>
                \/ pc[x] = "decided" /\ ruling'[x] = ruling[x]
                \/ ErrorsOf(ruling'[x].facts) \subseteq ruling'[x].issues
  PROVE  Exclusion'
<1>1. ASSUME NEW x \in Processes, pc'[x] = "locked"
      PROVE  /\ pc[x] = "locked" /\ ruling'[x] = ruling[x] /\ Subject(x)' = Subject(x)
             /\ Subject(x) \in Orders /\ Subject(x) \in locked /\ NoEffect(Subject(x))
  <2>1. pc[x] = "locked" /\ ruling'[x] = ruling[x] /\ Subject(x) \in Orders
    BY <1>1, SubjectFacts
  <2>2. Subject(x) \in locked
    BY <2>1 DEF Exclusion, Locking
  <2>3. x \in Operators => job'[x] = job[x]
    BY <1>1
  <2>4. Subject(x)' = Subject(x)
    BY <2>3 DEF Subject, Processes
  <2>. QED
    BY <2>1, <2>2, <2>4
<1>2. Locking'
  <2>1. ASSUME NEW x \in Processes, pc'[x] = "locked"
        PROVE  /\ Subject(x)' \in locked'
               /\ order'[Subject(x)'].state = IF x \in Orders THEN "EXTRACTED" ELSE "NEEDS_REVIEW"
               /\ x \in Operators => StillCurrent(x)'
    <3>1. /\ order[Subject(x)].state = (IF x \in Orders THEN "EXTRACTED" ELSE "NEEDS_REVIEW")
          /\ x \in Operators => StillCurrent(x)
      BY <1>1, <2>1 DEF Exclusion, Locking
    <3>2. order'[Subject(x)] = order[Subject(x)]
      BY <1>1, <2>1 DEF NoEffect
    <3>3. ASSUME x \in Operators PROVE StillCurrent(x)'
      <4>. PICK o \in Orders : o = job[x] /\ o = job'[x]
        BY <2>1, <3>3 DEF TypeOK
      <4>1. o = Subject(x)
        BY <3>3, SubjectFacts
      <4>2. order'[o] = order[o] /\ revision'[o] = revision[o] /\ latest'[o] = latest[o]
        BY <1>1, <2>1, <4>1 DEF NoEffect
      <4>3. page'[x] = page[x]
        BY <2>1, <3>3
      <4>. QED
        BY <3>1, <3>3, <4>2, <4>3 DEF StillCurrent, PageTag, CurrentTag
    <3>. QED
      BY <1>1, <2>1, <3>1, <3>2, <3>3
  <2>2. ASSUME NEW x \in Processes, NEW y \in Processes, pc'[x] = "locked", pc'[y] = "locked",
               Subject(x)' = Subject(y)'
        PROVE  x = y
    BY <1>1, <2>2 DEF Exclusion, Locking
  <2>. QED
    BY <2>1, <2>2 DEF Locking
<1>3. \A o \in Orders : HasSnapshot(o)' <=> HasSnapshot(o)
  BY DEF HasSnapshot
<1>4. Snapshots'
  BY <1>3 DEF Exclusion, Snapshots
<1>5. Watching'
  <2>1. ASSUME NEW x \in Processes, pc'[x] \in {"decided", "locked"}
        PROVE  ErrorsOf(ruling'[x].facts) \subseteq ruling'[x].issues
    <3>1. CASE pc[x] \in {"decided", "locked"} /\ ruling'[x] = ruling[x]
      BY <3>1 DEF Exclusion, Watching
    <3>. QED
      BY <2>1, <3>1
  <2>2. ASSUME NEW x \in Processes, NEW y \in Processes, x # y,
               pc'[x] = "locked", pc'[y] = "locked"
        PROVE  {Subject(x)', Subject(y)'} \in overlapped'
    BY <1>1, <2>2 DEF Exclusion, Watching
  <2>3. ASSUME NEW x \in Processes, pc'[x] = "locked", ruling'[x].issues = {},
               NEW q \in Orders \ {Subject(x)'}, Contradicts(q, x)'
        PROVE  {Subject(x)', q} \in overlapped'
    <3>1. Contradicts(q, x)
      BY <1>1, <1>3, <2>3 DEF Contradicts
    <3>. QED
      BY <1>1, <2>3, <3>1 DEF Exclusion, Watching
  <2>. QED
    BY <2>1, <2>2, <2>3 DEF Watching
<1>6. ConflictsNeedOverlap'
  BY DEF Exclusion, ConflictsNeedOverlap, Ready, Conflicting
<1>. QED
  BY <1>2, <1>4, <1>5, <1>6 DEF Exclusion

\* A request gives up, and takes its lock with it.
LEMMA GiveUpStep ==
  ASSUME TypeOK, TypeOK', Exclusion, NEW x \in Processes, GiveUp(x)
  PROVE  Exclusion'
<1>1. /\ locked' = (IF pc[x] = "locked" THEN locked \ {Subject(x)} ELSE locked) /\ Leave(x)
      /\ UNCHANGED db /\ UNCHANGED overlapped
  BY DEF GiveUp
<1>2. /\ pc'[x] \in {"page", "idle"} /\ UNCHANGED <<job, page>>
      /\ \A y \in Processes \ {x} : pc'[y] = pc[y] /\ ruling'[y] = ruling[y]
  BY <1>1, LeaveFacts
<1>3. \A y \in Processes : Subject(y)' = Subject(y)
  BY <1>2 DEF Subject
<1>4. ASSUME NEW y \in Processes, pc'[y] = "locked" PROVE y # x /\ Subject(y) \in locked'
  <2>1. y # x /\ pc[y] = "locked"
    BY <1>2, <1>4
  <2>2. Subject(y) \in locked /\ (pc[x] = "locked" => Subject(y) # Subject(x))
    BY <2>1 DEF Exclusion, Locking
  <2>. QED
    BY <1>1, <2>1, <2>2
<1>5. Locking'
  <2>1. ASSUME NEW y \in Processes, pc'[y] = "locked"
        PROVE  /\ Subject(y)' \in locked'
               /\ order'[Subject(y)'].state = IF y \in Orders THEN "EXTRACTED" ELSE "NEEDS_REVIEW"
               /\ y \in Operators => StillCurrent(y)'
    <3>1. pc[y] = "locked"
      BY <1>2, <1>4, <2>1
    <3>2. StillCurrent(y) => StillCurrent(y)'
      BY <1>1, <1>2 DEF StillCurrent, PageTag, CurrentTag, db
    <3>. QED
      BY <1>1, <1>3, <1>4, <2>1, <3>1, <3>2 DEF Exclusion, Locking, db
  <2>2. ASSUME NEW y \in Processes, NEW z \in Processes, pc'[y] = "locked", pc'[z] = "locked",
               Subject(y)' = Subject(z)'
        PROVE  y = z
    BY <1>2, <1>3, <1>4, <2>2 DEF Exclusion, Locking
  <2>. QED
    BY <2>1, <2>2 DEF Locking
<1>6. Snapshots' /\ ConflictsNeedOverlap'
  BY <1>1 DEF Exclusion, Snapshots, ConflictsNeedOverlap, Ready, Conflicting, HasSnapshot,
              Extracting, db
<1>7. Watching'
  <2>1. ASSUME NEW y \in Processes, pc'[y] \in {"decided", "locked"}
        PROVE  /\ y # x /\ pc'[y] = pc[y] /\ ruling'[y] = ruling[y]
    BY <1>2, <2>1
  <2>2. \A q \in Orders, y \in Processes \ {x} : Contradicts(q, y)' <=> Contradicts(q, y)
    BY <1>1, <1>2, <1>3 DEF Contradicts, HasSnapshot, db
  <2>. QED
    BY <1>1, <1>3, <2>1, <2>2 DEF Exclusion, Watching
<1>. QED
  BY <1>5, <1>6, <1>7 DEF Exclusion

\* A transaction takes the lock of its order.  The facts it finds are those it
\* has decided on, so nothing on file contradicts it, and all that are locked
\* now overlap it.
LEMMA LockStep ==
  ASSUME TypeOK, TypeOK', Exclusion, NEW x \in Processes, LockAndRecheck(x)
  PROVE  Exclusion'
<1>. PICK o \in Orders : o = Subject(x)
  BY SubjectFacts
<1>1. /\ pc[x] = "decided" /\ o \notin locked /\ FactsStand(x)
      /\ IF x \in Orders THEN order[o].state = "EXTRACTED" /\ ~HasSnapshot(o)
         ELSE order[o].state = "NEEDS_REVIEW" /\ StillCurrent(x)
      /\ locked' = locked \cup {o} /\ pc' = [pc EXCEPT ![x] = "locked"]
      /\ overlapped' = {pair \in overlapped : o \notin pair} \cup {{o, p} : p \in locked}
      /\ UNCHANGED db /\ UNCHANGED ruling /\ UNCHANGED operator
  BY DEF LockAndRecheck, GoTo
<1>2. /\ \A y \in Processes \ {x} : pc'[y] = pc[y]
      /\ pc'[x] = "locked"
  BY <1>1 DEF TypeOK
<1>3. /\ \A y \in Processes : Subject(y)' = Subject(y) /\ Subject(y) \in Orders
      /\ \A q \in Orders, y \in Processes : Contradicts(q, y)' <=> Contradicts(q, y)
      /\ \A y \in Processes : StillCurrent(y)' <=> StillCurrent(y)
      /\ ruling' = ruling /\ order' = order /\ purchase' = purchase
  BY <1>1, SubjectFacts
     DEF Subject, Contradicts, HasSnapshot, StillCurrent, PageTag, CurrentTag, operator, db
<1>4. ASSUME NEW y \in Processes, y # x, pc[y] = "locked"
      PROVE  Subject(y) \in locked /\ Subject(y) # o
  BY <1>1, <1>4 DEF Exclusion, Locking
<1>5. Locking'
  <2>1. ASSUME NEW y \in Processes, pc'[y] = "locked"
        PROVE  /\ Subject(y)' \in locked'
               /\ order'[Subject(y)'].state = IF y \in Orders THEN "EXTRACTED" ELSE "NEEDS_REVIEW"
               /\ y \in Operators => StillCurrent(y)'
    <3>1. CASE y = x
      BY <1>1, <1>3, <3>1, SubjectFacts
    <3>2. CASE y # x
      <4>1. pc[y] = "locked"
        BY <1>2, <2>1, <3>2
      <4>. QED
        BY <1>1, <1>3, <4>1 DEF Exclusion, Locking
    <3>. QED
      BY <3>1, <3>2
  <2>2. ASSUME NEW y \in Processes, NEW z \in Processes, pc'[y] = "locked", pc'[z] = "locked",
               Subject(y)' = Subject(z)'
        PROVE  y = z
    <3>1. (y # x => Subject(y) # o /\ pc[y] = "locked") /\ (z # x => Subject(z) # o /\ pc[z] = "locked")
      BY <1>2, <1>4, <2>2
    <3>. QED
      BY <1>3, <2>2, <3>1 DEF Exclusion, Locking
  <2>. QED
    BY <2>1, <2>2 DEF Locking
<1>6. Snapshots' /\ purchase[o] = NoPurchase
  BY <1>1 DEF Exclusion, Snapshots, HasSnapshot, Extracting, db
<1>7. ConflictsNeedOverlap'
  <2>1. ASSUME NEW p \in Orders, NEW q \in Orders, p # q, Ready(p)', Ready(q)', Conflicting(p, q)'
        PROVE  {p, q} \in overlapped'
    <3>1. p # o /\ q # o /\ Ready(p) /\ Ready(q) /\ Conflicting(p, q)
      BY <1>1, <1>6, <2>1 DEF Ready, Conflicting, db
    <3>2. {p, q} \in overlapped
      BY <2>1, <3>1 DEF Exclusion, ConflictsNeedOverlap
    <3>. QED
      BY <1>1, <3>1, <3>2
  <2>. QED
    BY <2>1 DEF ConflictsNeedOverlap
<1>8. Watching'
  <2>1. \A y \in Processes :
          pc'[y] \in {"decided", "locked"} => ErrorsOf(ruling'[y].facts) \subseteq ruling'[y].issues
    BY <1>1, <1>2, <1>3 DEF Exclusion, Watching
  <2>2. ASSUME NEW y \in Processes, NEW z \in Processes, y # z, pc'[y] = "locked", pc'[z] = "locked"
        PROVE  {Subject(y), Subject(z)} \in overlapped'
    <3>1. CASE y = x
      BY <1>1, <1>2, <1>4, <2>2, <3>1
    <3>2. CASE z = x
      <4>1. {o, Subject(y)} \in overlapped'
        BY <1>1, <1>2, <1>4, <2>2, <3>2
      <4>2. {o, Subject(y)} = {Subject(y), Subject(z)}
        BY <3>2
      <4>. QED
        BY <4>1, <4>2
    <3>3. CASE y # x /\ z # x
      <4>1. Subject(y) # o /\ Subject(z) # o /\ {Subject(y), Subject(z)} \in overlapped
        BY <1>2, <1>4, <2>2, <3>3 DEF Exclusion, Watching
      <4>. QED
        BY <1>1, <4>1
    <3>. QED
      BY <3>1, <3>2, <3>3
  <2>3. ASSUME NEW y \in Processes, pc'[y] = "locked", ruling[y].issues = {},
               NEW q \in Orders \ {Subject(y)}, Contradicts(q, y)
        PROVE  {Subject(y), q} \in overlapped'
    <3>1. CASE y = x
      <4>1. ErrorsOf(ruling[x].facts) \subseteq {}
        BY <1>1, <2>3, <3>1 DEF Exclusion, Watching
      <4>2. /\ ~ruling[x].facts.duplicate_customer_po
            /\ ~ruling[x].facts.document_already_processed
        BY <4>1 DEF ErrorsOf
      <4>3. Facts(o, ruling[x].purchase) = ruling[x].facts
        BY <1>1 DEF FactsStand
      <4>4. /\ ~\E r \in Orders \ {o} : purchase[r] = ruling[x].purchase
            /\ ~\E r \in Orders \ {o} : HasSnapshot(r) /\ document[r] = document[o]
        BY <4>2, <4>3 DEF Facts
      <4>. QED
        BY <2>3, <3>1, <4>4 DEF Contradicts
    <3>2. CASE y # x
      <4>1. pc[y] = "locked" /\ Subject(y) \in locked /\ Subject(y) # o
        BY <1>2, <1>4, <2>3, <3>2
      <4>2. {Subject(y), q} \in overlapped
        BY <2>3, <4>1 DEF Exclusion, Watching
      <4>3. CASE q = o
        <5>1. {o, Subject(y)} = {Subject(y), q} /\ {o, Subject(y)} \in overlapped'
          BY <1>1, <4>1, <4>3
        <5>. QED
          BY <5>1
      <4>4. CASE q # o
        BY <1>1, <4>1, <4>2, <4>4
      <4>. QED
        BY <4>3, <4>4
    <3>. QED
      BY <3>1, <3>2
  <2>. QED
    BY <1>3, <2>1, <2>2, <2>3 DEF Watching
<1>. QED
  BY <1>5, <1>6, <1>7, <1>8 DEF Exclusion

\* A decision is committed under the lock.
LEMMA RulingStep ==
  ASSUME TypeOK, TypeOK', Exclusion, NEW x \in Processes, arrived[x] <= clock, CommitRuling(x)
  PROVE  Exclusion'
<1>. PICK o \in Orders : o = Subject(x)
  BY SubjectFacts
<1>1. pc[x] = "locked"
  BY DEF CommitRuling
<1>2. order[o].state = IF x \in Orders THEN "EXTRACTED" ELSE "NEEDS_REVIEW"
  BY <1>1 DEF Exclusion, Locking
<1>3. /\ Wrote(o) /\ UNCHANGED overlapped /\ Leave(x) /\ locked' = locked \ {o}
      /\ order'[o] =
           [state |-> IF ruling[x].issues = {} THEN "READY_FOR_APPROVAL" ELSE "NEEDS_REVIEW",
            origin |-> NoOrigin]
      /\ purchase' = IF ruling[x].issues = {}
                     THEN [purchase EXCEPT ![o] = ruling[x].purchase] ELSE purchase
      /\ processed' = IF x \in Orders THEN Append(processed, o) ELSE processed
  BY <1>2, RulingFacts
<1>4. /\ pc'[x] \in {"page", "idle"} /\ UNCHANGED <<job, page, document>>
      /\ \A y \in Processes \ {x} : pc'[y] = pc[y] /\ ruling'[y] = ruling[y]
      /\ \A q \in Orders \ {o} : NoEffect(q)
  BY <1>3, LeaveFacts DEF Wrote
<1>5. /\ \A y \in Processes : Subject(y)' = Subject(y) /\ Subject(y) \in Orders
      /\ \A q \in Orders \ {o} : purchase'[q] = purchase[q]
      /\ purchase'[o] = IF ruling[x].issues = {} THEN ruling[x].purchase ELSE purchase[o]
  <2>1. \A y \in Processes : Subject(y)' = Subject(y) /\ Subject(y) \in Orders
    BY <1>4, SubjectFacts DEF Subject
  <2>. QED
    BY <1>3, <2>1 DEF TypeOK
<1>6. \A q \in Orders \ {o} : HasSnapshot(q)' <=> HasSnapshot(q)
  <2>1. processed \in Seq(Orders)
    BY DEF TypeOK
  <2>. QED
    BY <1>3, <2>1 DEF HasSnapshot
<1>7. HasSnapshot(o)'
  <2>1. processed \in Seq(Orders)
    BY DEF TypeOK
  <2>2. CASE x \in Orders
    <3>1. processed' = Append(processed, o) /\ Len(processed) \in Nat
      BY <1>3, <2>1, <2>2
    <3>2. /\ Len(processed) + 1 \in DOMAIN processed' /\ processed'[Len(processed) + 1] = o
      BY <2>1, <3>1
    <3>. QED
      BY <3>2 DEF HasSnapshot
  <2>3. CASE x \notin Orders
    <3>1. order[o] \in Aggregates /\ order[o].state = "NEEDS_REVIEW"
      BY <1>2, <2>3 DEF TypeOK
    <3>2. ~Extracting(o)
      BY <3>1, MoveFacts DEF Extracting, FailureStates, NoOrigin
    <3>3. HasSnapshot(o)
      BY <3>2 DEF Exclusion, Snapshots
    <3>. QED
      BY <1>3, <2>3, <3>3 DEF HasSnapshot
  <2>. QED
    BY <2>2, <2>3
<1>8. ASSUME NEW y \in Processes, pc'[y] = "locked"
      PROVE  /\ y # x /\ pc[y] = "locked" /\ ruling'[y] = ruling[y]
             /\ Subject(y) \in locked' /\ Subject(y) # o /\ NoEffect(Subject(y))
  <2>1. y # x /\ pc[y] = "locked" /\ ruling'[y] = ruling[y]
    BY <1>4, <1>8
  <2>2. Subject(y) \in locked /\ Subject(y) # o
    BY <1>1, <2>1 DEF Exclusion, Locking
  <2>. QED
    BY <1>3, <1>4, <1>5, <2>1, <2>2
<1>9. Locking'
  <2>1. ASSUME NEW y \in Processes, pc'[y] = "locked"
        PROVE  /\ Subject(y)' \in locked'
               /\ order'[Subject(y)'].state = IF y \in Orders THEN "EXTRACTED" ELSE "NEEDS_REVIEW"
               /\ y \in Operators => StillCurrent(y)'
    <3>1. /\ order[Subject(y)].state = (IF y \in Orders THEN "EXTRACTED" ELSE "NEEDS_REVIEW")
          /\ y \in Operators => StillCurrent(y)
      BY <1>8, <2>1 DEF Exclusion, Locking
    <3>2. ASSUME y \in Operators PROVE StillCurrent(y)'
      <4>. PICK r \in Orders : r = job[y] /\ r = job'[y]
        BY <1>4, <3>2 DEF TypeOK
      <4>1. r = Subject(y)
        BY <3>2, SubjectFacts
      <4>2. order'[r] = order[r] /\ revision'[r] = revision[r] /\ latest'[r] = latest[r]
        BY <1>8, <2>1, <4>1 DEF NoEffect
      <4>. QED
        BY <1>4, <3>1, <3>2, <4>2 DEF StillCurrent, PageTag, CurrentTag
    <3>3. order'[Subject(y)] = order[Subject(y)]
      BY <1>8, <2>1 DEF NoEffect
    <3>. QED
      BY <1>5, <1>8, <2>1, <3>1, <3>2, <3>3
  <2>2. ASSUME NEW y \in Processes, NEW z \in Processes, pc'[y] = "locked", pc'[z] = "locked",
               Subject(y)' = Subject(z)'
        PROVE  y = z
    BY <1>5, <1>8, <2>2 DEF Exclusion, Locking
  <2>. QED
    BY <2>1, <2>2 DEF Locking
<1>10. Snapshots'
  <2>1. ASSUME NEW q \in Orders, q # o
        PROVE  /\ Extracting(q)' \/ order'[q].state = "NEEDS_REVIEW" => purchase'[q] = NoPurchase
               /\ ~Extracting(q)' => HasSnapshot(q)'
    <3>1. order'[q] = order[q]
      BY <1>4, <2>1 DEF NoEffect
    <3>. QED
      BY <1>5, <1>6, <2>1, <3>1 DEF Exclusion, Snapshots, Extracting
  <2>2. Extracting(o)' \/ order'[o].state = "NEEDS_REVIEW" => purchase'[o] = NoPurchase
    <3>1. purchase[o] = NoPurchase
      BY <1>2 DEF Exclusion, Snapshots, Extracting
    <3>. QED
      BY <1>3, <1>5, <3>1 DEF Extracting, NoOrigin
  <2>. QED
    BY <1>7, <2>1, <2>2 DEF Snapshots
<1>11. ConflictsNeedOverlap'
  <2>1. ASSUME NEW q \in Orders, q # o, Ready(o)', Ready(q)', Conflicting(o, q)'
        PROVE  {o, q} \in overlapped
    <3>1. purchase[o] = NoPurchase
      BY <1>2 DEF Exclusion, Snapshots, Extracting
    <3>2. ruling[x].issues = {} /\ purchase'[o] = ruling[x].purchase
      BY <1>5, <2>1, <3>1 DEF Ready
    <3>3. purchase[q] # NoPurchase
      BY <1>5, <2>1 DEF Ready
    <3>4. HasSnapshot(q)
      BY <3>3 DEF Exclusion, Snapshots
    <3>5. Contradicts(q, x)
      BY <1>4, <1>5, <2>1, <3>2, <3>4 DEF Conflicting, Contradicts
    <3>. QED
      BY <1>1, <2>1, <3>2, <3>5 DEF Exclusion, Watching
  <2>2. ASSUME NEW p \in Orders, NEW q \in Orders, p # q, Ready(p)', Ready(q)', Conflicting(p, q)'
        PROVE  {p, q} \in overlapped'
    <3>1. CASE p = o
      BY <1>3, <2>1, <2>2, <3>1
    <3>2. CASE q = o
      <4>1. Conflicting(o, p)'
        BY <2>2, <3>2 DEF Conflicting, Ready
      <4>2. {o, p} \in overlapped
        BY <2>1, <2>2, <3>2, <4>1
      <4>3. {o, p} = {p, q}
        BY <3>2
      <4>. QED
        BY <1>3, <4>2, <4>3
    <3>3. CASE p # o /\ q # o
      <4>1. Ready(p) /\ Ready(q) /\ Conflicting(p, q)
        BY <1>4, <1>5, <2>2, <3>3 DEF Ready, Conflicting
      <4>. QED
        BY <1>3, <2>2, <4>1 DEF Exclusion, ConflictsNeedOverlap
    <3>. QED
      BY <3>1, <3>2, <3>3
  <2>. QED
    BY <2>2 DEF ConflictsNeedOverlap
<1>12. Watching'
  <2>1. ASSUME NEW y \in Processes, pc'[y] \in {"decided", "locked"}
        PROVE  ErrorsOf(ruling'[y].facts) \subseteq ruling'[y].issues
    <3>1. y # x /\ pc'[y] = pc[y] /\ ruling'[y] = ruling[y]
      BY <1>4, <2>1
    <3>. QED
      BY <2>1, <3>1 DEF Exclusion, Watching
  <2>2. ASSUME NEW y \in Processes, NEW z \in Processes, y # z, pc'[y] = "locked", pc'[z] = "locked"
        PROVE  {Subject(y)', Subject(z)'} \in overlapped'
    BY <1>3, <1>5, <1>8, <2>2 DEF Exclusion, Watching
  <2>3. ASSUME NEW y \in Processes, pc'[y] = "locked", ruling'[y].issues = {},
               NEW q \in Orders \ {Subject(y)'}, Contradicts(q, y)'
        PROVE  {Subject(y)', q} \in overlapped'
    <3>1. pc[y] = "locked" /\ y # x /\ ruling[y].issues = {} /\ Subject(y)' = Subject(y)
      BY <1>5, <1>8, <2>3
    <3>2. CASE q = o
      <4>1. {Subject(y), Subject(x)} \in overlapped
        BY <1>1, <3>1 DEF Exclusion, Watching
      <4>. QED
        BY <1>3, <3>1, <3>2, <4>1
    <3>3. CASE q # o
      <4>1. Contradicts(q, y)
        BY <1>4, <1>5, <1>6, <1>8, <2>3, <3>1, <3>3 DEF Contradicts
      <4>. QED
        BY <1>3, <2>3, <3>1, <4>1 DEF Exclusion, Watching
    <3>. QED
      BY <3>2, <3>3
  <2>. QED
    BY <2>1, <2>2, <2>3 DEF Watching
<1>. QED
  BY <1>9, <1>10, <1>11, <1>12 DEF Exclusion

\* A command that has passed the unlocked check was checked against the
\* revision that its page shows.  Only deliveries arrive without a page.
Based ==
  \A a \in Operators :
    /\ pc[a] # "arrived"
    /\ pc[a] \in {"checked", "decided", "locked"} => base[a].revision = page[a].revision

IInv == TypeOK /\ Tags /\ Exclusion /\ Based

\* How the processes go on when no page is read: they stay where they are, end,
\* or get further with the same page.
Onwards ==
  /\ UNCHANGED <<job, page>>
  /\ \A x \in Processes : arrived'[x] \in {arrived[x], 0, clock'}
  /\ \A a \in Operators :
       \/ pc'[a] = pc[a] /\ arrived'[a] = arrived[a] /\ base'[a] = base[a]
       \/ pc[a] \in AtWork /\ pc'[a] = "page"
       \/ /\ pc[a] \in {"checked", "decided"} /\ pc'[a] \in {"decided", "locked"}
          /\ arrived'[a] = arrived[a] /\ base'[a] = base[a]

\* Processes that go on like this keep the tags and the bases explained.
LEMMA OnwardsFacts ==
  ASSUME TypeOK, TypeOK', Tags, Based, TimeMoves, Onwards,
         \A o \in Orders : NoEffect(o) \/ (Effect(o) /\ clock' = clock)
  PROVE  Tags' /\ Based'
<1>1. Based'
  BY DEF Based, Onwards
<1>2. \A a \in Operators :
        \/ pc'[a] = pc[a] /\ arrived'[a] = arrived[a]
        \/ pc[a] \in AtWork /\ pc'[a] = "page"
        \/ pc[a] \in AtWork /\ pc'[a] \in AtWork /\ arrived'[a] = arrived[a]
  BY DEF Onwards, AtWork
<1>3. UNCHANGED <<job, page>> /\ \A x \in Processes : arrived'[x] \in {arrived[x], 0, clock'}
  BY DEF Onwards
<1>. QED
  BY <1>1, <1>2, <1>3, OtherTags

\* A request that ends goes on like this.
LEMMA LeaveOnwards ==
  ASSUME TypeOK, NEW x \in Processes, Leave(x), x \in Operators => pc[x] \in AtWork
  PROVE  Onwards
<1>1. /\ UNCHANGED <<job, page>> /\ arrived'[x] = 0
      /\ pc'[x] = (IF x \in Operators THEN "page" ELSE "idle")
      /\ \A y \in Processes \ {x} :
           pc'[y] = pc[y] /\ arrived'[y] = arrived[y] /\ ruling'[y] = ruling[y]
      /\ \A a \in Operators \ {x} : base'[a] = base[a]
  BY LeaveFacts
<1>2. \A a \in Operators : a \in Processes
  BY DEF Processes
<1>. QED
  BY <1>1, <1>2 DEF Onwards

\* Operators read pages and send commands.
LEMMA ReadingStep ==
  ASSUME IInv, NEW a \in Operators,
         \/ OpenPage(a) \/ ReadIssues(a) \/ ReadRevision(a) \/ ReadLatestAudit(a)
         \/ Send(a) \/ ReadBase(a) \/ Precheck(a)
  PROVE  IInv'
<1>1. TypeOK' /\ UNCHANGED db /\ TypeOK
  BY OperatorTypes DEF IInv
<1>2. Tags'
  BY <1>1, OperatorTags DEF IInv
<1>3. /\ UNCHANGED <<locked, overlapped, ruling>>
      /\ \A b \in Operators \ {a} :
           job'[b] = job[b] /\ page'[b] = page[b] /\ pc'[b] = pc[b] /\ base'[b] = base[b]
      /\ \A o \in Orders : pc'[o] = pc[o]
  <2>1. /\ page \in [Operators -> Pages] /\ job \in [Operators -> Orders]
        /\ pc \in [Processes -> Places] /\ a \in Processes
        /\ \A b \in Operators : b \in Processes
        /\ \A o \in Orders : o \in Processes /\ o # a
    <3>1. /\ a \in Processes /\ \A b \in Operators : b \in Processes
          /\ \A o \in Orders : o \in Processes /\ o # a
      BY ProcessesAssumption DEF Processes
    <3>. QED
      BY <1>1, <3>1 DEF TypeOK
  <2>2. \E place : pc' = [pc EXCEPT ![a] = place]
    BY DEF OpenPage, ReadIssues, ReadRevision, ReadLatestAudit, Send, ReadBase, Precheck, GoTo
  <2>3. job' = job \/ \E o \in Orders : job' = [job EXCEPT ![a] = o]
    BY DEF OpenPage, ReadIssues, ReadRevision, ReadLatestAudit, Send, ReadBase, Precheck, operator
  <2>4. \A b \in Operators \ {a} : page'[b] = page[b]
    BY <2>1
       DEF OpenPage, ReadIssues, ReadRevision, ReadLatestAudit, Send, ReadBase, Precheck, operator
  <2>5. \A b \in Operators \ {a} : base'[b] = base[b]
    <3>1. base \in [Operators -> [order : Shown, revision : Nat]]
      BY <1>1 DEF TypeOK
    <3>. QED
      BY <3>1
         DEF OpenPage, ReadIssues, ReadRevision, ReadLatestAudit, Send, ReadBase, Precheck, operator
  <2>6. UNCHANGED <<locked, overlapped, ruling>>
    BY DEF OpenPage, ReadIssues, ReadRevision, ReadLatestAudit, Send, ReadBase, Precheck
  <2>. QED
    BY <2>1, <2>2, <2>3, <2>4, <2>5, <2>6
<1>4. pc'[a] \notin {"locked", "decided", "arrived"}
      /\ (pc'[a] = "checked" => Precheck(a) /\ base'[a] = base[a] /\ page'[a] = page[a])
  <2>1. pc \in [Processes -> Places] /\ a \in Processes
    BY <1>1 DEF TypeOK, Processes
  <2>2. \E place \in Places \ {"locked", "decided", "arrived"} :
           pc' = [pc EXCEPT ![a] = place] /\ (place = "checked" => Precheck(a))
    BY DEF OpenPage, ReadIssues, ReadRevision, ReadLatestAudit, Send, ReadBase, Precheck, GoTo, Places
  <2>3. Precheck(a) => UNCHANGED operator
    BY DEF Precheck
  <2>. QED
    BY <2>1, <2>2, <2>3 DEF operator
<1>5. Exclusion'
  <2>1. \A o \in Orders : NoEffect(o) /\ order'[o] = order[o]
    BY <1>1 DEF NoEffect, db
  <2>2. UNCHANGED <<document, purchase, processed, locked, overlapped>>
    BY <1>1, <1>3 DEF db
  <2>3. \A x \in Processes :
          /\ pc'[x] = "locked" =>
               /\ pc[x] = "locked" /\ ruling'[x] = ruling[x]
               /\ x \in Operators => job'[x] = job[x] /\ page'[x] = page[x]
          /\ pc'[x] = "decided" => pc[x] = "decided" /\ ruling'[x] = ruling[x]
    BY <1>3, <1>4 DEF Processes
  <2>4. \A o \in Orders : Extracting(o)' <=> Extracting(o)
    BY <2>1 DEF Extracting
  <2>. QED
    BY <1>1, <2>1, <2>2, <2>3, <2>4, FreeStep DEF IInv
<1>6. Based'
  <2>1. Precheck(a) => base[a].revision = page[a].revision
    BY DEF Precheck, PageTag, ETag
  <2>. QED
    BY <1>3, <1>4, <2>1 DEF IInv, Based
<1>. QED
  BY <1>1, <1>2, <1>5, <1>6 DEF IInv

\* Operators approve, reject and retry.
LEMMA CommandStep ==
  ASSUME IInv, NEW a \in Operators, Approve(a) \/ Reject(a) \/ RetryOrder(a)
  PROVE  IInv'
<1>. PICK o \in Orders : o = job[a]
  BY DEF IInv, TypeOK
<1>1. TypeOK /\ a \in Processes /\ arrived[a] <= clock /\ order[o] \in Aggregates
  BY DEF IInv, Tags, Times, Processes, TypeOK
<1>2. /\ TypeOK' /\ Wrote(o) /\ KeptCase /\ UNCHANGED <<revision, locked, overlapped, syncs>>
      /\ Leave(a) /\ o \notin locked /\ pc[a] = "checked"
      /\ \/ /\ order[o].state \in {"NEEDS_REVIEW", "READY_FOR_APPROVAL"}
            /\ order'[o].state \in {"APPROVED", "REJECTED"}
         \/ /\ order[o].state = "FAILED_RETRYABLE"
            /\ order'[o] = [state |-> order[o].origin, origin |-> NoOrigin]
  <2>1. pc[a] = "checked"
    BY DEF Approve, Reject, RetryOrder, Command
  <2>. QED
    BY <1>1, <2>1, ApproveFacts, RejectFacts, RetryFacts
<1>3. /\ UNCHANGED <<document, purchase, processed, locked, overlapped, job, page>>
      /\ \A q \in Orders \ {o} : NoEffect(q)
      /\ Effect(o) /\ clock' = clock /\ TimeMoves
  BY <1>2 DEF Wrote, KeptCase, TimeMoves
<1>4. Onwards
  BY <1>1, <1>2, LeaveOnwards DEF AtWork
<1>5. Tags' /\ Based'
  BY <1>1, <1>2, <1>3, <1>4, OnwardsFacts DEF IInv
<1>6. order'[o] \in Aggregates
  BY <1>2 DEF TypeOK
<1>7. /\ Extracting(o)' \/ order'[o].state = "NEEDS_REVIEW" =>
           Extracting(o) \/ order[o].state = "NEEDS_REVIEW"
      /\ Extracting(o) => Extracting(o)'
  <2>1. /\ order[o].origin = NoOrigin <=> order[o].state \notin FailureStates
        /\ order'[o].origin = NoOrigin <=> order'[o].state \notin FailureStates
    BY <1>1, <1>6, MoveFacts
  <2>2. order[o].origin \in {NoOrigin, "EXTRACTED", "SYNCING"}
    BY <1>1 DEF Aggregates
  <2>. QED
    BY <1>2, <2>1, <2>2 DEF Extracting, FailureStates, NoOrigin
<1>8. \A q \in Orders \ {o} : order'[q] = order[q] /\ (Extracting(q)' <=> Extracting(q))
  BY <1>3 DEF NoEffect, Extracting
<1>9. \A x \in Processes :
        /\ pc'[x] \in {"locked", "decided"} => pc'[x] = pc[x] /\ ruling'[x] = ruling[x]
  BY <1>1, <1>2, LeaveFacts
<1>10. Exclusion'
  BY <1>1, <1>2, <1>3, <1>7, <1>8, <1>9, FreeStep DEF IInv
<1>. QED
  BY <1>2, <1>5, <1>10 DEF IInv

\* Deliveries and revalidations decide, take the lock, or give up.
LEMMA DecidingStep ==
  ASSUME IInv, NEW x \in Processes,
         Decide(x) \/ LockAndRecheck(x) \/ GiveUp(x) \/ (x \in Orders /\ DeliveryArrives(x))
  PROVE  IInv'
<1>1. /\ TypeOK /\ Tags /\ Exclusion /\ Based /\ TypeOK'
      /\ UNCHANGED <<db, job, page, syncs, skew>> /\ clock' \in {clock, clock + 1}
  BY QuietTypes DEF IInv
<1>2. TimeMoves /\ \A o \in Orders : NoEffect(o) /\ order'[o] = order[o]
  BY <1>1 DEF TimeMoves, NoEffect, db
<1>3. x \in Operators => x \notin Orders
  BY ProcessesAssumption
<1>4. /\ pc \in [Processes -> Places] /\ arrived \in [Processes -> Nat]
      /\ ruling \in [Processes -> Rulings] /\ \A a \in Operators : a \in Processes
  BY <1>1 DEF TypeOK, Processes
<1>5. Onwards
  <2>1. CASE GiveUp(x)
    <3>1. Leave(x) /\ pc[x] \in AtWork \cup {"arrived"}
      BY <2>1 DEF GiveUp, AtWork
    <3>2. x \in Operators => pc[x] # "arrived"
      BY <1>1 DEF Based
    <3>. QED
      BY <1>1, <3>1, <3>2, LeaveOnwards
  <2>2. CASE Decide(x) \/ LockAndRecheck(x)
    <3>1. PICK place \in {"decided", "locked"} : pc' = [pc EXCEPT ![x] = place]
      BY <2>2 DEF Decide, LockAndRecheck, GoTo
    <3>2. /\ pc[x] \in {"checked", "decided"} /\ arrived' = arrived /\ UNCHANGED operator
      BY <2>2 DEF Decide, LockAndRecheck
    <3>. QED
      BY <1>1, <1>4, <3>1, <3>2 DEF Onwards, operator
  <2>3. CASE x \in Orders /\ DeliveryArrives(x)
    <3>1. /\ pc' = [pc EXCEPT ![x] = "arrived"] /\ arrived' = [arrived EXCEPT ![x] = clock']
          /\ UNCHANGED operator /\ x \notin Operators
      BY <1>3, <2>3 DEF DeliveryArrives, GoTo
    <3>. QED
      BY <1>1, <1>4, <3>1 DEF Onwards, operator
  <2>. QED
    BY <2>1, <2>2, <2>3
<1>6. Tags' /\ Based'
  BY <1>1, <1>2, <1>5, OnwardsFacts
<1>7. Exclusion'
  <2>1. CASE GiveUp(x)
    BY <1>1, <2>1, GiveUpStep
  <2>2. CASE LockAndRecheck(x)
    BY <1>1, <2>2, LockStep
  <2>3. CASE Decide(x) \/ (x \in Orders /\ DeliveryArrives(x))
    <3>1. UNCHANGED <<document, purchase, processed, locked, overlapped>>
      BY <2>3 DEF Decide, DeliveryArrives, db
    <3>2. \A o \in Orders : Extracting(o)' <=> Extracting(o)
      BY <1>2 DEF Extracting
    <3>3. \A y \in Processes \ {x} : pc'[y] = pc[y] /\ ruling'[y] = ruling[y]
      BY <1>4, <2>3 DEF Decide, DeliveryArrives, GoTo
    <3>4. /\ pc'[x] # "locked"
          /\ pc'[x] = "decided" => ErrorsOf(ruling'[x].facts) \subseteq ruling'[x].issues
      <4>1. CASE Decide(x)
        <5>1. PICK p \in Purchases, other \in SUBSET {"OTHER_ERROR"} :
                ruling' = [ruling EXCEPT ![x] =
                             [purchase |-> p, facts |-> Facts(Subject(x), p),
                              issues |-> ErrorsOf(Facts(Subject(x), p)) \cup other]]
          BY <4>1 DEF Decide
        <5>2. pc' = [pc EXCEPT ![x] = "decided"]
          BY <4>1 DEF Decide, GoTo
        <5>. QED
          BY <1>4, <5>1, <5>2
      <4>2. CASE DeliveryArrives(x)
        BY <1>4, <4>2 DEF DeliveryArrives, GoTo
      <4>. QED
        BY <2>3, <4>1, <4>2
    <3>. QED
      BY <1>1, <1>2, <3>1, <3>2, <3>3, <3>4, FreeStep
  <2>. QED
    BY <2>1, <2>2, <2>3
<1>. QED
  BY <1>1, <1>6, <1>7 DEF IInv

\* Deliveries claim their order or fail, and synchronization moves it on.
LEMMA ServiceStep ==
  ASSUME IInv, NEW o \in Orders, DeliveryClaims(o) \/ DeliveryFails(o) \/ Synchronize(o)
  PROVE  IInv'
<1>1. /\ TypeOK /\ Tags /\ Exclusion /\ Based /\ o \in Processes /\ arrived[o] <= clock
      /\ o \notin Operators /\ order[o] \in Aggregates
  BY ProcessesAssumption DEF IInv, Tags, Times, Processes, TypeOK
<1>2. /\ TypeOK' /\ Wrote(o) /\ KeptCase /\ UNCHANGED <<locked, overlapped, base>>
      /\ o \notin locked /\ syncs' \in {syncs, syncs + 1}
      /\ \A x \in Processes : arrived'[x] \in {arrived[x], 0}
      /\ \A y \in Processes \ {o} : pc'[y] = pc[y] /\ arrived'[y] = arrived[y] /\ ruling'[y] = ruling[y]
      /\ pc'[o] \in {"idle", "checked"} \/ (pc'[o] = pc[o] /\ ruling'[o] = ruling[o])
  <2>1. CASE Synchronize(o)
    BY <1>1, <2>1, SynchronizeFacts
  <2>2. CASE DeliveryClaims(o) \/ DeliveryFails(o)
    <3>1. arrived'[o] \in {arrived[o], 0}
      BY <1>1, <2>2, LeaveFacts DEF DeliveryClaims, DeliveryFails
    <3>. QED
      BY <1>1, <2>2, <3>1, DeliveryFacts
  <2>. QED
    BY <2>1, <2>2
<1>3. /\ UNCHANGED <<document, purchase, processed, locked, overlapped, job, page>>
      /\ \A q \in Orders \ {o} : NoEffect(q)
      /\ Effect(o) /\ clock' = clock /\ TimeMoves
  BY <1>2 DEF Wrote, KeptCase, TimeMoves
<1>4. \A a \in Operators : a \in Processes /\ a # o
  BY <1>1 DEF Processes
<1>5. Onwards
  BY <1>2, <1>3, <1>4 DEF Onwards
<1>6. Tags' /\ Based'
  BY <1>1, <1>2, <1>3, <1>5, OnwardsFacts
<1>7. /\ Extracting(o)' \/ order'[o].state = "NEEDS_REVIEW" =>
           Extracting(o) \/ order[o].state = "NEEDS_REVIEW"
      /\ Extracting(o) => Extracting(o)'
  <2>1. CASE DeliveryClaims(o) \/ DeliveryFails(o)
    BY <1>1, <2>1, DeliveryFacts DEF Extracting
  <2>2. CASE Synchronize(o)
    <3>1. order[o].state \in {"APPROVED", "SYNCING"} /\ order[o].origin = NoOrigin
      BY <1>1, <2>2, SynchronizeFacts, MoveFacts DEF FailureStates
    <3>2. order'[o].state # "NEEDS_REVIEW" /\ ~Extracting(o)'
      BY <1>3, <3>1
         DEF Effect, Worked, Revised, Ruled, Retried, Synchronized, Extracting, FailureStates,
             NoOrigin
    <3>. QED
      BY <3>1, <3>2 DEF Extracting, NoOrigin
  <2>. QED
    BY <2>1, <2>2
<1>8. \A q \in Orders \ {o} : order'[q] = order[q] /\ (Extracting(q)' <=> Extracting(q))
  BY <1>3 DEF NoEffect, Extracting
<1>9. \A x \in Processes :
        pc'[x] \in {"locked", "decided"} => pc'[x] = pc[x] /\ ruling'[x] = ruling[x]
  BY <1>2
<1>10. Exclusion'
  BY <1>1, <1>2, <1>3, <1>7, <1>8, <1>9, FreeStep
<1>. QED
  BY <1>2, <1>6, <1>10 DEF IInv

\* A decision is committed.
LEMMA DecisionStep ==
  ASSUME IInv, NEW x \in Processes, CommitRuling(x)
  PROVE  IInv'
<1>1. /\ TypeOK /\ Tags /\ Exclusion /\ Based /\ arrived[x] <= clock /\ pc[x] = "locked"
      /\ Subject(x) \in Orders
  BY SubjectFacts DEF IInv, Tags, Times, CommitRuling
<1>2. order[Subject(x)].state = IF x \in Orders THEN "EXTRACTED" ELSE "NEEDS_REVIEW"
  BY <1>1 DEF Exclusion, Locking
<1>3. TypeOK' /\ Wrote(Subject(x)) /\ Leave(x) /\ UNCHANGED syncs
  BY <1>1, <1>2, RulingFacts
<1>4. TimeMoves /\ \A o \in Orders : NoEffect(o) \/ (Effect(o) /\ clock' = clock)
  BY <1>3 DEF Wrote, TimeMoves
<1>5. Onwards
  BY <1>1, <1>3, LeaveOnwards DEF AtWork
<1>6. Tags' /\ Based'
  BY <1>1, <1>3, <1>4, <1>5, OnwardsFacts
<1>7. Exclusion'
  BY <1>1, <1>3, RulingStep
<1>. QED
  BY <1>3, <1>6, <1>7 DEF IInv

\* The invariant holds when every order is with its first delivery.
LEMMA InitIInv == Init => IInv
<1>. SUFFICES ASSUME Init PROVE IInv
  OBVIOUS
<1>1. /\ \A a \in Operators : a \in Processes /\ a \notin Orders
      /\ \A o \in Orders : o \in Processes /\ o \notin Operators
  BY ProcessesAssumption DEF Processes
<1>2. clock \in Nat
  BY ProcessesAssumption, FS_CardinalityType DEF Init
<1>3. /\ arrived \in [Processes -> 0..clock]
      /\ \A o \in Orders : arrived[o] \in Nat /\ arrived[o] <= clock
  <2>1. arrived \in [Processes -> 0..clock]
    BY DEF Init
  <2>. QED
    BY <1>1, <1>2, <2>1
<1>4. \A x \in Processes : arrived[x] \in Nat /\ arrived[x] <= clock
  BY <1>2, <1>3
<1>5. \A o \in Orders :
        /\ latest[o] = [at |-> Gap * arrived[o] + 2, id |-> 1]
        /\ Gap * arrived[o] + 2 \in Int /\ Gap * arrived[o] + 2 < Gap * (clock + 1)
  <2>1. latest = [o \in Orders |-> [at |-> Gap * arrived[o] + 2, id |-> 1]]
    BY DEF Init
  <2>2. ASSUME NEW o \in Orders
        PROVE  Gap * arrived[o] + 2 \in Int /\ Gap * arrived[o] + 2 < Gap * (clock + 1)
    <3>1. arrived[o] \in Int /\ clock + 1 \in Int /\ arrived[o] < clock + 1 /\ 2 \in 0..7
      BY <1>2, <1>3
    <3>. QED
      BY <3>1, GapFacts
  <2>. QED
    BY <2>1, <2>2
<1>6. TypeOK
  <2>1. [state |-> "EXTRACTED", origin |-> NoOrigin] \in Aggregates
    BY DEF Aggregates
  <2>2. NoPage \in Pages /\ NoBase \in [order : Shown, revision : Nat] /\ NoRuling \in Rulings
    BY DEF NoPage, NoBase, NoRuling, Pages, Shown, Rulings
  <2>3. /\ order \in [Orders -> Aggregates] /\ document \in [Orders -> Documents]
        /\ purchase \in [Orders -> Purchases \cup {NoPurchase}] /\ processed \in Seq(Orders)
        /\ issues \in [Orders -> SUBSET Errors]
    BY <2>1 DEF Init
  <2>4. /\ written \in [Orders -> Nat] /\ revision \in [Orders -> Nat]
        /\ generation \in [Orders -> Nat] /\ locked \in SUBSET Orders
    BY DEF Init
  <2>5. latest \in [Orders -> [at : Int, id : Nat]]
    <3>1. latest = [o \in Orders |-> [at |-> Gap * arrived[o] + 2, id |-> 1]]
      BY DEF Init
    <3>. QED
      BY <1>5, <3>1
  <2>6. pc \in [Processes -> Places]
    BY DEF Init, Places
  <2>7. arrived \in [Processes -> Nat]
    BY <1>3, <1>4
  <2>8. /\ ruling \in [Processes -> Rulings] /\ job \in [Operators -> Orders]
        /\ page \in [Operators -> Pages] /\ command \in [Operators -> Commands \cup {"none"}]
        /\ base \in [Operators -> [order : Shown, revision : Nat]]
    BY <2>2 DEF Init
  <2>9. syncs \in Nat /\ skew \in Int /\ overlapped \in SUBSET SUBSET Orders
    BY ClockAssumption DEF Init
  <2>. QED
    BY <1>2, <2>3, <2>4, <2>5, <2>6, <2>7, <2>8, <2>9 DEF TypeOK
<1>7. /\ \A a \in Operators : pc[a] = "idle"
      /\ \A x \in Processes : pc[x] \in {"idle", "checked"}
      /\ \A o \in Orders : /\ generation[o] = 1 /\ purchase[o] = NoPurchase
                           /\ order[o].state = "EXTRACTED"
  BY <1>1 DEF Init
<1>8. Tags
  <2>1. \A a \in Operators : Reading(a) /\ Commanding(a)
    BY <1>7 DEF Reading, Commanding
  <2>2. ASSUME NEW o \in Orders
        PROVE  latest[o].id <= generation[o] /\ latest[o].at < Gap * (clock + 1)
    <3>. DEFINE at == Gap * arrived[o] + 2
                end == Gap * (clock + 1)
    <3>1. latest[o] = [at |-> at, id |-> 1] /\ at < end /\ generation[o] = 1
      BY <1>5, <1>7
    <3>. HIDE DEF at, end
    <3>2. latest[o].id <= generation[o] /\ latest[o].at < end
      BY <3>1
    <3>. QED
      BY <3>2 DEF end
  <2>. QED
    BY <1>4, <2>1, <2>2 DEF Tags, Times
<1>9. Exclusion
  BY <1>7 DEF Exclusion, Locking, Snapshots, Watching, ConflictsNeedOverlap, Ready, Extracting
<1>10. Based
  BY <1>7 DEF Based
<1>. QED
  BY <1>6, <1>8, <1>9, <1>10 DEF IInv

\* A step that changes nothing.
LEMMA StutterStep ==
  ASSUME IInv, UNCHANGED vars
  PROVE  IInv'
<1>1. TypeOK' /\ Times' /\ Exclusion' /\ Based'
  BY DEF IInv, TypeOK, Tags, Times, Exclusion, Locking, Snapshots, Watching, ConflictsNeedOverlap,
         Based, Subject, StillCurrent, PageTag, CurrentTag, Extracting, HasSnapshot, Contradicts,
         Ready, Conflicting, Synced, Now, vars, db, operator, time
<1>2. \A a \in Operators : Reading(a)' /\ Commanding(a)'
  BY DEF IInv, Tags, Reading, Commanding, UpToDate, Superseded, RuledOn, PageRead, PageIsWhole,
         Synced, Now, vars, db, operator, time
<1>. QED
  BY <1>1, <1>2 DEF IInv, Tags

\* Every step keeps the invariant.
LEMMA NextStep == IInv /\ [Next]_vars => IInv'
<1>. SUFFICES ASSUME IInv, [Next]_vars PROVE IInv'
  OBVIOUS
<1>1. ASSUME NEW a \in Operators,
             \/ OpenPage(a) \/ ReadIssues(a) \/ ReadRevision(a) \/ ReadLatestAudit(a)
             \/ Send(a) \/ ReadBase(a) \/ Precheck(a)
      PROVE  IInv'
  BY <1>1, ReadingStep
<1>2. ASSUME NEW a \in Operators, Approve(a) \/ Reject(a) \/ RetryOrder(a) PROVE IInv'
  BY <1>2, CommandStep
<1>3. ASSUME NEW x \in Processes, Decide(x) \/ LockAndRecheck(x) \/ GiveUp(x) PROVE IInv'
  BY <1>3, DecidingStep
<1>4. ASSUME NEW x \in Processes, CommitRuling(x) PROVE IInv'
  BY <1>4, DecisionStep
<1>5. ASSUME NEW o \in Orders, DeliveryArrives(o) PROVE IInv'
  BY <1>5, DecidingStep DEF Processes
<1>6. ASSUME NEW o \in Orders, DeliveryClaims(o) \/ DeliveryFails(o) \/ Synchronize(o) PROVE IInv'
  BY <1>6, ServiceStep
<1>7. CASE UNCHANGED vars
  BY <1>7, StutterStep
<1>. QED
  BY <1>1, <1>2, <1>3, <1>4, <1>5, <1>6, <1>7 DEF Next

\* The inductive invariant of reviews, deliveries and synchronization.
THEOREM Invariance == Spec => []IInv
<1>. QED
  BY InitIInv, NextStep, PTL DEF Spec

\* A tag that still matches was issued after the last commit.
LEMMA ValidTag ==
  ASSUME IInv, NEW a \in Operators, PageIsWhole(a), AcceptsCommands(job[a]), StillCurrent(a)
  PROVE  page[a].generation = generation[job[a]]
<1>. PICK o \in Orders : o = job[a]
  BY DEF IInv, TypeOK
<1>1. /\ page[a] \in Pages /\ order[o] \in Aggregates /\ latest[o].id \in Nat
      /\ revision[o] \in Nat /\ generation[o] \in Nat
  BY DEF IInv, TypeOK
<1>2. /\ page[a].opened \in Nat /\ page[a].audit \in Nat /\ page[a].revision \in Nat
  BY <1>1 DEF Pages
<1>3. /\ page[a].order = order[o] /\ page[a].revision = revision[o] /\ page[a].audit = latest[o].id
  BY DEF StillCurrent, PageTag, CurrentTag, ETag
<1>4. pc[a] # "idle" /\ page[a].opened = page[a].generation
  BY DEF PageIsWhole
<1>5. order[o].state \in {"NEEDS_REVIEW", "READY_FOR_APPROVAL", "FAILED_RETRYABLE"}
  BY DEF AcceptsCommands
<1>6. /\ page[a].opened <= generation[o]
      /\ page[a].opened < generation[o] /\ page[a].order.state = "READY_FOR_APPROVAL" => RuledOn(o)
      /\ page[a].opened < generation[o] => Superseded(a)
  BY <1>4 DEF IInv, Tags, Reading
<1>7. ASSUME page[a].opened < generation[o] PROVE FALSE
  <2>1. CASE order[o].state = "READY_FOR_APPROVAL"
    <3>1. order[o].origin = NoOrigin
      BY <1>1, <2>1, MoveFacts DEF FailureStates
    <3>. QED
      BY <1>3, <1>6, <1>7, <2>1, <3>1 DEF RuledOn, NoOrigin
  <2>2. CASE order[o].state = "NEEDS_REVIEW"
    BY <1>1, <1>2, <1>3, <1>6, <1>7, <2>2 DEF Superseded
  <2>3. CASE order[o].state = "FAILED_RETRYABLE"
    BY <1>1, <1>2, <1>3, <1>6, <1>7, <2>3 DEF Superseded
  <2>. QED
    BY <1>5, <2>1, <2>2, <2>3
<1>. QED
  BY <1>1, <1>2, <1>4, <1>6, <1>7

\* A valid ETag was issued by the latest mutation, whatever the clocks are and
\* however often an order fails and is retried (review/concurrency.py).
THEOREM TagsIdentifyGenerations == Spec => []ValidETagIsOfThisGeneration
<1>1. IInv => ValidETagIsOfThisGeneration
  BY ValidTag DEF ValidETagIsOfThisGeneration
<1>. QED
  BY <1>1, Invariance, PTL

\* Two orders for one purchase or with one document are promoted only by
\* transactions that overlapped (application/validation.py).
THEOREM DuplicatesNeedOverlap == Spec => []ConflictsNeedOverlap
<1>1. IInv => ConflictsNeedOverlap
  BY DEF IInv, Exclusion
<1>. QED
  BY <1>1, Invariance, PTL

\* A command that takes effect has been checked under the lock.
LEMMA ActsFacts ==
  ASSUME IInv, [Next]_vars, NEW a \in Operators, Acts(a)
  PROVE  /\ StillCurrent(a) /\ AcceptsCommands(job[a]) /\ pc[a] \in {"checked", "locked"}
         /\ order'[job[a]].state = "APPROVED" => order[job[a]].state = "READY_FOR_APPROVAL"
         /\ revision'[job[a]] # revision[job[a]] => pc[a] = "locked"
<1>1. /\ TypeOK /\ a \in Processes /\ a \notin Orders /\ job[a] \in Orders
      /\ \A x \in Processes : arrived[x] <= clock
  BY ProcessesAssumption DEF IInv, TypeOK, Processes, Tags, Times
<1>2. pc'[a] # pc[a] /\ generation'[job[a]] # generation[job[a]]
  BY DEF Acts
<1>3. ASSUME NEW b \in Operators,
             \/ OpenPage(b) \/ ReadIssues(b) \/ ReadRevision(b) \/ ReadLatestAudit(b)
             \/ Send(b) \/ ReadBase(b) \/ Precheck(b)
      PROVE  FALSE
  BY <1>1, <1>2, <1>3, OperatorTypes DEF db
<1>4. ASSUME NEW x \in Processes, Decide(x) \/ LockAndRecheck(x) \/ GiveUp(x) PROVE FALSE
  BY <1>1, <1>2, <1>4, QuietTypes DEF db
<1>5. ASSUME NEW o \in Orders,
             DeliveryArrives(o) \/ DeliveryClaims(o) \/ DeliveryFails(o) \/ Synchronize(o)
      PROVE  FALSE
  <2>1. o \in Processes /\ o # a
    BY <1>1 DEF Processes
  <2>2. CASE DeliveryArrives(o)
    BY <1>2, <2>2 DEF DeliveryArrives, db
  <2>3. CASE DeliveryClaims(o) \/ DeliveryFails(o)
    BY <1>1, <1>2, <2>1, <2>3, DeliveryFacts
  <2>4. CASE Synchronize(o)
    BY <1>1, <1>2, <2>4, SynchronizeFacts
  <2>. QED
    BY <1>5, <2>2, <2>3, <2>4
<1>6. ~UNCHANGED vars
  BY <1>2 DEF vars
<1>7. ASSUME NEW b \in Operators, Approve(b) \/ Reject(b) \/ RetryOrder(b)
      PROVE  /\ StillCurrent(a) /\ AcceptsCommands(job[a]) /\ pc[a] = "checked"
             /\ order'[job[a]].state = "APPROVED" => order[job[a]].state = "READY_FOR_APPROVAL"
             /\ revision' = revision
  <2>1. b \in Processes /\ Leave(b) /\ pc[b] = "checked"
    BY <1>7 DEF Approve, Reject, RetryOrder, Command, Processes
  <2>2. a = b
    BY <1>1, <1>2, <2>1, LeaveFacts
  <2>3. CASE Approve(a)
    BY <1>1, <2>1, <2>2, <2>3, ApproveFacts DEF AcceptsCommands
  <2>4. CASE Reject(a)
    BY <1>1, <2>1, <2>2, <2>4, RejectFacts DEF AcceptsCommands
  <2>5. CASE RetryOrder(a)
    <3>1. order[job[a]] \in Aggregates
      BY <1>1 DEF TypeOK
    <3>2. order[job[a]].origin # "APPROVED"
      BY <3>1 DEF Aggregates, NoOrigin
    <3>3. /\ StillCurrent(a) /\ order[job[a]].state = "FAILED_RETRYABLE" /\ revision' = revision
          /\ order'[job[a]] = [state |-> order[job[a]].origin, origin |-> NoOrigin]
      BY <1>1, <2>5, RetryFacts
    <3>4. order'[job[a]].state # "APPROVED"
      BY <3>2, <3>3
    <3>. QED
      BY <2>1, <2>2, <3>3, <3>4 DEF AcceptsCommands
  <2>. QED
    BY <1>7, <2>2, <2>3, <2>4, <2>5
<1>8. ASSUME NEW x \in Processes, CommitRuling(x)
      PROVE  /\ StillCurrent(a) /\ AcceptsCommands(job[a]) /\ pc[a] = "locked"
             /\ order'[job[a]].state # "APPROVED"
  <2>1. Leave(x) /\ pc[x] = "locked"
    BY <1>8 DEF CommitRuling
  <2>2. x = a
    BY <1>1, <1>2, <2>1, LeaveFacts
  <2>3. Subject(a) = job[a]
    BY <1>1, SubjectFacts
  <2>4. order[job[a]].state = "NEEDS_REVIEW" /\ StillCurrent(a)
    BY <1>1, <2>1, <2>2, <2>3 DEF IInv, Exclusion, Locking
  <2>5. order'[job[a]].state \in {"READY_FOR_APPROVAL", "NEEDS_REVIEW"}
    <3>1. order[Subject(a)].state = IF a \in Orders THEN "EXTRACTED" ELSE "NEEDS_REVIEW"
      BY <1>1, <2>3, <2>4
    <3>2. order'[Subject(a)] =
            [state |-> IF ruling[a].issues = {} THEN "READY_FOR_APPROVAL" ELSE "NEEDS_REVIEW",
             origin |-> NoOrigin]
      BY <1>1, <1>8, <2>2, <3>1, RulingFacts
    <3>. QED
      BY <2>3, <3>2
  <2>. QED
    BY <2>1, <2>2, <2>4, <2>5 DEF AcceptsCommands
<1>. QED
  BY <1>3, <1>4, <1>5, <1>6, <1>7, <1>8 DEF Next

\* No lost update: a command takes effect only if nothing was committed on the
\* order since its page was read (application/review_commands.py).
THEOREM NoLostUpdate == Spec => CommandsActOnWhatWasRead
<1>1. ASSUME IInv, [Next]_vars, NEW a \in Operators, Acts(a), PageIsWhole(a)
      PROVE  page[a].generation = generation[job[a]]
  BY <1>1, ActsFacts, ValidTag
<1>2. IInv /\ [Next]_vars =>
        [\A a \in Operators :
           Acts(a) /\ PageIsWhole(a) => page[a].generation = generation[job[a]]]_vars
  BY <1>1
<1>. QED
  BY <1>2, Invariance, PTL DEF Spec, CommandsActOnWhatWasRead

\* Whoever approves an order has seen its issues as they are
\* (application/review_reads.py, approve_order).
THEOREM ApproversHaveSeenTheIssues == Spec => ApprovedAsShown
<1>1. ASSUME IInv, [Next]_vars, NEW a \in Operators, Acts(a), order'[job[a]].state = "APPROVED"
      PROVE  page[a].issues = written[job[a]]
  <2>. PICK o \in Orders : o = job[a]
    BY <1>1 DEF IInv, TypeOK
  <2>1. /\ StillCurrent(a) /\ order[o].state = "READY_FOR_APPROVAL" /\ pc[a] \in {"checked", "locked"}
    BY <1>1, ActsFacts
  <2>2. page[a].order = order[o]
    BY <2>1 DEF StillCurrent, PageTag, CurrentTag, ETag
  <2>3. /\ order[o] \in Aggregates /\ page[a] \in Pages /\ generation[o] \in Nat
    BY <1>1 DEF IInv, TypeOK
  <2>4. order[o].origin = NoOrigin /\ page[a].opened \in Nat
    BY <2>1, <2>3, MoveFacts DEF FailureStates, Pages
  <2>5. ~RuledOn(o)
    BY <2>1, <2>4 DEF RuledOn, NoOrigin
  <2>6. page[a].opened = generation[o]
    BY <1>1, <2>1, <2>2, <2>3, <2>4, <2>5 DEF IInv, Tags, Reading
  <2>7. UpToDate(a)
    BY <1>1, <2>1, <2>6 DEF IInv, Tags, Reading
  <2>. QED
    BY <2>1, <2>7 DEF UpToDate
<1>2. IInv /\ [Next]_vars =>
        [\A a \in Operators :
           Acts(a) /\ order'[job[a]].state = "APPROVED" => page[a].issues = written[job[a]]]_vars
  BY <1>1
<1>. QED
  BY <1>2, Invariance, PTL DEF Spec, ApprovedAsShown

\* The recorded changes of a revision are relative to the revision before it
\* (application/review_revalidation.py, _load_preflight).
THEOREM ChangesAreRelativeToTheLast == Spec => ChangesFollowTheirBase
<1>1. ASSUME IInv, [Next]_vars, NEW a \in Operators, Acts(a), revision'[job[a]] # revision[job[a]]
      PROVE  base[a].revision = revision[job[a]]
  <2>1. StillCurrent(a) /\ pc[a] = "locked"
    BY <1>1, ActsFacts
  <2>2. page[a].revision = revision[job[a]]
    BY <2>1 DEF StillCurrent, PageTag, CurrentTag, ETag
  <2>. QED
    BY <1>1, <2>1, <2>2 DEF IInv, Based
<1>2. IInv /\ [Next]_vars =>
        [\A a \in Operators :
           Acts(a) /\ revision'[job[a]] # revision[job[a]] => base[a].revision = revision[job[a]]]_vars
  BY <1>1
<1>. QED
  BY <1>2, Invariance, PTL DEF Spec, ChangesFollowTheirBase
==============================================================================
