---------------------------- MODULE IntakeHistory ----------------------------
(***************************************************************************)
(* How a claim reads the audit history of an order (orchestration/         *)
(* claims.py).  The lifecycle state alone does not say whether a delivery  *)
(* of the same document may work on the order: the history says it, read in*)
(* the order of the events' occurred_at and parsed by a small automaton    *)
(* that also pairs every operator retry with the execution it authorized.  *)
(***************************************************************************)
EXTENDS Naturals, Sequences, SequencesExt, FiniteSetsExt, OrderDomain

KnownEvents ==
  {"ORDER_RECEIVED", "ORDER_PROCESSING_STARTED", "ORDER_PROCESSING_RECOVERED",
   "ORDER_PROCESSING_FAILED", "ORDER_PROCESSING_RESUMED",
   "ORDER_EXTRACTION_COMPLETED", "ORDER_EXTRACTION_RECOVERED",
   "ORDER_EXTRACTION_RESUMED", "ORDER_VALIDATION_FAILED",
   "ORDER_RETRY_REQUESTED", "ORDER_RETRY_RESTORED", "ORDER_APPROVED",
   "ORDER_REJECTED"}

\* What a routed order adds, unknown to the claim.
RoutingEvents == {"EXTRACTION_SNAPSHOT_RECORDED", "ORDER_VALIDATED",
                  "ORDER_READY_FOR_APPROVAL", "ORDER_NEEDS_REVIEW"}

ClaimKinds == {"INITIAL", "RESUME_PROCESSING", "RESUME_EXTRACTED",
               "RECOVER_PROCESSING", "RECOVER_EXTRACTED", "STAND_DOWN"}

\* Where a retry of a failed intake goes back to.
RetryOrigins == {"PROCESSING", "EXTRACTED"}

\* The automaton before the first event: restored[s] tells, for each retry that
\* restored the order to s, whether an execution has used it.
HistoryStart ==
  [ valid |-> TRUE, phase |-> "RECEIVED", failed |-> NoOrigin,
    requested |-> NoOrigin, received |-> FALSE, started |-> FALSE,
    extracted |-> FALSE,
    restored |-> [origin \in RetryOrigins |-> <<>>] ]

Undisturbed(h) == h.failed = NoOrigin /\ h.requested = NoOrigin

Unused(uses) == {i \in DOMAIN uses : ~uses[i]}

\* Mutant: resuming does not use up the retry.
ConsumeNothing(uses) == uses

\* _consume_latest_generation
ConsumeLatest(uses) == [uses EXCEPT ![Max(Unused(uses))] = TRUE]

Accepts(h, event) ==
  \/ event = "ORDER_RECEIVED" /\ ~h.received
  \/ /\ event = "ORDER_PROCESSING_STARTED"
     /\ ~h.started /\ ~h.extracted /\ h.phase \in {"RECEIVED", "PROCESSING"}
  \/ event = "ORDER_PROCESSING_FAILED" /\ h.started /\ h.phase = "PROCESSING"
  \/ event = "ORDER_PROCESSING_RECOVERED" /\ Undisturbed(h) /\ h.phase = "PROCESSING"
  \/ /\ event = "ORDER_EXTRACTION_COMPLETED"
     /\ ~h.extracted /\ Undisturbed(h)
     /\ h.started => h.phase = "PROCESSING"
  \/ event = "ORDER_EXTRACTION_RECOVERED" /\ Undisturbed(h) /\ h.phase = "EXTRACTED"
  \/ event = "ORDER_VALIDATION_FAILED" /\ Undisturbed(h) /\ (h.started => h.extracted)
  \/ event = "ORDER_RETRY_REQUESTED" /\ h.failed # NoOrigin /\ h.requested = NoOrigin
  \/ event = "ORDER_RETRY_RESTORED" /\ h.requested # NoOrigin
  \/ /\ event = "ORDER_PROCESSING_RESUMED"
     /\ h.phase = "PROCESSING_RESTORED" /\ Unused(h.restored["PROCESSING"]) # {}
  \/ /\ event = "ORDER_EXTRACTION_RESUMED"
     /\ h.phase = "EXTRACTED_RESTORED" /\ Unused(h.restored["EXTRACTED"]) # {}

RestoredPhase(origin) ==
  IF origin = "PROCESSING" THEN "PROCESSING_RESTORED" ELSE "EXTRACTED_RESTORED"

Advance(h, event) ==
  CASE event = "ORDER_RECEIVED" -> [h EXCEPT !.received = TRUE]
    [] event = "ORDER_PROCESSING_STARTED" ->
         [h EXCEPT !.started = TRUE, !.phase = "PROCESSING"]
    [] event = "ORDER_PROCESSING_FAILED" ->
         [h EXCEPT !.failed = "PROCESSING", !.phase = "PROCESSING_FAILED"]
    [] event = "ORDER_PROCESSING_RECOVERED" -> [h EXCEPT !.phase = "PROCESSING"]
    [] event = "ORDER_EXTRACTION_COMPLETED" ->
         [h EXCEPT !.extracted = TRUE, !.phase = "EXTRACTED"]
    [] event = "ORDER_EXTRACTION_RECOVERED" -> [h EXCEPT !.phase = "EXTRACTED"]
    [] event = "ORDER_VALIDATION_FAILED" ->
         [h EXCEPT !.failed = "EXTRACTED", !.phase = "EXTRACTED_FAILED"]
    [] event = "ORDER_RETRY_REQUESTED" -> [h EXCEPT !.requested = h.failed]
    [] event = "ORDER_RETRY_RESTORED" ->
         [h EXCEPT !.restored[h.requested] = Append(@, FALSE),
                   !.phase = RestoredPhase(h.requested),
                   !.failed = NoOrigin, !.requested = NoOrigin]
    [] event = "ORDER_PROCESSING_RESUMED" ->
         [h EXCEPT !.restored["PROCESSING"] = ConsumeLatest(@), !.phase = "PROCESSING"]
    [] event = "ORDER_EXTRACTION_RESUMED" ->
         [h EXCEPT !.restored["EXTRACTED"] = ConsumeLatest(@), !.phase = "EXTRACTED"]

\* The automaton reads one event; what it does not expect makes the history
\* invalid for good.
Read(h, event) ==
  IF h.valid /\ Accepts(h, event) THEN Advance(h, event) ELSE [h EXCEPT !.valid = FALSE]

\* Where it is after each prefix of the history.
Readings(events) ==
  LET after[n \in 0..Len(events)] ==
        IF n = 0 THEN HistoryStart ELSE Read(after[n - 1], events[n])
  IN  after

\* _audit_history_status: the automaton over the whole history.
HistoryStatus(events) ==
  LET end == Readings(events)[Len(events)]
  IN  [end EXCEPT !.valid =
         /\ @ /\ Undisturbed(end)
         /\ Len(events) >= 2
         /\ events[1] = "ORDER_RECEIVED"
         /\ events[2] = "ORDER_PROCESSING_STARTED"]

RetryUnused(h, origin) ==
  h.restored[origin] # <<>> /\ ~Last(h.restored[origin])

PhasesOf(state) ==
  IF state = "PROCESSING" THEN {"PROCESSING", "PROCESSING_RESTORED"}
  ELSE IF state = "EXTRACTED"
    THEN {"EXTRACTED", "EXTRACTED_FAILED", "EXTRACTED_RESTORED"}
  ELSE {}

\* _is_recoverable_in_progress_history
Recoverable(state, events) ==
  /\ Range(events) \subseteq KnownEvents
  /\ HistoryStatus(events).valid
  /\ HistoryStatus(events).phase \in PhasesOf(state)

\* decide_intake_claim_kind
DecideClaimKind(state, events) ==
  CASE state = "RECEIVED" /\ events = <<"ORDER_RECEIVED">> -> "INITIAL"
    [] /\ state = "PROCESSING" /\ Recoverable(state, events)
       /\ RetryUnused(HistoryStatus(events), state) -> "RESUME_PROCESSING"
    [] /\ state = "EXTRACTED" /\ Recoverable(state, events)
       /\ RetryUnused(HistoryStatus(events), state) -> "RESUME_EXTRACTED"
    [] OTHER -> "STAND_DOWN"
==============================================================================
