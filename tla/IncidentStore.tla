--------------------------- MODULE IncidentStore ---------------------------
(***************************************************************************)
(* What the service promises about one stored incident: every operation    *)
(* takes effect on the current contents, all at once.  The handlers of     *)
(* IncidentHandlers implement it when requests do not overlap.             *)
(***************************************************************************)
EXTENDS IncidentRow

CONSTANT Ids    \* request numbers

VARIABLE row

Init == row = NewRow

\* A guardian reviews the incident.
Review(decision) ==
    row' = [row EXCEPT !.status = NextStatus(row.status, decision),
                       !.decision = decision]

\* Execution, first half: the outcome is recorded, if execution is allowed.
RecordOutcome ==
    /\ MayExecute(row)
    /\ row' = [row EXCEPT !.evidence = WithOutcome(@, row.decision)]

\* Execution, second half: an incident whose outcome is recorded, and whose
\* guardian still allows execution, is resolved.
Resolve ==
    /\ MayExecute(row)
    /\ row.evidence.outcome = row.decision
    /\ row' = [row EXCEPT !.status = "resolved"]

Replay(id) == row' = [row EXCEPT !.evidence = WithReplay(@, id)]

Deliver(t, id) ==
    row' = [row EXCEPT !.evidence =
               WithDelivery(@, DeliveredEntry(@.delivery, t, id))]

DeliveryFails(t, retryable, id) ==
    row' = [row EXCEPT !.evidence =
               WithDelivery(@, FailedEntry(@.delivery, t, retryable, id))]

Feedback(state, id) ==
    row' = [row EXCEPT !.evidence = WithFeedback(@, state, id)]

Next ==
    \/ \E decision \in Decisions : Review(decision)
    \/ RecordOutcome
    \/ Resolve
    \/ \E id \in Ids :
          \/ Replay(id)
          \/ \E t \in Targets : Deliver(t, id) \/ (\E b \in BOOLEAN : DeliveryFails(t, b, id))
          \/ \E state \in FeedbackStates : Feedback(state, id)

Spec == Init /\ [][Next]_row
=============================================================================
