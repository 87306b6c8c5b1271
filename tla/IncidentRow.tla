---------------------------- MODULE IncidentRow ----------------------------
(***************************************************************************)
(* What one stored incident holds, and how each handler derives the next   *)
(* contents from the ones it has read.  Everything here is a pure operator:*)
(* when the row is read and when it is written is the business of the      *)
(* modules that extend this one.                                           *)
(*                                                                         *)
(* A row is the JSON blob of the `incidents` table reduced to its status,  *)
(* its guardian decision and its normalized_evidence.  Entries of the      *)
(* evidence carry the number of the request that produced them (field by), *)
(* which stands for their timestamp, actor and payload.                    *)
(***************************************************************************)
EXTENDS Integers, Sequences, FiniteSets

CONSTANTS Targets,       \* destinations of a handoff: github, slack, jira
          ReplayLimit    \* _REPLAY_HISTORY_LIMIT: entries replay_history keeps

ASSUME ReplayLimitAssumption == ReplayLimit \in Nat \ {0}

Decisions == {"approve", "reject", "request_modification"}
Statuses  == {"investigating", "resolved", "blocked_by_guardian",
              "needs_modification"}

\* What a downstream team reports: one status of each class that the guidance
\* tells apart.  "accepted" is the route's default and none of the states the
\* delivery map knows, so it is stored as "acknowledged".
FeedbackStates == {"accepted", "acknowledged", "rejected"}
DeliveryStates == {"acknowledged", "rejected"}

NoOutcome == "none"
NoReplay  == 0
RetryLimit == 3

DeliveryEntries ==
    [by: Nat, target: Targets,
     status: {"delivered", "retrying", "terminal_failure"},
     attempt: Nat, retryable: BOOLEAN,
     duplicate: {"first_send", "retry_after_failure", "repeat_send_after_delivery"},
     guidance: {"wait_for_review", "resend_on_request", "use_retry",
                "fix_destination", "capture_closure", "keep_open", "correct_packet"},
     feedback: DeliveryStates \cup {"none"}]

FeedbackEntries == [by: Nat, state: DeliveryStates]

Evidence == [outcome: {NoOutcome, "pending", "approve"},
             latest: Nat, history: Seq(Nat),
             delivery: Seq(DeliveryEntries), feedback: Seq(FeedbackEntries)]

EmptyEvidence == [outcome |-> NoOutcome, latest |-> NoReplay, history |-> <<>>,
                  delivery |-> <<>>, feedback |-> <<>>]

Rows == [status: Statuses, decision: Decisions \cup {"pending"}, evidence: Evidence]

\* What create_incident stores.
NewRow == [status |-> "investigating", decision |-> "pending",
           evidence |-> EmptyEvidence]

-----------------------------------------------------------------------------
(* Guardian review and execution *)

\* A slip of NextStatus: a request for modification is forgotten.
NextStatusForgetsModification(status, decision) ==
    IF status = "resolved" THEN "resolved"
    ELSE IF decision = "reject" THEN "blocked_by_guardian" ELSE "investigating"
\* The status a review writes, given the status it read.
NextStatus(status, decision) ==
    CASE status = "resolved"                -> "resolved"
      [] status # "resolved" /\ decision = "reject"  -> "blocked_by_guardian"
      [] status # "resolved" /\ decision = "request_modification" -> "needs_modification"
      [] OTHER                              -> "investigating"

\* Whether execute_incident goes ahead: approval always does, a negative
\* decision never, and an undecided incident does unless its status blocks it.
MayExecute(row) ==
    \/ row.decision = "approve"
    \/ /\ row.decision = "pending"
       /\ row.status \notin {"blocked_by_guardian", "needs_modification"}

WithOutcome(evidence, decision) == [evidence EXCEPT !.outcome = decision]

-----------------------------------------------------------------------------
(* Replay history: newest first, cut to the limit *)

Cut(seq) == SubSeq(seq, 1, IF Len(seq) < ReplayLimit THEN Len(seq) ELSE ReplayLimit)

\* A slip of WithReplay: the new entry goes to the end of the history.
WithReplayAtTheEnd(evidence, id) ==
    [evidence EXCEPT !.latest = id, !.history = Cut(Append(@, id))]

WithReplay(evidence, id) ==
    [evidence EXCEPT !.latest = id, !.history = Cut(<<id>> \o @)]

-----------------------------------------------------------------------------
(* Handoff deliveries *)

Attempts(delivery, t) == {i \in DOMAIN delivery : delivery[i].target = t}

LastAttempt(delivery, t) ==
    CHOOSE i \in Attempts(delivery, t) : \A j \in Attempts(delivery, t) : j <= i

LastStatus(delivery, t) ==
    IF Attempts(delivery, t) = {} THEN "none"
    ELSE delivery[LastAttempt(delivery, t)].status

OperatorGuidance(status, retryable, duplicate) ==
    CASE duplicate = "repeat_send_after_delivery" -> "resend_on_request"
      [] duplicate # "repeat_send_after_delivery" /\ status = "delivered" -> "wait_for_review"
      [] duplicate # "repeat_send_after_delivery" /\ status # "delivered"
         /\ (status = "retrying" \/ retryable)  -> "use_retry"
      [] OTHER -> "fix_destination"

\* A slip of DeliveredEntry: any earlier attempt counts as a delivery.
DeliveredEntryAnyAttempt(delivery, t, id) ==
    [by |-> id, target |-> t, status |-> "delivered",
     attempt |-> Cardinality(Attempts(delivery, t)) + 1, retryable |-> FALSE,
     duplicate |-> IF Attempts(delivery, t) = {} THEN "first_send"
                   ELSE "repeat_send_after_delivery",
     guidance |-> "wait_for_review", feedback |-> "none"]

DeliveredEntry(delivery, t, id) ==
    LET last == LastStatus(delivery, t)
        dup  == CASE last = "none"      -> "first_send"
                  [] last = "delivered" -> "repeat_send_after_delivery"
                  [] OTHER              -> "retry_after_failure"
    IN  [by |-> id, target |-> t, status |-> "delivered",
         attempt |-> Cardinality(Attempts(delivery, t)) + 1,
         retryable |-> FALSE, duplicate |-> dup,
         guidance |-> OperatorGuidance("delivered", FALSE, dup),
         feedback |-> "none"]

\* Slips of FailedEntry: one retry too many; deliveries are not counted.
FailedEntryOnceMore(delivery, t, retryable, id) ==
    LET attempt == Cardinality(Attempts(delivery, t)) + 1
        status  == IF retryable /\ attempt <= RetryLimit
                   THEN "retrying" ELSE "terminal_failure"
    IN  [by |-> id, target |-> t, status |-> status,
         attempt |-> attempt, retryable |-> retryable,
         duplicate |-> IF attempt > 1 THEN "retry_after_failure" ELSE "first_send",
         guidance |-> "use_retry", feedback |-> "none"]
FailedEntryCountsFailures(delivery, t, retryable, id) ==
    LET attempt == Cardinality({i \in Attempts(delivery, t) :
                                   delivery[i].status # "delivered"}) + 1
    IN  [by |-> id, target |-> t,
         status |-> IF retryable /\ attempt < RetryLimit
                    THEN "retrying" ELSE "terminal_failure",
         attempt |-> attempt, retryable |-> retryable,
         duplicate |-> IF attempt > 1 THEN "retry_after_failure" ELSE "first_send",
         guidance |-> "use_retry", feedback |-> "none"]

\* The entry of a failed send.  Its guidance is computed with the default
\* duplicate semantics, not with the entry's own.
FailedEntry(delivery, t, retryable, id) ==
    LET attempt == Cardinality(Attempts(delivery, t)) + 1
        status  == IF retryable /\ attempt < RetryLimit
                   THEN "retrying" ELSE "terminal_failure"
    IN  [by |-> id, target |-> t, status |-> status,
         attempt |-> attempt, retryable |-> retryable,
         duplicate |-> IF attempt > 1 THEN "retry_after_failure" ELSE "first_send",
         guidance |-> OperatorGuidance(status, retryable, "first_send"),
         feedback |-> "none"]

\* A slip of WithDelivery: the entry replaces the history.
WithDeliveryReplacing(evidence, entry) ==
    [evidence EXCEPT !.delivery = <<entry>>]

WithDelivery(evidence, entry) ==
    [evidence EXCEPT !.delivery = Append(@, entry)]

-----------------------------------------------------------------------------
(* Engineering feedback: recorded in its own list and on the newest        *)
(* delivery, whatever that delivery's target and status are                *)

FeedbackGuidance(state) ==
    CASE state = "accepted"     -> "capture_closure"
      [] state = "acknowledged" -> "keep_open"
      [] OTHER                  -> "correct_packet"

DeliveryState(state) == IF state \in DeliveryStates THEN state ELSE "acknowledged"

Annotated(delivery, state) ==
    [i \in DOMAIN delivery |->
        IF i = Len(delivery)
        THEN [delivery[i] EXCEPT !.feedback = DeliveryState(state),
                                 !.guidance = FeedbackGuidance(state)]
        ELSE delivery[i]]

FeedbackEntry(state, id) == [by |-> id, state |-> DeliveryState(state)]

\* A slip of WithFeedback: with a delivery to annotate, the list is left alone.
WithFeedbackOnDeliveryOnly(evidence, state, id) ==
    [evidence EXCEPT !.feedback = IF evidence.delivery = <<>>
                                  THEN Append(@, FeedbackEntry(state, id)) ELSE @,
                     !.delivery = Annotated(@, state)]

WithFeedback(evidence, state, id) ==
    [evidence EXCEPT !.feedback = Append(@, FeedbackEntry(state, id)),
                     !.delivery = Annotated(@, state)]

-----------------------------------------------------------------------------
(* Consistency of a row *)

\* An incident that is not resolved has the status its guardian decision calls
\* for: blocked after a rejection, needing modification after such a request,
\* and investigating otherwise.
StatusFits(r) ==
    \/ r.status = "resolved"
    \/ r.status = "blocked_by_guardian" /\ r.decision = "reject"
    \/ r.status = "needs_modification" /\ r.decision = "request_modification"
    \/ r.status = "investigating" /\ r.decision \in {"pending", "approve"}

\* The latest replay is the first entry of the history, and the history is
\* kept within its limit.
ReplaysAgree(e) ==
    /\ Len(e.history) <= ReplayLimit
    /\ IF e.history = <<>> THEN e.latest = NoReplay ELSE e.latest = Head(e.history)

\* The attempt of an entry is its rank among the entries of its target.
Rank(delivery, i) == {j \in 1..i : delivery[j].target = delivery[i].target}

Numbered(delivery) ==
    \A i \in DOMAIN delivery : delivery[i].attempt = Cardinality(Rank(delivery, i))

\* The entries that leave a target in "retrying".
Retrying(delivery, t) ==
    {i \in DOMAIN delivery : delivery[i].target = t /\ delivery[i].status = "retrying"}

\* An entry is called a first send exactly when it is the first attempt of its
\* target, and a repeat after delivery only when that target was delivered before.
ToldApart(delivery) ==
    \A i \in DOMAIN delivery :
        /\ delivery[i].duplicate = "first_send" <=> delivery[i].attempt = 1
        /\ delivery[i].duplicate = "repeat_send_after_delivery" =>
             \E j \in 1..(i - 1) : /\ delivery[j].target = delivery[i].target
                                   /\ delivery[j].status = "delivered"

\* The feedback a delivery shows is in the feedback list.
OnRecord(e) ==
    \A i \in DOMAIN e.delivery :
        e.delivery[i].feedback # "none" =>
            \E k \in DOMAIN e.feedback : e.feedback[k].state = e.delivery[i].feedback
=============================================================================
