-------------------------- MODULE IncidentHandlers --------------------------
(***************************************************************************)
(* The request handlers that change one stored incident, interleaved at    *)
(* every database access.                                                  *)
(*                                                                         *)
(* Each slot is a coroutine of the single server process.  Every database  *)
(* call runs in a thread of its own (asyncio.to_thread) and opens its own  *)
(* connection, so another request may run between any two of them.  The    *)
(* repository's update methods are two calls: a SELECT of the whole row    *)
(* (action Load) and an UPDATE that writes the whole row back (Save).      *)
(*                                                                         *)
(* The audit entry the route writes after the handler is not here: it does *)
(* not touch the row.                                                      *)
(***************************************************************************)
EXTENDS IncidentRow

CONSTANTS Slots,        \* requests the server may have in flight at a time
          Tenants,      \* tenants that send requests
          Owner,        \* the tenant the incident belongs to
          Operations,   \* the operations clients issue
          Failures,     \* whether database calls may raise and the process may die
          MaxRequests   \* bound on the number of requests of a behaviour

ASSUME HandlersAssumption ==
    /\ Operations \subseteq {"review", "execute", "replay", "send", "retry", "feedback"}
    /\ Failures \in BOOLEAN
    /\ MaxRequests \in Nat

VARIABLES row,      \* the stored incident
          req,      \* what each slot is doing: the locals of its handler
          issued,   \* number of requests started so far
          reviews,  \* guardian_reviews of the artifact file
          acked     \* requests answered with success for what they were to store

vars == <<row, req, issued, reviews, acked>>

Stages == {"idle", "read", "build", "draft", "draft_failure", "load", "save", "reread"}

Calls == {"update_incident_status", "update_incident_normalized_evidence",
          "append_incident_replay_evidence"}

Arguments == Decisions \cup Targets \cup FeedbackStates \cup {"none"}

Requests == [pc: Stages, op: Operations \cup {"none"}, arg: Arguments, id: Nat,
             owner: BOOLEAN,                     \* sent by the incident's tenant
             failing: BOOLEAN,                   \* in the except branch of a send
             retryable: BOOLEAN,                 \* is_retryable of that branch
             call: Calls,                        \* the repository method it is in
             status: Statuses,                   \* status to write
             decision: Decisions \cup {"pending"},  \* decision execute has read
             draft: Evidence,                    \* evidence to write
             snap: Rows]                         \* what that method selected

Idle == [pc |-> "idle", op |-> "none", arg |-> "none", id |-> 0, owner |-> FALSE,
         failing |-> FALSE, retryable |-> FALSE,
         call |-> "update_incident_status", status |-> "investigating",
         decision |-> "pending", draft |-> EmptyEvidence, snap |-> NewRow]

Init == /\ row = NewRow
        /\ req = [s \in Slots |-> Idle]
        /\ issued = 0
        /\ reviews = {}
        /\ acked = {}

-----------------------------------------------------------------------------
(* Control *)

At(s, stage, ops) == req[s].pc = stage /\ req[s].op \in ops

Become(s, r) == req' = [req EXCEPT ![s] = r]

Go(s, stage) == Become(s, [req[s] EXCEPT !.pc = stage])

Finish(s) == Become(s, Idle)

\* The handler enters a repository update method.
Calling(s, method, r) == Become(s, [r EXCEPT !.call = method, !.pc = "load"])

\* get_incident_for_tenant finds a row of the caller's tenant only.
EvidenceSeen(s) == IF req[s].owner THEN row.evidence ELSE EmptyEvidence

FirstStage(operation) ==
    IF operation \in {"replay", "send"} THEN "build" ELSE "read"

ArgumentsOf(operation) ==
    CASE operation = "review"             -> Decisions
      [] operation \in {"send", "retry"}  -> Targets
      [] operation = "feedback"           -> FeedbackStates
      [] OTHER                            -> {"none"}

\* A request arrives in a free slot.
Start(s) ==
    /\ req[s].pc = "idle"
    /\ issued < MaxRequests
    /\ \E operation \in Operations, tenant \in Tenants :
         \E arg \in ArgumentsOf(operation) :
            Become(s, [Idle EXCEPT !.pc = FirstStage(operation), !.op = operation,
                                   !.arg = arg, !.id = issued + 1,
                                   !.owner = (tenant = Owner)])
    /\ issued' = issued + 1
    /\ UNCHANGED <<row, reviews, acked>>

-----------------------------------------------------------------------------
(* First reads *)

\* record_guardian_decision: the next status comes from the row as it is now.
ReadForReview(s) ==
    /\ At(s, "read", {"review"})
    /\ IF req[s].owner
       THEN Calling(s, "update_incident_status",
                    [req[s] EXCEPT !.status = NextStatus(row.status, req[s].arg)])
       ELSE Finish(s)
    /\ UNCHANGED <<row, issued, reviews, acked>>

\* A slip of ReadForExecute: the guardian decision is not consulted.
ReadForExecuteUngated(s) ==
    /\ At(s, "read", {"execute"})
    /\ IF req[s].owner
       THEN Become(s, [req[s] EXCEPT !.pc = "build"])
       ELSE Finish(s)
    /\ UNCHANGED <<row, issued, reviews, acked>>

\* execute_incident: whether to execute is decided here, once.
ReadForExecute(s) ==
    /\ At(s, "read", {"execute"})
    /\ IF req[s].owner /\ MayExecute(row)
       THEN Become(s, [req[s] EXCEPT !.pc = "build", !.decision = row.decision])
       ELSE Finish(s)
    /\ UNCHANGED <<row, issued, reviews, acked>>

\* A slip of ReadForRetry: any earlier attempt may be retried.
ReadForRetryAny(s) ==
    /\ At(s, "read", {"retry"})
    /\ IF req[s].owner /\ LastStatus(row.evidence.delivery, req[s].arg) # "none"
       THEN Go(s, "build")
       ELSE Finish(s)
    /\ UNCHANGED <<row, issued, reviews, acked>>

\* retry_delivery_handoff: refused with no attempt or after a terminal one.
ReadForRetry(s) ==
    /\ At(s, "read", {"retry"})
    /\ IF /\ req[s].owner
          /\ LastStatus(row.evidence.delivery, req[s].arg) \in {"delivered", "retrying"}
       THEN Go(s, "build")
       ELSE Finish(s)
    /\ UNCHANGED <<row, issued, reviews, acked>>

\* submit_engineering_feedback: a missing row reads as empty evidence.
ReadForFeedback(s) ==
    /\ At(s, "read", {"feedback"})
    /\ Calling(s, "update_incident_normalized_evidence",
               [req[s] EXCEPT
                  !.draft = WithFeedback(EvidenceSeen(s), req[s].arg, req[s].id)])
    /\ UNCHANGED <<row, issued, reviews, acked>>

-----------------------------------------------------------------------------
(* The incident context: several reads and agent calls that change nothing *)

BuildContext(s) ==
    /\ At(s, "build", {"execute", "replay", "send", "retry"})
    /\ req[s].owner
    /\ IF req[s].op = "replay"
       THEN Calling(s, "append_incident_replay_evidence", req[s])
       ELSE Go(s, "draft")
    /\ UNCHANGED <<row, issued, reviews, acked>>

\* The context cannot be built: no such incident for this tenant, or any error
\* on the way.  A send records the failure, the others answer with an error.
BuildRaises(s) ==
    /\ At(s, "build", {"execute", "replay", "send", "retry"})
    /\ IF req[s].op \in {"send", "retry"}
       THEN \E retryable \in IF req[s].owner THEN BOOLEAN ELSE {FALSE} :
               Become(s, [req[s] EXCEPT !.pc = "draft_failure", !.failing = TRUE,
                                        !.retryable = retryable])
       ELSE /\ Failures \/ ~req[s].owner
            /\ Finish(s)
    /\ UNCHANGED <<row, issued, reviews, acked>>

-----------------------------------------------------------------------------
(* Evidence drafts: a copy of the stored evidence, changed in memory *)

DraftOutcome(s) ==
    /\ At(s, "draft", {"execute"})
    /\ Calling(s, "update_incident_normalized_evidence",
               [req[s] EXCEPT !.draft = WithOutcome(EvidenceSeen(s), req[s].decision)])
    /\ UNCHANGED <<row, issued, reviews, acked>>

DraftDelivery(s) ==
    /\ At(s, "draft", {"send", "retry"})
    /\ LET seen == EvidenceSeen(s)
       IN  Calling(s, "update_incident_normalized_evidence",
                   [req[s] EXCEPT !.draft = WithDelivery(seen,
                        DeliveredEntry(seen.delivery, req[s].arg, req[s].id))])
    /\ UNCHANGED <<row, issued, reviews, acked>>

DraftFailure(s) ==
    /\ At(s, "draft_failure", {"send", "retry"})
    /\ LET seen == EvidenceSeen(s)
       IN  Calling(s, "update_incident_normalized_evidence",
                   [req[s] EXCEPT !.draft = WithDelivery(seen,
                        FailedEntry(seen.delivery, req[s].arg, req[s].retryable, req[s].id))])
    /\ UNCHANGED <<row, issued, reviews, acked>>

-----------------------------------------------------------------------------
(* The repository's update methods and what the handlers do after them *)

\* Requests whose answer says that what they were to store is stored.
Acknowledges(r) == r.op \in {"send", "retry", "feedback"} /\ ~r.failing

\* The handler goes on once the update method has returned.
AfterUpdate(s) ==
    CASE req[s].call = "update_incident_status" -> Go(s, "reread") /\ UNCHANGED acked
      [] req[s].call # "update_incident_status" /\ req[s].op = "execute" ->
            /\ Calling(s, "update_incident_status", [req[s] EXCEPT !.status = "resolved"])
            /\ UNCHANGED acked
      [] OTHER -> /\ Finish(s)
                  /\ acked' = IF Acknowledges(req[s]) THEN acked \cup {req[s].id} ELSE acked

\* A slip of Load: the row is selected once and then reused.
LoadOnce(s) ==
    /\ req[s].pc = "load"
    /\ IF req[s].owner
       THEN Become(s, [req[s] EXCEPT !.pc = "save"]) /\ UNCHANGED acked
       ELSE AfterUpdate(s)
    /\ UNCHANGED <<row, issued, reviews>>

\* SELECT of the row.  A caller of another tenant finds none: the method
\* returns None, which only a review reports; feedback is acknowledged as usual.
Load(s) ==
    /\ req[s].pc = "load"
    /\ IF req[s].owner
       THEN /\ Become(s, [req[s] EXCEPT !.pc = "save", !.snap = row])
            /\ UNCHANGED acked
       ELSE AfterUpdate(s)
    /\ UNCHANGED <<row, issued, reviews>>

\* The row an update method writes: what it selected, changed.
Written(r) ==
    CASE r.call = "update_incident_status" ->
            [r.snap EXCEPT !.status = r.status,
                           !.decision = IF r.op = "review" THEN r.arg ELSE @]
      [] r.call = "append_incident_replay_evidence" ->
            [r.snap EXCEPT !.evidence = WithReplay(@, r.id)]
      [] OTHER -> [r.snap EXCEPT !.evidence = r.draft]

\* UPDATE of the row with all of its contents.
Save(s) ==
    /\ req[s].pc = "save"
    /\ row' = Written(req[s])
    /\ AfterUpdate(s)
    /\ UNCHANGED <<issued, reviews>>

\* The SELECT that follows the commit of a status update: a review records in
\* the artifact file the decision it finds there, as its own.
Reread(s) ==
    /\ req[s].pc = "reread"
    /\ reviews' = IF req[s].op = "review"
                  THEN reviews \cup {[by |-> req[s].id, asked |-> req[s].arg,
                                      recorded |-> row.decision]}
                  ELSE reviews
    /\ Finish(s)
    /\ UNCHANGED <<row, issued, acked>>

-----------------------------------------------------------------------------
(* Failures *)

\* A slip of Raise: the except branch of a send is entered again and again.
RaiseAgain(s) ==
    IF req[s].op \in {"send", "retry"} /\ req[s].pc \in {"draft", "load", "save"}
    THEN Become(s, [req[s] EXCEPT !.pc = "draft_failure", !.failing = TRUE])
    ELSE Finish(s)

\* Where an exception takes the handler: a send's except branch records the
\* failure (once), every other handler ends.
Raise(s) ==
    IF req[s].op \in {"send", "retry"} /\ ~req[s].failing
       /\ req[s].pc \in {"draft", "load", "save"}
    THEN Become(s, [req[s] EXCEPT !.pc = "draft_failure", !.failing = TRUE])
    ELSE Finish(s)

\* A database call raises, for instance because the database stays locked
\* longer than the busy timeout.  Nothing was written.
DatabaseRaises(s) ==
    /\ Failures
    /\ req[s].pc \in {"read", "draft", "draft_failure", "load", "save", "reread"}
    /\ Raise(s)
    /\ UNCHANGED <<row, issued, reviews, acked>>

\* The update commits and the call raises after the commit.
SaveThenRaises(s) ==
    /\ Failures
    /\ req[s].pc = "save"
    /\ row' = Written(req[s])
    /\ Raise(s)
    /\ UNCHANGED <<issued, reviews, acked>>

\* The process dies and is started again: requests are gone, the row is kept.
Restart ==
    /\ Failures
    /\ req # [s \in Slots |-> Idle]
    /\ req' = [s \in Slots |-> Idle]
    /\ UNCHANGED <<row, issued, reviews, acked>>

-----------------------------------------------------------------------------

Handle(s) ==
    \/ ReadForReview(s) \/ ReadForExecute(s) \/ ReadForRetry(s) \/ ReadForFeedback(s)
    \/ BuildContext(s) \/ BuildRaises(s)
    \/ DraftOutcome(s) \/ DraftDelivery(s) \/ DraftFailure(s)
    \/ Load(s) \/ Save(s) \/ Reread(s)

Next == \/ \E s \in Slots : \/ Start(s)
                            \/ Handle(s)
                            \/ DatabaseRaises(s)
                            \/ SaveThenRaises(s)
        \/ Restart

Spec == Init /\ [][Next]_vars

\* The event loop runs every ready coroutine again and again, and a database
\* call returns or raises within the busy timeout of five seconds.
FairSpec == Spec /\ \A s \in Slots : WF_vars(Handle(s))

-----------------------------------------------------------------------------
(* Properties that hold whatever the interleaving *)

TypeOK ==
    /\ row \in Rows
    /\ req \in [Slots -> Requests]
    /\ issued \in Nat
    /\ reviews \subseteq [by: Nat, asked: Decisions, recorded: Decisions \cup {"pending"}]
    /\ acked \subseteq Nat

\* The status an open incident has is the one its guardian decision calls for,
\* although execute, review and the evidence updates write the row from copies
\* read at different times.
StatusFitsDecision == StatusFits(row)

\* The replay the console shows as the latest is the first of the history, and
\* the history is within its limit, whoever overwrote whose evidence.
LatestReplayIsHead == ReplaysAgree(row.evidence)

\* The attempts of a target are numbered 1, 2, 3, ... in the order of the
\* history, even when concurrent sends overwrite each other's entries.
AttemptsNumbered == Numbered(row.evidence.delivery)

\* A target is left in "retrying" at most twice: the third failure is terminal.
RetryBudget ==
    \A t \in Targets : Cardinality(Retrying(row.evidence.delivery, t)) < RetryLimit

\* First sends, retries and repeats are told apart by what the history holds.
DuplicatesToldApart == ToldApart(row.evidence.delivery)

\* Whatever feedback a delivery shows is on record in engineering_feedback.
FeedbackOnRecord == OnRecord(row.evidence)

\* Every request that enters the server leaves it.
AllAnswered == \A s \in Slots : (req[s].pc # "idle") ~> (req[s].pc = "idle")

-----------------------------------------------------------------------------
(* Properties that hold when requests are handled one at a time, with       *)
(* failures and restarts                                                   *)

\* A resolved incident stays resolved, whatever is reviewed or executed later.
ResolutionIsFinal == [][row.status = "resolved" => row'.status = "resolved"]_row

\* The step that resolves an incident finds it neither rejected nor sent back
\* for modification by its guardian.
NoResolutionAfterRejection ==
    [][(row.status # "resolved" /\ row'.status = "resolved") =>
          row.decision \notin {"reject", "request_modification"}]_row

\* A resolved incident has the outcome of its execution in its evidence.
ResolvedHasOutcome == row.status = "resolved" => row.evidence.outcome # NoOutcome

\* A retry never adds an attempt to a target whose last one failed terminally.
NoRetryAfterTerminal ==
    [][\A s \in Slots :
          (req[s].op = "retry" /\ row'.evidence.delivery # row.evidence.delivery) =>
              LastStatus(row.evidence.delivery, req[s].arg) # "terminal_failure"]_vars

\* What was answered with success is in the stored evidence.
AcknowledgedIsStored ==
    \A id \in acked :
        \/ \E i \in DOMAIN row.evidence.delivery : row.evidence.delivery[i].by = id
        \/ \E i \in DOMAIN row.evidence.feedback : row.evidence.feedback[i].by = id

\* The handlers implement the abstract store: every change of the row is one
\* operation applied to the row as it is at that moment.
Store == INSTANCE IncidentStore WITH Ids <- 1..MaxRequests

ImplementsStore == Store!Spec

\* The artifact recorded for a review names the decision its reviewer took.
ReviewsRecordedAsAsked == \A r \in reviews : r.recorded = r.asked
-----------------------------------------------------------------------------
(* What the documentation says and the handlers do not keep *)

\* "Guardian approval required before any action": the step that resolves an
\* incident finds it approved.
ExecutionNeedsApproval ==
    [][(row.status # "resolved" /\ row'.status = "resolved") =>
          row.decision = "approve"]_row
=============================================================================
