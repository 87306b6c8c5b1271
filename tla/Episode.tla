------------------------------- MODULE Episode -------------------------------
(***************************************************************************)
(* One episode of the agent pipeline: NexusCore.run_episode of             *)
(* server/services/enterprise_runtime.py with the agents of server/agents, *)
(* as build_demo_payload of server/services/live_demo.py calls it.         *)
(*                                                                         *)
(* The pipeline is a chain of nodes that share one state.  An agent with a *)
(* language model may answer anything, or fail; a node that raises ends    *)
(* the episode, and the demo then runs it again without models.  Three     *)
(* nodes build the replica summary of the incident anew, from an           *)
(* inspection, and where the host is set to execute replays from a replay, *)
(* of that moment.                                                         *)
(***************************************************************************)
EXTENDS ReplicaSummary

CONSTANTS Incidents,    \* catalogue entries: family, pack, severity, minutes
          ModelLabels,  \* severities a model may answer with
          Scores,       \* best and second best score of the classifier
          Confidences,  \* confidence of a diagnosis, in hundredths
          MaxChanges    \* bound on the changes of the compose tool

ASSUME EpisodeAssumption ==
    /\ Incidents \subseteq [family: Families, pack: Packs \cup {NoPack}, severity: {"P0", "P1", "P2"},
                            minutes: {6, 10, 15, 22}]
    /\ ModelLabels \subseteq DigitLabels \cup Aliases \cup {"P12", "", "SEV1"}
    /\ Scores \subseteq Nat \X Nat
    /\ Confidences \subseteq 0..100
    /\ MaxChanges \in Nat

VARIABLES incident,   \* the catalogue entry of the alert
          live,       \* whether the agents use language models
          runtime,    \* NEXUS_ENABLE_REPLICA_RUNTIME
          tool, changes,
          node,       \* the next node of the graph, "raised", "hung" or "done"
          board,      \* the status of each task
          sentinel,   \* classification: severity, and whether the entry is the alert's
          memory,     \* nearest incident and runbook, and whether there is one
          diagnosis,  \* its confidence, whether it is the catalogue's, how it reads
          plan,       \* the runbook: its action and the patterns that block it
          review,     \* what GUARDIAN decided
          shown,      \* the summaries built so far, by node
          report      \* the episode that is returned

vars == <<incident, live, runtime, tool, changes, node, board, sentinel, memory, diagnosis, plan,
          review, shown, report>>

\* The fix a runbook proposes: one that REPLICA lists, or another.
Actions == {"roll back retry middleware", "other action"}

Tasks == {"sentinel-classify", "prism-evidence", "prism-deployment", "prism-history",
          "replica-validate", "trace-debug", "forge-plan", "guardian-policy"}
Statuses == {"none", "queued", "active", "completed", "fallback", "blocked",
             "reproduced", "not_run", "narrowed", "completed_with_inference"}

Unclassified == [severity |-> "", own |-> FALSE]
NoMemory == [found |-> FALSE, near |-> 0, similarity |-> 0, success |-> 0]
\* A diagnosis is read for a family of failures, and with it for a pack.
Readings == {[family |-> i.family, pack |-> i.pack] : i \in Incidents}
Reading(i) == [family |-> i.family, pack |-> i.pack]

Undiagnosed == [confidence |-> 0, right |-> FALSE, reading |-> [family |-> "", pack |-> NoPack]]
NoPlan == [action |-> "", blocked |-> 0, valid |-> FALSE, empty |-> FALSE]
Unreviewed == [decision |-> "", risk |-> "", level |-> "", rollback |-> ""]
NoReport == [status |-> "", executed |-> FALSE, verified |-> FALSE, branches |-> 0, reward |-> 0]

\* The state a run of the graph starts from.
Cleared(n) ==
  /\ node' = n
  /\ board' = [t \in Tasks |-> "none"]
  /\ sentinel' = Unclassified /\ memory' = NoMemory /\ diagnosis' = Undiagnosed /\ plan' = NoPlan
  /\ review' = Unreviewed /\ shown' = <<>>
  /\ report' = NoReport

Init == /\ incident \in Incidents
        /\ live \in BOOLEAN /\ runtime \in BOOLEAN
        /\ tool \in {"works", "absent"} /\ changes = 0
        /\ node = "fetch_context"
        /\ board = [t \in Tasks |-> "none"]
        /\ sentinel = Unclassified /\ memory = NoMemory /\ diagnosis = Undiagnosed /\ plan = NoPlan
        /\ review = Unreviewed /\ shown = <<>> /\ report = NoReport

Host == <<incident, live, runtime, tool, changes>>

\* _set_task_status.
Marks(status) == board' = [t \in Tasks |-> IF t \in DOMAIN status THEN status[t] ELSE board[t]]

Raises == /\ node' = "raised"
          /\ UNCHANGED <<Host, board, sentinel, memory, diagnosis, plan, review, shown, report>>

-----------------------------------------------------------------------------
(* The summary of the moment *)

ExecutesWith(r, t, pack) == r /\ pack # NoPack /\ t = "works" /\ ~AssetsMissing(pack)

MayExecute == ExecutesWith(runtime, tool, diagnosis.reading.pack)

Results(r, t, pack) ==
  IF ~ExecutesWith(r, t, pack) THEN {NoResult}
  ELSE IF pack = "catalog" THEN {Measured(pack)}
  ELSE {Measured(pack), Disturbed(pack)}

\* The summaries that can be built of a diagnosis, a proposed fix and a host.
Summaries ==
  [d \in Readings |-> [action \in Actions |-> [t \in Tools |-> [r \in BOOLEAN |->
     {build_replica_summary(d.family, d.pack, {action}, SeenWith(t, d.pack), result, FALSE, "", "") :
        result \in Results(r, t, d.pack)}]]]]

SummariesNow(action) == Summaries[diagnosis.reading][action][tool][runtime]

-----------------------------------------------------------------------------
(* The agents *)

\* SentinelAgent: the score of the best entry against the second best.
ClassifierConfidence(best, second) ==
  IF best = 0 THEN 0 ELSE Min({99, 60 + (40 * best) \div (best + second)})

Ambiguous(best, second, mixed) == best > 0 /\ (10 * second >= 8 * best \/ mixed)

Escalates(best, second, mixed) ==
  live /\ (Ambiguous(best, second, mixed) \/ best < 8 \/ ClassifierConfidence(best, second) < 85)

\* The severity is that of the entry that matches best, or the label of a model
\* that picks an entry of the catalogue, and that entry's if it gives none.
Classification(best, second, mixed, match, label) ==
  [severity |-> IF Escalates(best, second, mixed) /\ label \notin {"", "no entry"}
                THEN normalize_priority_label(label) ELSE match.severity,
   own |-> match = incident]

SafetyScore(blocked) == Max({0, 100 - 35 * blocked})

\* A slip of GUARDIAN: blocked patterns only lower the score.
ReviewByScore(severity, confidence, blocked, valid) ==
  IF ~valid THEN "reject"
  ELSE IF 60 * SafetyScore(blocked) + 40 * confidence >= 100 * ThresholdForSeverity(severity) THEN "approve"
  ELSE "request_modification"

\* GuardianAgent.review.
Review(severity, confidence, blocked, valid) ==
  IF ~valid \/ blocked > 0 THEN "reject"
  ELSE IF 60 * SafetyScore(blocked) + 40 * confidence >= 100 * ThresholdForSeverity(severity) THEN "approve"
  ELSE "request_modification"

-----------------------------------------------------------------------------
(* The nodes *)

fetch_context_node ==
  /\ node = "fetch_context"
  /\ node' = "sentinel"
  /\ Marks([t \in Tasks |-> "queued"])
  /\ UNCHANGED <<Host, sentinel, memory, diagnosis, plan, review, shown, report>>

sentinel_node ==
  /\ node = "sentinel"
  /\ \E s \in Scores : \E mixed \in BOOLEAN : \E match \in Incidents :
        \E label \in ModelLabels \cup {"no entry"} :
           sentinel' = Classification(s[1], s[2], mixed, match, label)
  /\ node' = "prism_plan"
  /\ Marks([t \in {"sentinel-classify"} |-> "completed"])
  /\ UNCHANGED <<Host, memory, diagnosis, plan, review, shown, report>>

prism_plan_node ==
  /\ node = "prism_plan"
  /\ node' = "prism_evidence"
  /\ Marks([t \in {"prism-evidence", "prism-deployment", "prism-history"} |-> "active"])
  /\ UNCHANGED <<Host, sentinel, memory, diagnosis, plan, review, shown, report>>

prism_evidence_node ==
  /\ node = "prism_evidence"
  /\ node' = "prism_deployment"
  /\ Marks([t \in {"prism-evidence"} |-> "completed"])
  /\ UNCHANGED <<Host, sentinel, memory, diagnosis, plan, review, shown, report>>

\* A slip of the branch: without deployments it is left open.
DeploymentBranchSkipped ==
  /\ node = "prism_deployment"
  /\ node' = "prism_history"
  /\ UNCHANGED <<Host, board, sentinel, memory, diagnosis, plan, review, shown, report>>

prism_deployment_node ==
  /\ node = "prism_deployment"
  /\ node' = "prism_history"
  /\ Marks([t \in {"prism-deployment"} |-> "completed"])
  /\ UNCHANGED <<Host, sentinel, memory, diagnosis, plan, review, shown, report>>

prism_history_node ==
  /\ node = "prism_history"
  /\ memory' \in {NoMemory} \cup
                 [found: {TRUE}, near: {0, 40}, similarity: {93}, success: {80}]
  /\ node' = "prism_synthesize"
  /\ Marks([t \in {"prism-history"} |-> IF memory'.found THEN "completed" ELSE "fallback"])
  /\ UNCHANGED <<Host, sentinel, diagnosis, plan, review, shown, report>>

\* Without a model the cause is that of the entry SENTINEL chose; a model may
\* name any, and its words decide how the failure is read.
Causes ==
  LET own == [right |-> TRUE, reading |-> Reading(incident)]
      other == [right : {FALSE}, reading : Readings]
  IN IF live THEN other \cup {own} ELSE IF sentinel.own THEN {own} ELSE other

\* A model's diagnosis that is not well formed raises.
prism_synthesize_node ==
  /\ node = "prism_synthesize"
  /\ \/ /\ \E c \in Confidences : \E cause \in Causes :
              /\ live \/ c \in 75..99
              /\ diagnosis' = [confidence |-> c, right |-> cause.right, reading |-> cause.reading]
        /\ node' = "forge"
        /\ UNCHANGED <<Host, board, sentinel, memory, plan, review, shown, report>>
     \/ live /\ Raises

\* A runbook may be empty, which parses and is not blocked.
Runbooks == {p \in [action: Actions, blocked: {0, 1}, valid: BOOLEAN, empty: BOOLEAN] :
               p.empty => p.valid /\ p.blocked = 0}
FixedRunbook == [action |-> "other action", blocked |-> 0, valid |-> TRUE, empty |-> FALSE]

\* ForgeAgent refuses a runbook that does not parse.
forge_node ==
  /\ node = "forge"
  /\ \E p \in IF live THEN Runbooks ELSE {FixedRunbook} :
       IF ~p.valid THEN Raises
       ELSE \E summary \in SummariesNow(p.action) :
               /\ plan' = p
               /\ shown' = [forge |-> summary]
               /\ memory' = IF memory.found THEN enrich_memory_with_runtime(memory, summary) ELSE memory
               /\ Marks([t \in {"replica-validate", "trace-debug", "forge-plan"} |->
                           CASE t = "replica-validate" -> IF summary.reproduced THEN "reproduced" ELSE "not_run"
                             [] t = "trace-debug" -> TraceStatus(summary)
                             [] OTHER -> "completed"])
               /\ node' = "guardian"
               /\ UNCHANGED <<Host, sentinel, diagnosis, review, report>>

\* GUARDIAN's review, with the summary it has built.
Reviewed(decision, summary) ==
  LET risk == RiskClass(sentinel.severity, summary.outcome)
  IN [decision |-> decision, risk |-> risk, level |-> ApprovalLevel(risk),
      rollback |-> IF decision = "approve" THEN "ready" ELSE "needs_review"]

guardian_node ==
  /\ node = "guardian" /\ ~plan.empty
  /\ \E summary \in SummariesNow(plan.action) :
       LET decision == Review(sentinel.severity, diagnosis.confidence, plan.blocked, plan.valid)
       IN /\ review' = Reviewed(decision, summary)
          /\ shown' = [forge |-> shown.forge, guardian |-> summary]
          /\ Marks([t \in {"guardian-policy"} |-> IF decision = "approve" THEN "completed" ELSE "blocked"])
  /\ node' = "finalize"
  /\ UNCHANGED <<Host, sentinel, memory, diagnosis, plan, report>>

\* GUARDIAN refuses to review an empty runbook.
GuardianRefuses ==
  /\ node = "guardian" /\ plan.empty
  /\ Raises

\* compute_episode_reward, in 1200ths: the catalogue's own diagnosis counts 300,
\* coordination 180.
Reward(executed, right, penalty) ==
  LET minutes == IF executed THEN incident.minutes ELSE incident.minutes + 8
      sum == 12 * (30 - minutes) + (IF right THEN 300 ELSE 0)
               + (IF executed THEN 220 ELSE 0) + 180 + (IF executed THEN 60 ELSE 30)
  IN Min({1200, Max({0, sum - 12 * penalty})})

BranchRate ==
  LET branches == {"prism-evidence", "prism-deployment", "prism-history"}
  IN (100 * Cardinality({t \in branches : board[t] = "completed"}) + 1) \div 3

\* A reward with a penalty above 1 is not a valid record: the node raises.
finalize_node ==
  LET executed == review.decision = "approve"
      verified == executed /\ plan.valid
      penalty == SeverityPenalty(sentinel.severity, incident.severity)
  IN /\ node = "finalize"
     /\ IF penalty > 100 THEN Raises
        ELSE \E summary \in SummariesNow(plan.action) :
                /\ shown' = [forge |-> shown.forge, guardian |-> shown.guardian, final |-> summary]
                /\ memory' = IF memory.found THEN enrich_memory_with_runtime(memory, summary) ELSE memory
                /\ report' = [status |-> IF verified THEN "resolved" ELSE "blocked_by_guardian",
                              executed |-> executed, verified |-> verified,
                              branches |-> BranchRate, reward |-> Reward(executed, diagnosis.right, penalty)]
                /\ node' = "done"
                /\ UNCHANGED <<Host, board, sentinel, diagnosis, plan, review>>

\* Where the host executes replays, building a summary may raise: a script or
\* the compose tool fails.
ReplayRaises ==
  /\ node \in {"forge", "guardian", "finalize"}
  /\ MayExecute
  /\ Raises

\* The compose tool is asked for the configuration of the pack, and to execute
\* it, without a timeout.
Hangs ==
  /\ node \in {"forge", "guardian", "finalize"}
  /\ tool = "works" /\ diagnosis.reading.pack # NoPack
  /\ node' = "hung"
  /\ UNCHANGED <<Host, board, sentinel, memory, diagnosis, plan, review, shown, report>>

\* A slip of the demo: the failure of a model ends it.
NeverAgain == FALSE

\* build_demo_payload runs a failed episode again, without models.
RunAgain ==
  /\ node = "raised" /\ live
  /\ live' = FALSE
  /\ Cleared("fetch_context")
  /\ UNCHANGED <<incident, runtime, tool, changes>>

ChangeTool ==
  /\ changes < MaxChanges /\ node \notin {"done", "hung"}
  /\ changes' = changes + 1
  /\ tool' \in Tools \ {tool}
  /\ UNCHANGED <<incident, live, runtime, node, board, sentinel, memory, diagnosis, plan, review, shown, report>>

Step == \/ fetch_context_node \/ sentinel_node
        \/ prism_plan_node \/ prism_evidence_node \/ prism_deployment_node \/ prism_history_node
        \/ prism_synthesize_node \/ forge_node \/ guardian_node \/ GuardianRefuses \/ finalize_node
        \/ ReplayRaises \/ Hangs \/ RunAgain

Next == Step \/ ChangeTool

Spec == Init /\ [][Next]_vars

\* The graph is awaited to its end, and the models' calls have timeouts.  That
\* the compose tool returns is not assumed.
FairSpec == Spec /\ WF_vars(Step)

-----------------------------------------------------------------------------
(* Properties *)

Done == node = "done"

\* Every variable has its type, and the severity is one that ranks.
TypeOK ==
  /\ incident \in Incidents /\ live \in BOOLEAN /\ runtime \in BOOLEAN
  /\ board \in [Tasks -> Statuses]
  /\ memory.similarity \in 0..99 /\ memory.success \in 0..99
  /\ diagnosis.confidence \in 0..100
  /\ review.decision \in {"", "approve", "reject", "request_modification"}
  /\ report.reward \in 0..1200
  /\ changes \in 0..MaxChanges

\* What is executed has passed GUARDIAN's review for the severity that the
\* episode reports, whichever agent answered what: it parses, holds no
\* blocked pattern, and is confident enough.
OnlyVettedPlansAreExecuted ==
  Done /\ report.executed =>
     /\ plan.valid /\ plan.blocked = 0
     /\ 60 * 100 + 40 * diagnosis.confidence >= 100 * ThresholdForSeverity(sentinel.severity)
     /\ review.rollback = "ready" /\ report.status = "resolved"

\* A finished episode has no task that still waits or is under way, and the
\* share of finished branches and GUARDIAN's task tell what happened.
NoTaskIsForgotten ==
  Done => /\ \A t \in Tasks : board[t] \notin {"none", "queued", "active"}
          /\ report.branches = IF memory.found THEN 100 ELSE 67
          /\ (board["guardian-policy"] = "completed") = report.executed

\* A risk other than that of the bare severity is below it, and comes from a
\* replay that was executed and measured: one whose baseline failed and whose
\* best rerun did not, or, for a P2 only, one that a rerun improved on.  An
\* incident manager is asked for exactly when the risk is high.
RiskIsLoweredByMeasurement ==
  LET measured == shown.guardian
  IN review.risk # "" =>
       /\ (review.risk = "high") = (review.level = "incident_manager")
       /\ review.risk # RiskClass(sentinel.severity, "") =>
             /\ measured.executed /\ review.risk # "high"
             /\ \/ measured.outcome = "resolved" /\ measured.base.status >= 500
                \/ /\ measured.outcome = "improved" /\ measured.base.status > 0
                   /\ priority_rank(sentinel.severity) = 2

\* "{action} is the leading scaffold-only mitigation candidate" and "Scaffold-only
\* mode ranked '{action}' as the leading mitigation candidate": the two sentences
\* of one summary (server/services/replay.py:824, :920) name one action.
OneLeadingCandidate ==
  \A n \in DOMAIN shown : shown[n].best = shown[n].ladder.primary

\* Whatever the models answer, the demo ends with a report, unless the host
\* executes replays, which may fail again, or its compose tool hangs.
EveryDemoIsReported == ~runtime ~> Done \/ node = "hung"
=============================================================================
