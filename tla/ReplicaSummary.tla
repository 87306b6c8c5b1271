---------------------------- MODULE ReplicaSummary ----------------------------
(***************************************************************************)
(* What REPLICA and TRACE report of an incident, and what the report does  *)
(* to the fixes and memories that are shown with it                        *)
(* (server/services/replay.py, enterprise_runtime.py, incidents.py).       *)
(* Pure definitions: Episode and Evidence use them.                        *)
(*                                                                         *)
(* A result is what build_replica_summary is given or has run itself: the  *)
(* baseline and the reruns of an execution, NoResult when there is none.   *)
(***************************************************************************)
EXTENDS ReplicaPacks, Priority

NoResult == [given |-> FALSE, base |-> NoSignal, reruns |-> <<>>]
Result(base, reruns) == [given |-> TRUE, base |-> base, reruns |-> reruns]

\* What an inspection sees of a pack with the compose tool in a state.
Tools == {"works", "invalid", "absent"}

SeenWith(compose, pack) == [missing |-> AssetsMissing(pack), docker |-> compose # "absent", valid |-> compose = "works"]

\* What a run of all hooks measures, from the defaults.
Measured(pack) ==
  Result(ReplaySignal(pack, DirAfter(pack, 0), TRUE),
         [i \in 1 .. Len(MitigationHooks(pack)) |-> ReplaySignal(pack, DirAfter(pack, i), TRUE)])

\* A run that another one disturbs finds no service for a while.
Disturbed(pack) ==
  Result(Unreachable, [i \in 1 .. Len(MitigationHooks(pack)) |->
                         ReplaySignal(pack, Defaults(pack), TRUE)])

\* _runtime_host_capability of the app host.  Any result at all counts.
CapabilityOfApp(pack, seen, result, relay) ==
  IF result.given THEN "replay_executed"
  ELSE IF pack = NoPack \/ seen.missing THEN "no_pack"
  ELSE IF ~seen.docker THEN (IF relay THEN "relay_available" ELSE "host_unavailable")
  ELSE IF seen.valid THEN "replay_available"
  ELSE "pack_validation_required"

RuntimeMode(pack, seen, result) ==
  IF result.given THEN "runtime_scaffold"
  ELSE IF pack # NoPack /\ ~seen.missing THEN "pack_scaffold" ELSE "inferred"

RuntimeProvenance(mode, executed, capability) ==
  IF executed THEN (IF mode = "relay_runtime_scaffold" THEN "delegated_relay" ELSE "direct_runtime")
  ELSE CASE capability = "relay_available" -> "relay_ready"
         [] capability = "replay_available" -> "direct_ready"
         [] capability = "host_unavailable" -> "runtime_unavailable"
         [] OTHER -> "inferred_only"

BaselineOutcome(reproduced, result) ==
  IF result.given
  THEN (IF result.base.status >= 500 THEN "reproduced"
        ELSE IF result.base.status # 0 THEN "validated" ELSE "not_run")
  ELSE IF reproduced THEN "reproduced" ELSE "not_run"

\* Checks that were not measured have no score.
Unmeasured(checks) ==
  [i \in 1 .. Len(checks) |->
     [action |-> checks[i].action, delta |-> checks[i].delta, outcome |-> "inferred_only", score |-> 0]]

\* _runtime_override_mitigations: measured rows are ranked, others keep the
\* order of the checks.
TestedMitigations(result, checks) ==
  IF result.given /\ result.reruns # <<>>
  THEN rank_runtime_mitigations(runtime_override_mitigations(result.base, result.reruns, checks))
  ELSE Unmeasured(checks)

\* The comparison ranks the rows once more.
LadderOf(tested) == build_mitigation_ladder(rank_runtime_mitigations(tested))

\* build_replica_summary, with the overrides of a relayed replay in "mode" and
\* "capability" ("" for none).
build_replica_summary(family, pack, candidates, seen, result, relay, mode, capability) ==
  LET branch == Branch(family, pack)
      tested == TestedMitigations(result, build_mitigation_checks(candidates, FallbackChecks(branch)))
      finalMode == IF mode = "" THEN RuntimeMode(pack, seen, result) ELSE mode
      state == IF capability = "" THEN CapabilityOfApp(pack, seen, result, relay) ELSE capability
  IN [reproduced |-> branch # "none",
      executed   |-> result.given,
      base       |-> result.base,
      mode       |-> finalMode,
      capability |-> state,
      provenance |-> RuntimeProvenance(finalMode, result.given, state),
      baseline   |-> BaselineOutcome(branch # "none", result),
      best       |-> IF Len(tested) > 0 THEN tested[1].action ELSE "",
      outcome    |-> IF Len(tested) > 0 THEN tested[1].outcome ELSE "",
      score      |-> IF Len(tested) > 0 THEN tested[1].score ELSE 0,
      ladder     |-> LadderOf(tested)]

\* A slip of the relay: whatever the host answers has been executed.
DelegatedAlwaysRan(family, pack, candidates, seen, status, result) ==
  build_replica_summary(family, pack, candidates, seen, result, TRUE, "relay_runtime_scaffold", "relay_executed")

\* trigger_replica_replay with a relay: the host's answer is built into a second
\* summary, the result of its inspection if it has run nothing.
DelegatedSummary(family, pack, candidates, seen, status, result) ==
  build_replica_summary(family, pack, candidates, seen, result, TRUE, "relay_runtime_scaffold",
                        IF status = "replay_executed" THEN "relay_executed" ELSE "relay_available")

\* The status and the final state of the job of a triggered replay.
TriggeredStatus(capability) ==
  CASE capability \in {"replay_executed", "relay_executed"} -> capability
    [] capability \in {"relay_available", "replay_available"} -> "replay_available"
    [] capability \in {"host_unavailable", "pack_validation_required"} -> "host_unavailable"
    [] OTHER -> "unsupported"

JobState(status) == IF status \in {"replay_executed", "relay_executed"} THEN "completed" ELSE "failed"

TraceStatus(summary) == IF summary.reproduced THEN "narrowed" ELSE "completed_with_inference"

\* EvidencePosture.validated_clause, which the reviews quote.
ValidatedClause(executed, outcome) ==
  IF ~executed THEN "inferred"
  ELSE IF outcome \in {"resolved", "improved"} THEN outcome ELSE "not resolved"

-----------------------------------------------------------------------------
(* Fixes and memories *)

\* The words of an action, without those of one or two letters.
Words(action) ==
  CASE action = "open breaker and cap retries" -> {"enable", "auth", "svc", "circuit", "breaker", "and", "cap", "retries"}
    [] action = "roll back retry middleware" -> {"roll", "back", "auth", "svc", "retry", "middleware"}
    [] action = "drain pods" -> {"drain", "hot", "gateway", "pods", "and", "scale", "replicas"}
    [] action = "terminate sessions and restart" ->
         {"terminate", "orphaned", "sessions", "and", "restart", "checkout", "pods"}
    [] action = "roll back retry patch" -> {"roll", "back", "checkout", "retry", "patch"}
    [] action = "increase pool size" -> {"increase", "pool", "size", "temporarily", "650"}
    [] action = "reset breaker and token cache" ->
         {"reset", "circuit", "breaker", "and", "force", "token", "cache", "invalidation", "restore", "auth", "throughput"}
    [] action = "increase auth timeout" ->
         {"temporarily", "increase", "auth", "svc", "timeout", "and", "cache", "ttl", "smooth", "the", "validation", "latency"}
    [] action = "roll back auth-svc" ->
         {"roll", "back", "auth", "svc", "recover", "from", "enhanced", "validation", "overhead"}
    [] action = "roll back consumer" -> {"roll", "back", "consumer", "and", "force", "group", "rebalance"}
    [] action = "re-enable rebalance flag" -> {"enable", "rebalance", "feature", "flag", "place"}
    [] action = "scale consumer group" -> {"scale", "consumer", "group", "temporarily"}
    [] action = "increase partitions" -> {"increase", "partition", "count", "immediately"}
    [] action = "rotate certificate" -> {"rotate", "the", "expired", "certificate"}
    [] action = "reload listener" -> {"reload", "the", "active", "edge", "listener"}
    [] action = "recycle workers" -> {"recycle", "leaking", "worker", "pods"}
    [] action = "disable frame cache" -> {"disable", "the", "new", "frame", "cache", "path"}
    [] action = "validate ownership" -> {"validate", "service", "ownership", "and", "confirm", "incident", "scope"}
    [] action = "prepare rollback" -> {"prepare", "rollback", "safe", "mitigation", "and", "monitor", "audit", "trail"}
    [] OTHER -> {}

\* _action_overlap, as the words in common and the words of both.
ActionOverlap(action, other) ==
  LET all == Cardinality(Words(action) \cup Words(other))
  IN [common |-> Cardinality(Words(action) \cap Words(other)), all |-> IF all = 0 THEN 1 ELSE all]

\* _explain_evidence_weighting: fixes below a quarter of overlap are inferred.
EvidencePostureOf(executed, overlap, outcome) ==
  LET weight == CASE outcome = "resolved" -> 97 [] outcome = "improved" -> 89
                  [] outcome = "validated" -> 80 [] outcome = "unresolved" -> 62 [] OTHER -> 0
  IN IF ~executed \/ 4 * overlap.common < overlap.all THEN "inferred_only"
     ELSE IF weight * overlap.common >= 60 * overlap.all THEN "validated_runtime" ELSE "runtime_validated"

RuntimeScore(summary, overlap) ==
  (2 * summary.score * overlap.common + overlap.all) \div (2 * overlap.all)

Weighted(fix, summary) ==
  LET overlap == ActionOverlap(fix.action, summary.best)
      score == RuntimeScore(summary, overlap)
  IN [action |-> fix.action, score |-> score, success |-> Max({fix.success, score}),
      posture |-> EvidencePostureOf(summary.executed, overlap, summary.outcome)]

RunsBefore(a, b) == a.score > b.score \/ (a.score = b.score /\ a.success > b.success)

rank_candidate_fixes_with_runtime(fixes, summary) ==
  Sorted([i \in 1 .. Len(fixes) |-> Weighted(fixes[i], summary)], RunsBefore)

\* enrich_memory_with_runtime, for the similarity of an incident and the success
\* rate of a runbook whose action overlaps with the best one ("near" is the
\* overlap).  It is applied to its own result when a summary is built again.
Boost(value, by) == Min({99, value + by})

EnrichedSimilarity(memory, summary) ==
  IF summary.best = "" \/ memory.near < 20 THEN memory.similarity
  ELSE IF summary.executed /\ summary.outcome \in {"resolved", "improved"}
       THEN Boost(Boost(memory.similarity, 4), 6) ELSE Boost(memory.similarity, 4)

EnrichedSuccess(memory, summary) ==
  IF summary.best = "" \/ memory.near < 20 THEN memory.success ELSE Boost(memory.success, 4)

enrich_memory_with_runtime(memory, summary) ==
  [memory EXCEPT !.similarity = EnrichedSimilarity(memory, summary),
                 !.success = EnrichedSuccess(memory, summary)]
=============================================================================
