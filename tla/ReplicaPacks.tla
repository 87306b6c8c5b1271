---------------------------- MODULE ReplicaPacks ----------------------------
(***************************************************************************)
(* The curated replica packs and what a replay of one measures             *)
(* (server/services/replica_runtime.py, replay.py, replica_packs/).        *)
(*                                                                         *)
(* A pack is a small docker-compose service whose behaviour is set by the  *)
(* files of its runtime/ directory.  A mitigation hook is a script that    *)
(* rewrites some of these files; the replay script sends one request and   *)
(* prints the HTTP status and the time it took.  Pure definitions only;    *)
(* ReplicaHost runs them.                                                  *)
(***************************************************************************)
EXTENDS Integers, Sequences, FiniteSets, SequencesExt

(* What triage tells about an incident: its family, and the words in the   *)
(* service name, the logs and the deployments that select a pack.          *)
Families == {"timeout cascade", "pool exhaustion", "deploy regression", "queue backlog",
             "auth dependency", "certificate expiry", "memory leak", "other"}
Clues == {"pool words", "retry words", "catalog words"}

NoPack == "no pack"
Packs == {"auth-redis", "postgres", "catalog", "auth-validation", "kafka"}

(* The tests are made in this order; clues are tested before the family    *)
(* "deploy regression" is.                                                 *)
select_environment_pack(family, clues) ==
  IF family = "queue backlog" THEN "kafka"
  ELSE IF family = "auth dependency" THEN "auth-validation"
  ELSE IF family = "pool exhaustion" \/ "pool words" \in clues THEN "postgres"
  ELSE IF family = "timeout cascade" \/ "retry words" \in clues THEN "auth-redis"
  ELSE IF family = "deploy regression" \/ "catalog words" \in clues THEN "catalog"
  ELSE NoPack

(* expected_baseline_status of the registry.                               *)
ExpectedBaseline(pack) ==
  CASE pack \in {"auth-redis", "auth-validation"} -> 504
    [] pack \in {"postgres", "kafka"} -> 503
    [] OTHER -> 500

(* The hooks to try in turn.                                               *)
MitigationHooks(pack) ==
  CASE pack = "auth-redis" -> <<"cap_retries", "open_circuit_breaker", "disable_retry_middleware">>
    [] pack = "postgres" -> <<"terminate_orphaned_sessions", "rollback_retry_patch", "restart_checkout_service">>
    [] pack = "catalog" -> <<"rollback_catalog_optimization", "deploy_null_check_hotfix">>
    [] pack = "auth-validation" -> <<"reset_circuit_breaker", "invalidate_token_cache", "increase_auth_timeout">>
    [] pack = "kafka" -> <<"force_rebalance", "enable_rebalance_flag", "scale_consumer_group">>

(* Hook scripts that are in the repository.  auth-validation and kafka are *)
(* copies of the first two packs and hold only the hooks of these.         *)
HookScripts(pack) ==
  IF pack \in {"auth-redis", "auth-validation"}
  THEN {"cap_retries", "open_circuit_breaker", "disable_retry_middleware"}
  ELSE IF pack \in {"postgres", "kafka"}
  THEN {"terminate_orphaned_sessions", "rollback_retry_patch", "restart_checkout_service"}
  ELSE {"rollback_catalog_optimization", "deploy_null_check_hotfix"}

AssetsMissing(pack) == ~(ToSet(MitigationHooks(pack)) \subseteq HookScripts(pack))

(***************************************************************************)
(* The runtime directory                                                   *)
(***************************************************************************)

(* What _reset_runtime_state writes; it knows two packs.                   *)
Defaults(pack) ==
  CASE pack = "auth-redis" -> [retries |-> 4, middleware |-> TRUE, breaker |-> "closed"]
    [] pack = "postgres" -> [leak |-> TRUE, exhausted |-> TRUE]
    [] OTHER -> <<>>

\* A slip of the reset: it forgets a pack.
ResetsPostgresOnly(pack) == pack = "postgres"

Resets(pack) == pack \in {"auth-redis", "postgres"}

(* The file changes of a hook script; those of the catalog pack only post  *)
(* to a host name that the runner's host does not resolve.                 *)
ApplyHook(hook, dir) ==
  CASE hook = "cap_retries" -> [dir EXCEPT !.retries = 1]
    [] hook = "open_circuit_breaker" -> [dir EXCEPT !.breaker = "open"]
    [] hook = "disable_retry_middleware" -> [dir EXCEPT !.middleware = FALSE]
    [] hook \in {"terminate_orphaned_sessions", "restart_checkout_service"} -> [dir EXCEPT !.exhausted = FALSE]
    [] hook = "rollback_retry_patch" -> [dir EXCEPT !.leak = FALSE, !.exhausted = FALSE]
    [] OTHER -> dir

(* The directory after the first n hooks, of which no pack has more than   *)
(* three, from the defaults.                                               *)
DirAfter(pack, n) ==
  LET hooks  == MitigationHooks(pack)
      first  == ApplyHook(hooks[1], Defaults(pack))
      second == ApplyHook(hooks[2], first)
  IN CASE n = 0 -> Defaults(pack)
       [] n = 1 -> first
       [] n = 2 -> second
       [] n = 3 -> ApplyHook(hooks[3], second)

RuntimeDirs(pack) ==
  CASE pack = "auth-redis" -> [retries: {1, 4}, middleware: BOOLEAN, breaker: {"open", "closed"}]
    [] pack = "postgres" -> [leak: BOOLEAN, exhausted: BOOLEAN]
    [] OTHER -> {<<>>}

(* One answer of the pack's service: the HTTP status, 0 when the script    *)
(* printed none, and the time in units of 100 ms.  The authorisation call  *)
(* takes 1200 ms and is given 400 ms per attempt.                          *)
NoSignal == [status |-> 0, time |-> 0]
Unreachable == [status |-> 599, time |-> 1]

GatewayAnswer(dir) ==
  IF dir.breaker = "open" THEN [status |-> 503, time |-> 1]
  ELSE [status |-> 504, time |-> 4 * (IF dir.middleware THEN dir.retries ELSE 1)]

CheckoutAnswer(dir) ==
  IF dir.leak /\ dir.exhausted THEN [status |-> 503, time |-> 11]
  ELSE [status |-> 200, time |-> 1]

(* The catalog script prints a bare number, in which                       *)
(* _extract_replay_signal finds no JSON line.                              *)
ReplaySignal(pack, dir, up) ==
  IF pack = "catalog" THEN NoSignal
  ELSE IF ~up THEN Unreachable
  ELSE IF pack = "auth-redis" THEN GatewayAnswer(dir)
  ELSE CheckoutAnswer(dir)

(***************************************************************************)
(* From the measurements to the mitigation that is reported                *)
(***************************************************************************)

runtime_outcome_class(base, mit) ==
  IF mit.status = 0 THEN "inferred_only"
  ELSE IF base.status = 0 THEN "validated"
  ELSE IF base.status >= 500 /\ mit.status < 500 THEN "resolved"
  ELSE IF mit.status < base.status THEN "improved"
  ELSE IF mit.status = base.status /\ base.time > 0 /\ mit.time > 0 /\ 10 * mit.time <= 6 * base.time THEN "improved"
  ELSE "unresolved"

(* In hundredths, rounded to the nearest.                                  *)
runtime_outcome_score(outcome, base, mit) ==
  LET floor == CASE outcome = "resolved" -> 97 [] outcome = "improved" -> 89 [] outcome = "validated" -> 80
                 [] outcome = "unresolved" -> 62 [] outcome = "inferred_only" -> 0
      saved == (24 * (base.time - mit.time) + base.time) \div (2 * base.time)
      gain == IF outcome \in {"resolved", "improved"} /\ base.time > 0 /\ mit.time > 0
              THEN (IF saved < 0 THEN 0 ELSE IF saved > 8 THEN 8 ELSE saved) ELSE 0
  IN IF floor + gain > 99 THEN 99 ELSE floor + gain

(* The branch of build_replica_summary an incident takes.  Two families    *)
(* have a branch without a pack; that of the catalog pack is never taken.  *)
Branch(family, pack) ==
  IF pack \in {"auth-redis", "postgres"} THEN pack
  ELSE IF family \in {"certificate expiry", "memory leak"} THEN family
  ELSE IF pack \in {"auth-validation", "kafka"} THEN pack
  ELSE "none"

(* The checks that build_replica_summary lists for a branch, with the      *)
(* confidence each adds in hundredths.                                     *)
Check(action, delta) == [action |-> action, delta |-> delta]

FallbackChecks(branch) ==
  CASE branch = "auth-redis" ->
         <<Check("open breaker and cap retries", 8),
           Check("roll back retry middleware", 6),
           Check("drain pods", 3)>>
    [] branch = "postgres" ->
         <<Check("terminate sessions and restart", 6),
           Check("roll back retry patch", 5),
           Check("increase pool size", 1)>>
    [] branch = "auth-validation" ->
         <<Check("reset breaker and token cache", 8),
           Check("increase auth timeout", 6),
           Check("roll back auth-svc", 5)>>
    [] branch = "kafka" ->
         <<Check("roll back consumer", 8),
           Check("re-enable rebalance flag", 6),
           Check("scale consumer group", 3)>>
    [] branch = "certificate expiry" -> <<Check("rotate certificate", 9)>>
    [] branch = "memory leak" ->
         <<Check("recycle workers", 3), Check("disable frame cache", 5)>>
    [] OTHER -> <<>>

(* The order of 1 .. n in which each index is before the later ones.       *)
Order(n, before) == CHOOSE p \in [1 .. n -> 1 .. n] : \A i, j \in 1 .. n : i < j => <<p[i], p[j]>> \in before

(* A stable sort, as that of Python: equal rows keep their order.          *)
Sorted(rows, Above(_, _)) ==
  LET n == Len(rows)
      order == Order(n, {q \in (1 .. n) \X (1 .. n) :
                           \/ Above(rows[q[1]], rows[q[2]])
                           \/ ~Above(rows[q[2]], rows[q[1]]) /\ q[1] < q[2]})
  IN [k \in 1 .. n |-> rows[order[k]]]

(* Checks that one of the candidate fixes names come first.                *)
build_mitigation_checks(candidates, checks) ==
  LET Named(c) == candidates = {} \/ c.action \in candidates
  IN Sorted(checks, LAMBDA a, b : Named(a) /\ ~Named(b))

(* The i-th measurement is written under the i-th check, whatever hook it  *)
(* was taken after.                                                        *)
runtime_override_mitigations(base, reruns, checks) ==
  [i \in 1 .. Len(reruns) |->
     LET check == IF i <= Len(checks) THEN checks[i] ELSE Check("unnamed", 0)
         outcome == runtime_outcome_class(base, reruns[i])
     IN [action |-> check.action, delta |-> check.delta, outcome |-> outcome,
         score |-> runtime_outcome_score(outcome, base, reruns[i])]]

(* The best row first.                                                     *)
RanksAbove(a, b) == a.score > b.score \/ (a.score = b.score /\ a.delta > b.delta)

rank_runtime_mitigations(rows) == Sorted(rows, RanksAbove)

(* The ladder: the winner, the runner-up, and when to stop.                *)
build_mitigation_ladder(ranked) ==
  [primary |-> IF Len(ranked) > 0 THEN ranked[1].action ELSE "",
   fallback |-> IF Len(ranked) > 1 THEN ranked[2].action ELSE "",
   stop |-> IF Len(ranked) = 0 THEN "escalate"
            ELSE CASE ranked[1].outcome = "resolved" -> "after primary"
                   [] ranked[1].outcome = "improved" -> "after fallback"
                   [] OTHER -> "escalate"]
=============================================================================
