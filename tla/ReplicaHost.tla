----------------------------- MODULE ReplicaHost -----------------------------
(***************************************************************************)
(* A host that runs replica packs (ReplicaRunner and                       *)
(* execute_runtime_host_replay of server/services/replica_runtime.py).     *)
(*                                                                         *)
(* The runtime-host route runs each request in a thread of its own, and    *)
(* nothing keeps two requests for one pack apart: they share its runtime   *)
(* directory, its containers and their ports.  The app that asked gives up *)
(* after a minute, its operator may ask again, and the first request is    *)
(* still running.  A step of this module is one call of docker compose or  *)
(* one script.  A crash of the host process leaves containers and runtime  *)
(* files as they are.                                                      *)
(***************************************************************************)
EXTENDS ReplicaPacks, FiniteSets

CONSTANTS Runs,        \* requests handled in a behaviour
          Requests,    \* what may be asked: pack, execute_runtime, mitigation_limit
          MaxCrashes,  \* bound on the crashes of the host process
          MaxChanges   \* bound on the changes of the compose tool

ASSUME HostAssumption ==
    /\ Requests \subseteq [pack: Packs \cup {NoPack}, execute: BOOLEAN, limit: 0..3]
    /\ Requests # {}
    /\ MaxCrashes \in Nat /\ MaxChanges \in Nat

VARIABLES tool,       \* docker compose: "works", "invalid" (rejects the pack) or "absent"
          dir,        \* contents of each pack's runtime directory
          up,         \* packs whose containers are up
          run,        \* what each thread does and has measured
          crashes, changes

vars == <<tool, dir, up, run, crashes, changes>>

Runnable == {p \in Packs : ~AssetsMissing(p)}

\* The runtime files of the repository: those of an earlier run, after its hooks.
CheckedIn(pack) ==
  CASE pack = "auth-redis" -> [retries |-> 1, middleware |-> FALSE, breaker |-> "open"]
    [] pack = "postgres" -> Defaults(pack)     \* no files: the service's defaults
    [] OTHER -> <<>>

NoRequest == CHOOSE q \in Requests : TRUE
NoAnswer == [status |-> "none", tier |-> "none", repeatability |-> "none"]

NewRun == [pc |-> "idle", asked |-> NoRequest, base |-> NoSignal, reruns |-> <<>>,
           executed |-> FALSE, raised |-> FALSE, disturbed |-> FALSE, answer |-> NoAnswer]

Init == /\ tool \in {"works", "invalid", "absent"}
        /\ dir = [p \in Runnable |-> CheckedIn(p)]
        /\ up = {}
        /\ run = [r \in Runs |-> NewRun]
        /\ crashes = 0 /\ changes = 0

-----------------------------------------------------------------------------
(* The answer *)

Inspected(pack) == [missing |-> AssetsMissing(pack), docker |-> tool # "absent",
                    valid |-> tool = "works"]

\* A slip of the capability: any executed result counts.
CapabilityOfAnyResult(pack, seen, status) ==
  IF pack = NoPack \/ seen.missing THEN "no_pack"
  ELSE IF seen.docker /\ seen.valid THEN "replay_executed"
  ELSE IF ~seen.docker THEN "host_unavailable" ELSE "pack_validation_required"

\* _runtime_capability_for_host, with the status code of the executed result.
CapabilityForHost(pack, seen, status) ==
  IF pack = NoPack \/ seen.missing THEN "no_pack"
  ELSE IF status # 0 THEN "replay_executed"
  ELSE IF seen.docker /\ seen.valid THEN "replay_available"
  ELSE IF ~seen.docker THEN "host_unavailable"
  ELSE "pack_validation_required"

EvidenceTier(state) ==
  CASE state = "replay_executed" -> "validated_runtime"
    [] state = "replay_available" -> "runtime_ready"
    [] OTHER -> "inferred_only"

\* The packet of a request that ran nothing, and of one that did.
AnswerUnexecuted(pack, seen) ==
  LET state == CapabilityForHost(pack, seen, 0)
  IN [status |-> IF state = "no_pack" THEN "unsupported" ELSE state,
      tier |-> EvidenceTier(state), repeatability |-> "unknown"]

AnswerExecuted(pack, status) ==
  LET state == CapabilityForHost(pack, [missing |-> FALSE, docker |-> TRUE, valid |-> TRUE], status)
  IN [status |-> state, tier |-> EvidenceTier(state),
      repeatability |-> IF status # 0 THEN "deterministic" ELSE "uncertain"]

-----------------------------------------------------------------------------
(* A request *)

At(r, pc) == run[r].pc = pc
Pack(r) == run[r].asked.pack

\* Between its reset and its last measurement a run relies on the directory
\* and the containers of its pack.
Relies(r) == run[r].pc \in {"stop old", "start", "wait", "baseline", "hook", "rerun"}
Uses(r) == Relies(r) \/ run[r].pc \in {"down", "hung"}

Becomes(r, new) == run' = [run EXCEPT ![r] = new]

\* The same, by a step that changes what other runs of the pack rely on.
Interferes(r, new) ==
  run' = [s \in Runs |->
            IF s = r THEN new
            ELSE IF Relies(s) /\ Pack(s) = Pack(r) THEN [run[s] EXCEPT !.disturbed = TRUE]
            ELSE run[s]]

Goto(r, pc) == [run[r] EXCEPT !.pc = pc]
Raises(r) == Becomes(r, [run[r] EXCEPT !.pc = "down", !.raised = TRUE])

Machine == <<tool, dir, up, crashes, changes>>

\* inspect_plan by the route; execute_scaffold is called if all is in place.
Receive(r, q) ==
  LET seen == Inspected(q.pack)
      asked == [NewRun EXCEPT !.asked = q]
  IN /\ At(r, "idle")
     /\ Becomes(r, IF q.pack # NoPack /\ q.execute /\ ~seen.missing /\ seen.valid /\ seen.docker
                   THEN [asked EXCEPT !.pc = "admitted"]
                   ELSE [asked EXCEPT !.pc = "answered", !.answer = AnswerUnexecuted(q.pack, seen)])
     /\ UNCHANGED Machine

\* execute_scaffold inspects again, and returns this result if it fails now:
\* the route then has an executed result without any status, and goes by its
\* first inspection, which had succeeded.
Reinspect(r) ==
  LET seen == Inspected(Pack(r))
  IN /\ At(r, "admitted")
     /\ Becomes(r, IF seen.missing \/ ~seen.valid
                   THEN [run[r] EXCEPT !.pc = "answered", !.answer = AnswerExecuted(Pack(r), 0)]
                   ELSE Goto(r, "reset"))
     /\ UNCHANGED Machine

ResetState(r) ==
  /\ At(r, "reset")
  /\ dir' = IF Resets(Pack(r)) THEN [dir EXCEPT ![Pack(r)] = Defaults(Pack(r))] ELSE dir
  /\ Interferes(r, [Goto(r, "stop old") EXCEPT !.executed = TRUE])
  /\ UNCHANGED <<tool, up, crashes, changes>>

\* A slip of the first step: it takes every container down.
StopAll(r) ==
  /\ At(r, "stop old")
  /\ up' = {}
  /\ Interferes(r, Goto(r, "start"))
  /\ UNCHANGED <<tool, dir, crashes, changes>>

\* _compose_up: down with its volumes, whose failure is ignored ...
StopOld(r) ==
  /\ At(r, "stop old")
  /\ IF tool = "absent"
     THEN Raises(r) /\ UNCHANGED up
     ELSE /\ up' = IF tool = "works" THEN up \ {Pack(r)} ELSE up
          /\ Interferes(r, Goto(r, "start"))
  /\ UNCHANGED <<tool, dir, crashes, changes>>

\* ... then up, which may fail for reasons of its own.
Start(r) ==
  /\ At(r, "start")
  /\ \/ /\ tool = "works"
        /\ up' = up \cup {Pack(r)}
        /\ Interferes(r, Goto(r, "wait"))
     \/ Raises(r) /\ UNCHANGED up
  /\ UNCHANGED <<tool, dir, crashes, changes>>

\* No health check is known for the catalog pack.
WaitForRuntime(r) ==
  /\ At(r, "wait")
  /\ Pack(r) \in up \cup {"catalog"}
  /\ Becomes(r, Goto(r, "baseline"))
  /\ UNCHANGED Machine

\* A slip of the wait: it has no deadline.
NoDeadline(r) == FALSE

StartupTimeout(r) ==
  /\ At(r, "wait")
  /\ Pack(r) # "catalog"
  /\ Raises(r)
  /\ UNCHANGED Machine

NextHook(r) == Len(run[r].reruns) + 1
HooksLeft(r, done) == done < run[r].asked.limit /\ done < Len(MitigationHooks(Pack(r)))

Baseline(r) ==
  /\ At(r, "baseline")
  /\ Becomes(r, [run[r] EXCEPT !.base = ReplaySignal(Pack(r), dir[Pack(r)], Pack(r) \in up),
                               !.pc = IF HooksLeft(r, 0) THEN "hook" ELSE "down"])
  /\ UNCHANGED Machine

ApplyMitigation(r) ==
  /\ At(r, "hook")
  /\ dir' = [dir EXCEPT ![Pack(r)] = ApplyHook(MitigationHooks(Pack(r))[NextHook(r)], @)]
  /\ Interferes(r, Goto(r, "rerun"))
  /\ UNCHANGED <<tool, up, crashes, changes>>

Rerun(r) ==
  /\ At(r, "rerun")
  /\ Becomes(r, [run[r] EXCEPT
        !.reruns = Append(@, ReplaySignal(Pack(r), dir[Pack(r)], Pack(r) \in up)),
        !.pc = IF HooksLeft(r, NextHook(r)) THEN "hook" ELSE "down"])
  /\ UNCHANGED Machine

\* A script that exits with an error raises.
ScriptFails(r) ==
  /\ run[r].pc \in {"baseline", "hook", "rerun"}
  /\ Raises(r)
  /\ UNCHANGED Machine

\* Compose commands and scripts are run without a timeout: one that does not
\* return holds its thread for good, before it has done anything ...
Hang(r) ==
  /\ \/ run[r].pc \in {"baseline", "hook", "rerun"}
     \/ run[r].pc \in {"admitted", "stop old", "start", "down"} /\ tool # "absent"
  /\ Becomes(r, Goto(r, "hung"))
  /\ UNCHANGED Machine

\* ... or after.
HangAfterEffect(r) ==
  /\ \/ run[r].pc \in {"stop old", "down"} /\ tool = "works" /\ up' = up \ {Pack(r)} /\ UNCHANGED dir
     \/ At(r, "start") /\ tool = "works" /\ up' = up \cup {Pack(r)} /\ UNCHANGED dir
     \/ /\ At(r, "hook")
        /\ dir' = [dir EXCEPT ![Pack(r)] = ApplyHook(MitigationHooks(Pack(r))[NextHook(r)], @)]
        /\ UNCHANGED up
  /\ Interferes(r, Goto(r, "hung"))
  /\ UNCHANGED <<tool, crashes, changes>>

\* The finally clause, and the answer: an exception ends in HTTP 500.
ComposeDown(r) ==
  LET answer == IF run[r].raised
                THEN [status |-> "error", tier |-> "none", repeatability |-> "none"]
                ELSE AnswerExecuted(Pack(r), run[r].base.status)
  IN /\ At(r, "down")
     /\ up' = IF tool = "works" THEN up \ {Pack(r)} ELSE up
     /\ Interferes(r, [run[r] EXCEPT !.pc = "answered", !.answer = answer])
     /\ UNCHANGED <<tool, dir, crashes, changes>>

Work(r) == \/ Reinspect(r) \/ ResetState(r) \/ StopOld(r) \/ Start(r)
           \/ WaitForRuntime(r) \/ StartupTimeout(r)
           \/ Baseline(r) \/ ApplyMitigation(r) \/ Rerun(r) \/ ScriptFails(r)
           \/ Hang(r) \/ HangAfterEffect(r) \/ ComposeDown(r)

-----------------------------------------------------------------------------
(* The host *)

\* The process ends: every thread is lost, wherever it was.
Crash ==
  /\ crashes < MaxCrashes
  /\ crashes' = crashes + 1
  /\ run' = [r \in Runs |-> IF run[r].pc \in {"idle", "answered"} THEN run[r]
                            ELSE [run[r] EXCEPT !.pc = "lost"]]
  /\ UNCHANGED <<tool, dir, up, changes>>

\* Docker is installed, removed, or begins or ceases to accept the packs.
ChangeTool ==
  /\ changes < MaxChanges
  /\ changes' = changes + 1
  /\ tool' \in {"works", "invalid", "absent"} \ {tool}
  /\ UNCHANGED <<dir, up, run, crashes>>

Next == \/ \E r \in Runs : \E q \in Requests : Receive(r, q)
        \/ \E r \in Runs : Work(r)
        \/ Crash
        \/ ChangeTool

Spec == Init /\ [][Next]_vars

\* A thread that was started runs on until it ends or a call does not return.
FairSpec == Spec /\ \A r \in Runs : WF_vars(Work(r))

-----------------------------------------------------------------------------
(* Properties *)

Pcs == {"idle", "admitted", "reset", "stop old", "start", "wait", "baseline", "hook", "rerun",
        "down", "hung", "answered", "lost"}

\* Every variable has its type.
TypeOK ==
  /\ tool \in {"works", "invalid", "absent"}
  /\ \A p \in Runnable : dir[p] \in RuntimeDirs(p)
  /\ up \subseteq Runnable
  /\ \A r \in Runs : /\ run[r].pc \in Pcs
                     /\ run[r].asked \in Requests
                     /\ Len(run[r].reruns) <= run[r].asked.limit
                     /\ Uses(r) => Pack(r) \in Runnable
  /\ crashes \in 0..MaxCrashes /\ changes \in 0..MaxChanges

\* Hooks are not undone between two measurements, so the i-th one measures the
\* first i hooks together; the baseline is the one the registry announces.
\* This holds whatever earlier runs, crashed ones included, left behind, but
\* for a run that another run of the pack has disturbed.
UndisturbedRunsMeasureTheirHooks ==
  \A r \in Runs :
     LET p == Pack(r) IN
     At(r, "answered") /\ run[r].executed /\ ~run[r].raised /\ ~run[r].disturbed /\ p # "catalog" =>
        /\ run[r].base.status = ExpectedBaseline(p)
        /\ \A i \in 1 .. Len(run[r].reruns) : run[r].reruns[i] = ReplaySignal(p, DirAfter(p, i), TRUE)

\* However a run ends - a failed start, a timeout, a failed script - no
\* containers stay up after the last run of their pack has ended (one that hangs
\* has not).
ContainersReleased ==
  crashes = 0 /\ changes = 0 => \A p \in up : \E r \in Runs : Uses(r) /\ Pack(r) = p

\* Whether the tier of an answer is "validated_runtime" depends on a status
\* measured by this very run, not on the second inspection having returned
\* a result (execute_scaffold may return without having run anything).
ValidatedIsMeasured ==
  \A r \in Runs : run[r].answer.tier = "validated_runtime" => run[r].base.status # 0

\* A run's containers are taken down by itself, by another run of the pack
\* that is under way, or never: no step of another pack does.
OnlyTheirRunsTouchContainers ==
  [][\A p \in Packs : (p \in up) # (p \in up') =>
        \E r \in Runs : Pack(r) = p /\ Uses(r) /\ run'[r] # run[r]]_vars

\* The host's own wait, for containers that may never become healthy, ends at
\* its deadline, and every failure leads on: a request whose thread was started
\* is answered, if only with an error, unless the process ends or one of the
\* commands and scripts, which have no deadline, never returns.
EveryRunEnds ==
  \A r \in Runs : run[r].pc \notin {"idle", "answered", "lost"}
                     ~> run[r].pc \in {"answered", "lost", "hung"}

\* "validated_runtime: replay executed and produced measurable signals -
\* runtime_ready: replay available but not executed"
\* (server/services/replica_runtime.py:23-24).
ReadyIsNotExecuted ==
  \A r \in Runs : run[r].answer.tier = "runtime_ready" => ~run[r].executed

\* "Pack reset confirmed clean; replay is repeatable across consecutive runs."
\* (server/services/replica_runtime.py:955): two runs of a pack that are called
\* deterministic have measured the same.
DeterministicRunsAgree ==
  \A r, s \in Runs :
     /\ run[r].answer.repeatability = "deterministic" /\ run[s].answer.repeatability = "deterministic"
     /\ run[r].asked = run[s].asked
     => run[r].base = run[s].base /\ run[r].reruns = run[s].reruns
=============================================================================
