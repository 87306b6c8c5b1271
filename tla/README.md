# NEXUS: a TLA+ verification of the incident server

NEXUS (`src/server`) is one FastAPI process. Alerts become incident rows in SQLite, agents
investigate them, a guardian reviews them, an operator executes the recommendation, replays the
incident in a replica pack and hands it to engineering. This directory holds TLA+ models of that
program, the TLC configurations that check them and proofs checked by TLAPS.

* [Inventory](#inventory): the parts, their state, how they interact, what is hard
* [Plan](#plan): the modules, in the order they are written
* [Modules](#modules): what models what
* [Runs](#runs): what each run asks, its bounds, its fairness
* [Disagreements](#disagreements-with-the-documentation): where the code does not do what is written
* [Proofs](#proofs)
* [Not modelled](#not-modelled)

## Inventory

| Part | Source | State | Operations | Hard behaviour |
|---|---|---|---|---|
| Incident row and its handlers | `services/incidents.py`, `repositories.py`, `db.py` | the `incidents` table: one JSON blob per row | review, execute, replay, send, retry, feedback, create, list | every update is a SELECT transaction and an UPDATE transaction of the whole blob; requests interleave between them; the process may die between two writes of one operation |
| Replay execution state and job queue | `app.py` 67-129, `services/runtime_queue.py` | one in-memory record; `runtime_queue_jobs` in the artifact file | start, finish; queue, start, complete, recover, retry, fail, abandon | overlapping replays share the record; exceptions and restarts between queueing and completing a job |
| Rate limiter | `rate_limit.py` | a deque per key in memory, a table in SQLite, a lock per key | check | two counters of the same events, a database that fails, restarts, a clock that starts again |
| Artifact file and audit log | `artifacts.py`, `audit.py` | two JSON files and a cache of each, two locks | load, persist, record, update | a file that is missing, corrupt or cannot be read, a failure that is swallowed or raised, the audit entry written after the state change |
| Tenant bootstrap | `services/tenancy.py` | a JSON file of configurations per tenant | read, update | the file is rewritten in place; one that is torn or cannot be read counts as empty and is then replaced |
| Investigation pipeline | `services/enterprise_runtime.py`, `agents/`, `services/live_demo.py`, `grader.py` | the LangGraph state of one episode: task board, summaries, plan, review | fetch, classify, three probes, synthesize, plan, review, finalize; run again | a straight chain of nodes, each of which may find the work of earlier ones missing or contradicted: models that answer anything or fail, three summaries of one replica taken at three moments |
| Page of an incident | `services/investigation.py`, `services/incidents.py` 740-780 | the context cache: a page per row version and kind, for a minute | get, set, build | two reads of the row, awaits in between, updates that write back whole rows and so undo others, one cache for two kinds of pages |
| Replica runner and packs | `services/replica_runtime.py`, `replica_packs/` | runtime files and containers of each pack | select a pack, inspect, reset, start, run scripts, stop, answer | a step of several failing, overlapping runs of one pack, a crash that leaves containers, commands without a deadline |
| Replay evidence | `services/replay.py`, `services/incidents.py` 949-1144 | the packets stored with a row | summarise, delegate, store, rank fixes, show | which host ran what and when; a newer replay that ran nothing |
| Queue view | `services/incidents.py`, `services/priority.py` | none (computed) | order, position, ETA | ties, limits of the list it is computed from |
| Tenancy, authentication, roles | `auth.py`, `services/governance.py` | none (headers and role matrix) | authenticate, authorise | which role may do what |
| Intake | `services/intake.py`, `services/live_ingest.py`, `integrations/`, webhook routes | none beyond the rows it creates | create an incident from an alert | a sender that retries after an error answer |
| Metrics, health, readiness, payload builders | `services/metrics_service.py`, `services/health_service.py`, ... | none (computed) | aggregate and format | clamped lists |
| Browser console | `frontend/static` | view state of one page | fetch and render | |
| Training | `training/` | a trajectory and a policy snapshot | episodes, curriculum, evaluation | |

How they interact: every route checks the rate limiter, then the role, then calls a service, and
writes an audit entry after the service has returned. The services share the SQLite file through
`repositories.py` and the artifact file through `artifacts.py`; nothing else coordinates them. The
server is a single process with one event loop, so interleaving happens at each `await`: every
database call runs in a thread with a connection of its own, every artifact call waits for a lock.
A restart keeps the database and the files and loses the rest.

What makes each part correct:

* **Incident row**: a decision, a status and evidence that fit each other whatever overlaps; a
  resolved incident stays resolved; a rejected one is not resolved; what was acknowledged is
  stored; attempts are numbered and retries are limited; every request is answered.
* **Replay execution and job queue**: the record names a replay that runs; every replay leaves an
  execution event unless a script hangs; a closed job has its packet and is not opened again; the
  recovery posture reports it.
* **Rate limiter**: no key gets more than its limit within a window; a key below it is served.
* **Artifacts and audit**: an entry that was written stays; the audit log and its copy in the
  artifact file agree; a state change has its audit entry.
* **Tenant bootstrap**: updating one tenant leaves the others alone.
* **Pipeline**: what is executed has passed the review of the severity that is reported; the board
  and the report tell what happened; a lower risk rests on a measurement; every demo reports unless
  the compose tool hangs.
* **Page of an incident**: a page fits the row its request has read, wherever it comes from; its
  timeline is not older; live reasoning is shown only to those who asked for it.
* **Replica runner**: a run measures its own hooks unless another run disturbs it; an answer is
  called validated only if something was measured; what was started is stopped; every run ends of
  which no command hangs.
* **Replay evidence**: a packet tells where it was run; a page is confident, or asks for less, only
  on what the newest replay has measured.
* **Intake**: what was accepted is stored and audited; every stray row has a fault that explains it;
  an alert that can be accepted is, in the end.
* **Queue view**: a total order, positions that agree with it.

## Plan

1. `IncidentRow`, `IncidentStore`, `IncidentHandlers` with their proofs: the core. Done.
2. `RuntimeReplay`: execution state and job queue of overlapping replays, with exceptions and
   restarts; abstract specification: `JobLifeCycle`; with proofs. Done.
3. `RateLimiter`: the two counters; abstract specification: `SlidingWindow`; with proofs. Done.
4. `ReplicaPacks`, `ReplicaHost`: packs and the host that runs them, with proofs. Done.
5. `ReplicaSummary`, `Priority`, `Episode`: the agents' pipeline on top of them, with proofs. Done.
6. `Intake`: deliveries, the audit log and its copy, the file of configurations, with proofs. Done.
7. `IncidentContext`: the page of an incident and its cache, with proofs. Done.
8. `Evidence`: what pages tell of replays, with proofs. Done.

Left: the sorted queue of incidents and its waiting times, the curriculum of the training loop, the
feedback and knowledge artifacts; an abstract specification of the page (what a row and its newest
packet allow it to say) that `IncidentContext` and `Evidence` implement; a composition of
`RuntimeReplay` with `ReplicaHost` in which two requests of the app race for one pack.

## Modules

### The incident row

`IncidentRow` is pure: what a row holds and how each handler derives the next contents from those
it has read. Entries carry the number of the request that made them, which stands for time stamps,
actors and payloads. Statuses reported by engineering are reduced to one of each class the guidance
tells apart.

`IncidentStore` is the abstract specification: every operation takes effect at once on the current
row. An execution is two steps, because the code commits the outcome and the status separately and
a crash may fall between.

`IncidentHandlers` is the code. Each slot is a coroutine with its locals (`req[s]`): the stage
(`pc`), the operation and its argument, the decision `execute_incident` has read (`decision`), the
evidence it has drafted (`draft`) and the row the repository method has selected (`snap`). One
action is one stretch between two database accesses:

| Action | Code |
|---|---|
| `Start` | a route calls its handler |
| `ReadForReview`, `ReadForExecute`, `ReadForRetry`, `ReadForFeedback` | the first `get_incident_for_tenant` of the handler, its guards and early returns |
| `BuildContext`, `BuildRaises` | `get_incident_context_v1` and `build_engineering_handoff`, which change nothing and may raise |
| `DraftOutcome`, `DraftDelivery`, `DraftFailure` | the evidence read again and changed in memory; the last is the `except` branch of a send |
| `Load`, `Save` | the SELECT and the UPDATE of a repository update method |
| `Reread` | the SELECT after the commit; a review records the decision it finds there as an artifact |
| `DatabaseRaises`, `SaveThenRaises` | a database call raises before or after its commit |
| `Restart` | the process dies; requests are gone, the row is kept |

A caller of another tenant finds no row: it is refused by most handlers, and feedback is
acknowledged although nothing is stored, as in the code. The artifact file is reduced to the set
of guardian reviews here; the audit entry of the route does not touch the row and is left out.

### Replay requests and the runtime queue

`RuntimeReplay` follows the replay route (`app.py` 1151-1200) through `trigger_replica_replay`. Its
state is the shared execution record (`execution`), one request per slot (`req[s]`), and what is
kept: the queue jobs and execution events of the artifact file and the packets stored with the
incidents. Requests interleave only where they wait for the database. An artifact call holds a lock
whose body never waits, so it is one step: the file is read, changed and replaced. The replay is one
step, too, as it is a synchronous call that stops the whole event loop; if it never returns, nothing
moves any more (`Responsive`) until somebody restarts the process.

| Action | Code |
|---|---|
| `Arrive`, `ContextFails`, `ContextHangs` | the route reads the context of the incident, which may not exist and which asks the compose tool |
| `Begin` | `start_execution`, then `queue_replay_job` |
| `Replay` | the context again, `start_job`, the replay on this host, on the relay or not at all |
| `Hang` | the compose tool, asked for the second context, or a script of the replay never returns: none of these calls has a timeout |
| `StorePacket` | `_persist_latest_replay_packet`: the packet is committed; an incident of the demo catalogue has no row and stores none |
| `Close` | `recover_job` or `complete_job`, then `finish_execution` |
| `Raise` | an exception between `Begin` and `Close`; the route finishes the execution as failed |
| `RecordEvent` | the background task that `finish_execution` started |
| `OtherArtifact` | an audit event, a review or a launch is recorded in the same file |
| `Restart` | the process dies; record, requests and tasks are gone |

A replay's number stands for its job id, incident, pack and start time in the record, so the model
can say whose event is recorded. A write of the artifact file may be lost, as the code ignores such
a failure (`Persisted`). A file that cannot be read is taken for the default payload (`Loaded`), and
the call that has read it so replaces the file: all jobs and events are gone, whoever called.
`retry_job`, `fail_job` and `abandon_job` have no caller and are no actions. The audit
entry after `Close` touches none of this state.

`JobLifeCycle` is the abstract specification: queued, running, closed, forward only, except that all
jobs may be lost at once (`LoseList`, and `BeginList` when a new job is the first of the new file) if
the file can turn out to be unreadable. A lost job stays lost.

### The rate limiter

`RateLimiter` is `check` for one key; keys share nothing but the database file, and waiting for the
lock of the key is left out since the clock is read after it is taken. `Acquire` reads the clock
and trims the deque, `Count` is the query in its thread together with the append that follows it
without a wait, `Insert` the insert in its thread, `Answer` the comparison with the limit. Each
stamp is what `monotonic()` returned; `clock` is time as a client sees it, and `Restart` may set
the host's clock back (`boot`). The deque and the table are sets of request numbers.

`SlidingWindow` is the abstract specification of one key: a request is served if fewer than the
limit were made within the window before it.

### The replica host and its packs

`ReplicaPacks` is pure: which pack is selected for an incident, which hooks it tries, which of them
are in the repository, what its runtime directory holds, what a hook does to it and what a replay
script then prints. The Python services of a pack are modelled by their answer to the one request
that the replay script sends, as a function of the runtime files.

`ReplicaHost` is `ReplicaRunner` under the runtime-host route, where each request has a thread of
its own. Its state is what threads share: the compose tool (`tool`), the runtime directories
(`dir`), the packs whose containers are up (`up`); and each thread (`run[r]`). One action is one
call of docker compose or one script.

| Action | Code |
|---|---|
| `Receive` | the route's `inspect_plan`; a request that may not run is answered from it |
| `Reinspect` | the second inspection, inside `execute_scaffold`, which may return early |
| `ResetState`, `StopOld`, `Start` | `_reset_runtime_state`, the two calls of `_compose_up` |
| `WaitForRuntime`, `StartupTimeout` | `_wait_for_runtime`; the catalog pack has no health check |
| `Baseline`, `ApplyMitigation`, `Rerun`, `ScriptFails` | the scripts, each of which may exit with an error |
| `Hang`, `HangAfterEffect` | a compose call or a script, none of which has a timeout, never returns, without or with its effect |
| `ComposeDown` | the `finally` clause and the answer |
| `Crash`, `ChangeTool` | the process ends; docker changes (external) |

`disturbed` is a ghost: it marks a run whose files or containers another run has touched while it
relied on them.

### The episode

`ReplicaSummary` is pure, too: the replica summary and its mitigation ladder from a result, the
weight that runtime evidence gives to fixes and to memories, and the merge of a relay's answer into
the summary of the app. `Priority` holds ranks, thresholds and risk classes. Scores are in
hundredths where the code rounds fractions.

`Episode` is `run_episode`: one action per node of the graph, in the order of its edges, with the
task board it patches. Models answer any severity, plan or failure of the given sets. Each of the
three nodes that ask REPLICA builds a summary of that moment (`SummariesNow`), and `ChangeTool` may
come between them. `RunAgain` is the second attempt of `build_demo_payload`; `Hangs` ends everything,
as a summary asks the compose tool for the configuration of the pack without a timeout.
The severity is that of the catalogue entry SENTINEL's words match best or a model chooses, which
need not be the incident's own. `Causes` is what the diagnosis may name: a cause of the catalogue is
right only for its own incident, a model may name any, and its words decide as which family of
failures (`Readings`) the episode goes on; the grader counts nothing for a wrong one.
`GuardianRefuses` is the exception for an empty runbook.

### Intake

`Intake` follows a delivery from its sender to the answer: `Deliver` (admission), `create_incident`
(the insert, in a thread), `audit_and_answer` (the log, its copy, and the status). Three routes
stand for all: the native webhook, a vendor's webhook, which answers any exception with 400, and an
operator's route. Senders deliver again after a timeout or a 500. `OtherEntry` is a write of another
section of the two files. `update_bootstrap_config` reads the file of all configurations
(`load_bootstrap_configs`: nothing, if there is an error) and rewrites it in place; `Kill` may fall
between any two writes, and into that file. `unread` is a ghost: the log was once taken to be empty
because it could not be read.

### The page of an incident

`IncidentContext` is the reader's side of the row. A request reads the row (`Loads`), reads it again
for the timeline (`LoadStatus`), looks up the cache (`LookUp`), awaits agents and overlay and stores
the page (`Build`); the replay route does so twice around `QueueJob` before it replays. Meanwhile
others update the row, each in two transactions or more: a writer is a review, an execution or an
update of the evidence, which reads what it decides by (`Start`, `ReadEvidence`), then selects the
row (`LoadRow`) and writes all of it back (`SaveRow`), an execution twice; a replay does the same
with its packet (`LoadForPacket`, `StorePacket`). Each of them may undo what was written in between,
the decision of a review included. The row is reduced to what a page shows of it; `updated_at` is a
version number. The job list is read without the faults of its file, which `RuntimeReplay` has. An
entry has an age instead of a stamp, which keeps time unbounded, and entries that can never be asked
for again are dropped from the model (the code keeps them: the cache only grows, by one entry for
every version of every incident that was looked at).

`past` (the row as each version wrote it), `recent` (what the queue looked like) and `sent` are
ghosts.

### Replay evidence

`Evidence` has one incident and triggers replays of it: on the app's host, on a runtime host or
nowhere, as the hosts of that moment allow, each leaving a packet with its summary, status, trust
packet and job state. A page is built anew from the row, its newest packet and the last entries of
the audit trail, whose words go into the search for family and pack. Confidences are percentages.

## Runs

`MCIncidentHandlers` gives the constants. Bounds: `MaxRequests` requests in a behaviour, two slots
when requests overlap, a replay history of two entries (three requests overflow it) and one
destination; the proofs cover any number of each.

| Run | Question |
|---|---|
| `handlers_concurrent` | Two requests at a time, three in all, of any operation, of the incident's tenant or of another one, with failures and restarts: is the stored row consistent whatever overwrites what? It is: `StatusFitsDecision`, `LatestReplayIsHead`, `AttemptsNumbered`, `RetryBudget`, `DuplicatesToldApart`, `FeedbackOnRecord`. |
| `handlers_sequential` | Four requests one after the other, with failures and restarts: do the handlers implement `IncidentStore`, and do resolution, rejection, acknowledgement and retry mean what they say, and is every request answered (`AllAnswered`, under weak fairness of the handler)? Yes. Slots do not wait for each other, so one slot is as good as two for that. |

Two overlapping requests suffice for the row: a third can only overwrite the row once more with
a copy of the same kind, which the proofs cover for any number. Three requests are needed for a
retry budget to be used up and a history to overflow, four for a resolution after a review, a
rejection and another execution.

`MCRuntimeReplay`: two slots, as one overlap is what the record and the jobs can get wrong, and up to
three replays (four when they do not overlap), so that a record is overwritten twice and a number
is used after its replay has ended. `RuntimeReplayProofs` covers any number of both.

| Run | Question |
|---|---|
| `replays_overlapping` | Two requests at a time with exceptions, calls that hang, a file that cannot be read or written and restarts, for an incident with a row and one without: `RecordNamesAReplay`, `ClosedJobsAreOver`, `ReportedOnce`, and the jobs implement `JobLifeCycle`. |
| `replays_one_by_one` | One request at a time, any of which may raise or hang, with a file that may be unreadable: every replay is reported, under its own name, or a call hangs for good (`EventsNameTheirReplay`, `EveryReplayReported`). With overlaps neither holds, and a lost write or a restart loses reports. |

`MCRateLimiter`: limits of two and three, a window of two ticks, four to seven requests within
four to seven ticks: the limit is reached, entries expire, and it is reached again.

| Run | Question |
|---|---|
| `limiter_database_fails` | A database that fails at any call: no window exceeds the limit (`AtMostLimit`), thanks to the deque, and a refusal has a reason (`RefusedWhenBusy`). |
| `limiter_restarts` | Restarts of the process and of the host between any two steps: no window exceeds the limit, thanks to the table. With both kinds of fault it may. `RefusedWhenBusy` is not asked here: a restart of the host breaks it, as old stamps then look new (the proof excludes only that). |

`MCReplicaHost`: two runs of six requests (a pack with a reset, one without files, one without a
health check, one with missing scripts, an inspection and no pack at all), one crash, one change of
the tool; any command may hang. Two runs are what it takes to disturb, one crash what it takes to
leave things behind. The pack with a reset is asked to try two of its hooks, that without one.

| Run | Question |
|---|---|
| `replica_host` | Does an undisturbed run measure what its hooks do, whatever was left behind (`UndisturbedRunsMeasureTheirHooks`)? Is an answer validated only by a measurement of its own (`ValidatedIsMeasured`)? Do runs leave the containers of other packs alone (`OnlyTheirRunsTouchContainers`)? Does each end, unless a command of it hangs or the host crashes (`EveryRunEnds`)? Yes. |

`MCEpisode`: one incident of each family that has a pack of the demo and one without, four model
severities (one too high, one too low, one out of range, one word), four pairs of scores, four
confidences around the thresholds, one change of the tool.

| Run | Question |
|---|---|
| `episode` | Is only executed what the review let through (`OnlyVettedPlansAreExecuted`)? Do board and report agree at the end (`NoTaskIsForgotten`)? Is the risk, whatever the rank, lowered only by a measurement that allows it, although three summaries are built (`RiskIsLoweredByMeasurement`)? Does every demo report, where the host does not execute replays, which raise in both attempts, and the compose tool does not hang (`EveryDemoIsReported`)? Yes. |

`MCIntake`: two deliveries at a time, two faults, a kill and two saves. Of the three alerts one is a
vendor's, one an admitted operator's and one an admin's, whom the operators' routes refuse; an alert of
the native webhook is handled as the operator's, whose role is looked at before. That is enough for an
alert to be stored twice, a log to be lost, a copy to be left behind and a read of a file with two
configurations to fail.

| Run | Question |
|---|---|
| `intake` | Is what was accepted on record (`AcceptedIsOnRecord`), do log and copy agree (`RecordsAgree`), has every row without an entry, and every second row, its cause (`StraysAreExplained`)? Does a save keep the others' configurations unless the file could not be read or not be written to its end (`OthersKeepTheirs`)? Are native alerts accepted in the end (`NativeAlertsArrive`)? Yes, with the exceptions that the properties name. |

`MCIncidentContext`: two requests, one writer, up to two versions of the row and one replay, whose
packet is written against a review, an execution or an update of the evidence; any fault. The time to
live is zero: an entry is served until the next tick, which comes at any moment. An entry that has
aged and is still served matters to `QueueViewIsRecent` only, which `context_queue.cfg`, a configuration
beside the runs, checks with a time to live of one tick, two replays and no writers. The proofs cover
any number of each.

| Run | Question |
|---|---|
| `context` | Does a page fit the row that its request has read (`PagesShowTheirRow`), and its kind the request (`LiveOnlyWhenAsked`)? Is its timeline, which has a read of its own, of that version or a later one (`TimelineIsNotOlder`)? Is its queue no older than the time to live (`QueueViewIsRecent`)? Yes. That the timeline is never behind a decision on the page does not hold: a later version may have undone the decision. |

`MCEvidence`: eight incidents (families with and without packs, words that lead to another pack, all
postures of the intake), two replays, one change of the hosts, six audit entries.

| Run | Question |
|---|---|
| `evidence` | Do packet, job and trust packet tell where a replay ran (`StatusTellsWhereItRan`)? Does a page lower its risk or call a fix validated only on the newest run (`LoweredByTheNewestRun`), and is it confident only after one (`ConfidentAfterARun`)? Yes. |

Fairness. `handlers_sequential`: `WF_vars(Handle(s))` for each slot: the event loop runs a coroutine
that can go on, and a database call returns or raises after at most the busy timeout of five seconds
(`db.py` 94-99). The replay runs: the same, and `WF_vars(RecordEvent)`, as the event loop runs every
task, both only while nothing holds the loop. `replica_host`: `WF_vars(Work(r))` for each thread.
`episode`: `WF_vars(Step)`: the graph is awaited, and calls of models end by the timeout of their
client. `intake`: handlers run to their end, and a sender without an answer delivers again. Nothing is
assumed of failures, crashes or changes of the tool, nor that a request is ever sent.

No fairness says that a command returns. Only the call of a relay (60 seconds) and the poll for a
healthy container have deadlines; the six `subprocess.run` of `replica_runtime.py` (655, 676, 683,
695, 706, 774) have none. A command that hangs is therefore an action of its own (`Hang`,
`ContextHangs`, `HangAfterEffect`, `Hangs`), and `EveryReplayReported`, `EveryRunEnds` and
`EveryDemoIsReported` name it as the way in which what they promise may not come. On the app's host
it stops every request.

`TypeOK`, `ContainersReleased`, `AuditOnlyGrows`, `ResolutionIsFinal`, `ResolvedHasOutcome` and
`ReviewsRecordedAsAsked` are in no run; named in the INVARIANT or PROPERTY line of their module's run
they hold there, but for `ReviewsRecordedAsAsked`, which holds in `handlers_sequential` and not in
`handlers_concurrent`. Most of them are theorems.

## Disagreements with the documentation

`doc_no_loss` is a run of the project. The other configurations are kept beside it, each with the
one property that TLC finds violated (`tlc -config doc_scope.cfg MCEvidence`, and so on).

| Configuration | Module | What is written | What the code does |
|---|---|---|---|
| `doc_no_loss` | `MCIncidentHandlers` | "Multi-operator concurrency" (`docs/DATABASE.md:13`), "0 data loss" (`tests/test_sqlite_performance.py:104`) | of two concurrent updates of one incident's evidence one is lost although both were acknowledged |
| `doc_approval` | `MCIncidentHandlers` | "Guardian approval required before any action" (`docs/architecture/01-system-overview.md:193`) | an incident nobody reviewed is executed and resolved (`incidents.py:872`) |
| `doc_enforcement` | `MCIncidentHandlers` | the approval gate is enforced (`docs/architecture/01-system-overview.md:146`) | a rejection recorded while an execution is under way does not stop it (`incidents.py:923`) |
| `doc_interrupted_jobs` | `MCRuntimeReplay` | interrupted executions can be recovered (`tests/test_runtime_execution_recovery.py:31`) | a replay that raises leaves its job running for ever (`incidents.py:973`) |
| `doc_limit` | `MCRateLimiter` | "First 60 succeed" (`docs/security-review-checklist.md:82`) | only half are served, as each is counted twice (`rate_limit.py:76`) |
| `doc_tiers` | `MCReplicaHost` | "runtime_ready: replay available but not executed" (`replica_runtime.py:24`) | a catalog replay that reached nothing is executed and called ready |
| `doc_repeatable` | `MCReplicaHost` | "replay is repeatable across consecutive runs" (`replica_runtime.py:955`) | two overlapping runs measure differently and are both called deterministic |
| `doc_leading` | `MCEpisode` | two sentences of one summary name the leading candidate (`replay.py:824`, `:920`) | they name two candidates when nothing was run |
| `doc_hard_shutdown` | `MCIntake` | "Data either fully persisted or not at all" after a hard shutdown (`docs/security-review-checklist.md:331`) | a kill during a save empties the configurations of all tenants (`tenancy.py:46`) |
| `doc_append_only` | `MCIntake` | "Audit entries immutable (append-only)" (`docs/security-review-checklist.md:764`) | a log that cannot be read is taken to be empty and replaced (`audit.py:83`) |
| `doc_latest_job` | `MCIncidentContext` | `latest_job_id` (`runtime_queue.py:181`) | it is the oldest job: `artifacts.py:201` appends and `runtime_queue.py:169` takes the first |
| `doc_live` | `MCIncidentContext` | inconsistent live activation is a product problem (`docs/STRATUM_PILOT_RESULTS_LIVE.md:63`) | for a minute after a deterministic page nobody gets live reasoning (`investigation.py:231`) |
| `doc_scope` | `MCEvidence` | "runtime validation is not available" for a family out of scope (`services/intake.py:104`) | the words of the audit trail select a pack for it, which is run (`investigation.py:252`, `replica_runtime.py:384`) |

`limiter_sound.cfg` and `context_queue.cfg` are two more configurations that pass: without faults the
limiter is exactly a sliding window of half its limit (theorem `SoundLimiterSlides`), and a page with
an aged cache entry still shows a recent queue.

Others were met while reading and have no run:

* A queue is "recovering" for ever after its first successful replay: `runtime_queue.py:143` counts
  `recovered` jobs as active, while `health_service.py:129` explains the word with an interruption.
* The guardrail `max_concurrent_replays` of one (`app.py:76`) is shown and never looked at, and
  "No replay currently running" (`frontend/static/training.js:439`) is shown while one runs, once
  another has ended.
* The last failure of a retry budget is stored as terminal with the guidance to use the retry action
  (`incidents.py:1679`), which then refuses (`incidents.py:1733`).
* Of two concurrent reviews one may be recorded as an artifact with the other's decision
  (`incidents.py:825`, `db.py:243`); `ReviewsRecordedAsAsked` holds when they do not overlap.
* Feedback of a tenant that does not own the incident is acknowledged and stored nowhere.
* A vendor's webhook answers a fault of the server with 400 (`app.py:1319`), so the alert is lost.
* A database that is busy at start is moved aside as if it were corrupt (`db.py:87`).
* A page shows "relay" evidence as validated at runtime although the relay merely inspected the pack
  (`replay.py` 963-1021 with `incidents.py` 1010-1075); `ConfidentAfterARun` and
  `LoweredByTheNewestRun` say what does not follow from it.
* A replay that could not run hides the packet of an earlier one that did (`incidents.py` 319-364).
* An artifact file that cannot be read for a moment is replaced by one that holds only the next
  entry (`artifacts.py:43`), and so is the file of configurations: a save after a failed read keeps
  one tenant (`tenancy.py:43`). `ImplementsLifeCycle` and `OthersKeepTheirs` say how far the loss
  goes.
* On the app's host a script or a compose call that never returns stops the server, as it is called
  in the event loop without a timeout (`replica_runtime.py:706`, `:655`).
* A decision may be undone by an update of the evidence that has selected the row before it
  (`repositories.py` 217-246), and a page then shows a timeline that is behind its decision.
* The support state of a queue backlog matches no pack (`tenancy.py` 150-157), and an auth dependency
  is called fully supported although the scripts of its pack are missing; replays do not look at
  the packs a tenant has enabled.

## Proofs

Every property that a passing run checks, but for the five liveness properties, is a theorem as well:
the run shows it on a small instance, the theorem for every value of the constants. One module of
proofs belongs to each component.

`IncidentProofs` has three parts. The first shows that every operator of `IncidentRow` keeps evidence
typed and consistent. The second proves type correctness and the six safety invariants for any
number of slots, requests, tenants and destinations and any history limit. The row alone is not
inductive: a handler may write back a copy it took long before. The invariant `IInv` therefore says
that every version of the row in flight (`snap`, `draft`) could be stored, and that a status about to
be written is the one its review or its execution calls for (`Decided`). Each handler then derives
a good version from a good version, and it does not matter which one wins.

The third part assumes `Sequential` (one slot) and proves that the handlers implement
`IncidentStore`, failures and restarts included, and with it `ResolutionIsFinal`,
`NoResolutionAfterRejection` and `ResolvedHasOutcome`. The strengthening `SeqInv` adds that what the
one handler holds is current: the decision it has read is the stored one, its draft is one store
operation applied to the stored evidence, its snapshot is the row. `NoRetryAfterTerminal` needs
more, as the guard of a retry is looked at long before its delivery is written: `HandoffInv` adds
that the last delivery still is one that may be followed, and that what will be written is what the
handler has drafted from it. `AcknowledgedIsStored` (`SequentialAcknowledgedIsStored`) also assumes
`OwnTenant`, that every caller is of the tenant of the incident, as in the run: feedback of another
one is acknowledged and stored nowhere. `doc_no_loss` and `doc_enforcement` show that `Sequential`
is needed.

`RuntimeReplayProofs` proves `RecordNamesAReplay`, `ClosedJobsAreOver`, `ReportedOnce` and the
refinement of `JobLifeCycle` for any number of slots and replays and any faults. Each artifact call
changes the job it is for and keeps the others, or finds an empty file (`LoadedFile`,
`UpdateJobEffect`, `FileEffect`), in which all jobs are lost at once and no closed one is left to be
wrong about. That a closed job is over is not inductive by itself: the invariant adds that every
replay under way has a number of its own (`OwnNumbers`), that its job is open and no further than
the replay (`OpenJobs`) and about its incident (`OwnIncidents`), and that a stored packet stays
(`StoredPackets`). That the record names a replay under way survives because every end of a replay
resets the record, whoever's it is. For the same reason no replay is reported twice: `ReportsInv`
says that the number the record holds is in no event and in no task yet, and that no number is newer
than the newest replay. With one slot the event also names the replay that ended
(`OneByOneEventsNameTheirReplay`); with two it does not.

`RateLimiterProofs` proves both bounds and the refinement for every limit, window and number of
requests. Below: the counter that the faults leave whole holds every served request within the
window (`Kept`), so the total is not less than their number. Above: neither counter holds anything
older than the window, so the total is at most twice the number of requests within it. Without
faults both are equalities (`ExactInv`), and comparing twice a number with the limit is comparing it
with half the limit, rounded up. `AtMostLimitIsServed` assumes `OneCounterSurvives`: the database
never fails, or the process never restarts. Stamps that are never later than real time since the
start of the host (`InOrder`) carry it across reboots.

`ReplicaHostProofs` proves type correctness, `ValidatedIsMeasured`, `OnlyTheirRunsTouchContainers`,
`ContainersReleased` and `UndisturbedRunsMeasureTheirHooks` for any number of runs, packs asked for,
crashes and changes. An answer is validated by the base status of its own record, which no other
run's step changes; containers are up only for a pack that some run uses, since every way out of a
run passes `down`; a run of which a command hangs has not found its way out and keeps them. For the
measurements, `MeasuresInv` ties a run to what it shares with others: unless it is marked as
disturbed, the directory of its pack is what its own reset and the hooks tried so far have made of
it (`DirAfter`), and its containers are up while it measures. Every step of another run of the pack
leaves both alone or marks the run (`OthersMeasure`). `RunnableMeans` shows which packs this is
about: those with a reset, as the others have missing scripts, but for the catalog pack, which has
no runtime files.

`IncidentContextProofs` proves four properties of pages for any number of requests, versions, jobs
and any time to live. The invariant `ContextInv` says that a row a request has read is one of the
row's versions (`IsPast`), that every entry of the cache is faithful to the version of its key
(`CacheIsFaithful`), which is why a page of another version is never served, and that no version is
ever changed or used twice (`History`), whatever is written back. A decision need not stay in later
versions, and nothing is assumed of that: the timeline is of the version of the page or a later one
(`TimelineOfThisVersionOrLater`), which may have undone it. `QueueViewIsRecent` has an invariant of
its own, `QueueIsRecent`: the queue an entry shows is one the queue had when the entry was as old as
it is now, and a tick ages both.

`IntakeProofs` proves what the run checks of the records, that only admitted alerts are stored, and
that table and log only grow, for any alerts and any number of deliveries, faults and kills. The
invariant adds that a delivery with a stored alert names the row that holds it
(`SlotsNameTheirRows`); `RecordsGrow` says what each step may do to table and log, and carries what
is on record along. `LedgerInv` is for `RecordsAgree`: the row of a delivery under way is in neither
list yet and belongs to no other delivery (`RowsOnce`), which is why it enters each at most once,
and the copy follows the log (`CopyFollowsLog`). `StraysInv` is for `StraysAreExplained`: the rows
of an alert and the admitted deliveries of it are together no more than its deliveries, and rows
without an entry that no delivery is about to enter are paid for by faults and kills. `CountersInv`
bounds the counters and the configurations, whose versions never go back, and none of which is
dropped, except in a step in which the file could not be read or not be written to its end
(`OthersKeepTheirs`, from `Kept`).

`EpisodeProofs` proves `OnlyVettedPlansAreExecuted`, `NoTaskIsForgotten` and
`RiskIsLoweredByMeasurement` for every catalogue, every answer of the models and every change of the
compose tool. First about one summary, whoever builds it: sorting makes up no row (`RankedRows`,
from `OrderExists`), the outcome of the best row is that of one rerun against the baseline
(`OutcomeIsMeasured`), so a summary that says "resolved" was executed and started from a baseline
that failed (`ResolvedFromAFailure`). Then about the chain of nodes: `EpisodeInv` says what the
nodes that have run have written on the board (`Written`), that the plan and severity the review has
judged are the ones reported (`Vetted`), and that the review is of the summary shown with it
(`RiskOfSummary`), not of those that PRISM and FORGE have shown before. `RunAgain` starts over, so
that nothing of the first attempt is needed.

`EvidenceProofs` proves `StatusTellsWhereItRan`, `ConfidentAfterARun` and `LoweredByTheNewestRun`
for every set of incidents, any sequence of replays, reviews, handoffs and changes of the hosts, and
any history limit. The page is computed in one step from the newest packet, so what must be carried
along is about packets: `EvidenceInv` says of each, separately, that its status, trust and job tell
its host (`Told`) and that a summary which claims an outcome was run from a failing baseline
(`Claimed`). Two lemmas, `LeftByAppIsTold` and `LeftByRelayIsTold`, establish it for a new packet on
the two paths; they rest on `RunsTell`, that no rerun of a pack is as bad as its baseline, and on
`SummaryTells`, that the merge of a relay's result into the app's summary makes no claim that result
does not support. The rest is about a page: weighting and ranking candidate fixes calls none
validated without such a claim (`WeightedFix`, `RankedFixes`), and the words of the audit trail,
whatever they are, can raise neither confidence nor the risk class (`PageOfRow`).

Assumptions: `HandlersAssumption`, `ReplayLimitAssumption`, `ReplayAssumption`, `LimiterAssumption`,
`HostAssumption`, `ContextAssumption`, `IntakeAssumption`, `EpisodeAssumption` and
`EvidenceAssumption`, about constants only: they say of which kind each is, and that bounds are
natural numbers and slots finitely many. What a theorem assumes beyond them (`Sequential`,
`OwnTenant`, one slot, `OneCounterSurvives`, faults that do not happen) stands in its statement;
without it TLC finds the property violated.

Only model-checked: the liveness properties `AllAnswered`, `EveryReplayReported`, `EveryRunEnds`,
`EveryDemoIsReported` and `NativeAlertsArrive`, as liveness under fairness is out of the prover's
reach, and the disagreements, which are counterexamples.

## Not modelled

`PROJECT.json` lists every part with its status. Left out:

* Metrics, health, readiness, payload builders, the browser console, dashboards, deployment files and
  scripts: they format or display what other parts hold and keep no state of their own.
* The lists of incidents and their waiting times: computed for each request from the rows.
* The training loops: offline, sequential and without stored state beyond their output. The grader
  that they share with the episodes is in `Episode`.
* The text of classification and parsing: an incident has the family, the clues and the posture that
  its text leads to, as constants.
* The start of the server: the schema check of `db.py` and the migration of old files.
* Feedback and knowledge artifacts, which are appended and listed.
* A compose tool that hangs under the inspection with which a runtime host receives a request, before
  the run has touched anything.

`ops/kubernetes/deployment.yaml` asks for two replicas without a shared volume: they would share
neither database nor files, and each would be a system of its own. The models are of one process.
