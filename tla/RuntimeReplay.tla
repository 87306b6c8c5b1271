---------------------------- MODULE RuntimeReplay ----------------------------
(***************************************************************************)
(* Replica replays requested through the API: the in-memory record of the  *)
(* replay under way, the jobs of the runtime queue, the execution events   *)
(* and the replay packets stored with the incidents.                       *)
(*                                                                         *)
(* A slot is one request of the replay route.  Artifact calls hold a lock  *)
(* that no await interrupts, and the replay itself (containers, scripts,   *)
(* relay) is a synchronous call: neither lets another request in.  Others  *)
(* run while a request reads its context or stores its packet, which are   *)
(* database calls.  The scripts and compose calls of a replay have no      *)
(* timeout: one that hangs holds the event loop, and with it every request *)
(* and background task, until the process is started again.                *)
(*                                                                         *)
(* Every artifact call reads the whole file and writes all of it.  A file  *)
(* that cannot be read counts as empty, so the write that follows leaves   *)
(* nothing else in it.                                                     *)
(*                                                                         *)
(* A job has the number of the replay it was queued for, so jobs are       *)
(* numbered in the order of the list in the artifact file.  A replay's     *)
(* number also stands for its incident id, pack and start time in the      *)
(* record and in the events.                                               *)
(***************************************************************************)
EXTENDS Integers, Sequences, FiniteSets

CONSTANTS Slots,       \* requests of the route in flight at a time
          Incidents,   \* incidents of the tenant, and those of the demo catalogue
          Demo,        \* the latter: they have no row to store a packet with
          Faults,      \* what may go wrong: "exception", "hang" of a script, "restart",
                       \* "unwritable" and "unreadable" artifact file
          MaxReplays   \* bound on the replays begun in a behaviour

ASSUME ReplayAssumption ==
    /\ Faults \subseteq {"exception", "hang", "restart", "unwritable", "unreadable"}
    /\ MaxReplays \in Nat
    /\ Incidents # {}
    /\ Demo \subseteq Incidents

VARIABLES execution,   \* RuntimeExecutionState: whether a replay runs, and which
          req,         \* the request each slot handles
          begun,       \* number of replays begun
          jobs,        \* runtime_queue_jobs of the artifact file
          tasks,       \* background tasks that are to record an event
          events,      \* execution_events of the artifact file
          packets      \* replays whose packet is stored with their incident

vars == <<execution, req, begun, jobs, tasks, events, packets>>

Replays == 1..MaxReplays

JobStates == {"none", "queued", "running", "completed", "recovered"}
Closed    == {"completed", "recovered"}

SomeIncident == CHOOSE i \in Incidents : TRUE
NoJob == [state |-> "none", incident |-> SomeIncident]

Quiet == [running |-> FALSE, by |-> 0]

Idle == [pc |-> "idle", id |-> 0, incident |-> SomeIncident, executed |-> FALSE]

Events == [by: Nat, finisher: Nat, status: {"completed", "failed"}]

Init == /\ execution = Quiet
        /\ req = [s \in Slots |-> Idle]
        /\ begun = 0
        /\ jobs = [j \in Replays |-> NoJob]
        /\ tasks = <<>>
        /\ events = <<>>
        /\ packets = {}

\* The request has begun a replay and has not ended; its replay may hang.
InProgress(s) == \/ req[s].pc \in {"queued", "replayed", "stored"}
                 \/ req[s].pc = "hung" /\ req[s].id # 0

\* No script and no compose call holds the event loop.
Responsive == \A s \in Slots : req[s].pc # "hung"

-----------------------------------------------------------------------------
(* Artifact file *)

DefaultPayload == [jobs |-> [j \in Replays |-> NoJob], events |-> <<>>]

\* _load_artifacts: the file, or the default payload when it cannot be read.
Loaded == {[jobs |-> jobs, events |-> events]}
          \cup (IF "unreadable" \in Faults THEN {DefaultPayload} ELSE {})

\* _persist_artifacts: the file is replaced; a failure is logged and ignored.
Persisted(file) ==
    \/ jobs' = file.jobs /\ events' = file.events
    \/ "unwritable" \in Faults /\ UNCHANGED <<jobs, events>>

\* record_runtime_queue_job.
RecordJob(j, incident) ==
    \E file \in Loaded :
        Persisted([file EXCEPT !.jobs[j] = [state |-> "queued", incident |-> incident]])

\* update_runtime_queue_job: a job that is not in the file read is not found,
\* and the file is written all the same.
UpdateJob(j, state) ==
    \E file \in Loaded :
        Persisted(IF file.jobs[j].state = "none" THEN file
                  ELSE [file EXCEPT !.jobs[j].state = state])

\* An audit event, a guardian review or a replay launch that is recorded writes
\* the jobs and events of the file it has read.
OtherArtifact ==
    /\ Responsive
    /\ \E file \in Loaded : Persisted(file)
    /\ UNCHANGED <<execution, req, begun, tasks, packets>>

-----------------------------------------------------------------------------
(* RuntimeExecutionState *)

\* A slip of FinishExecution: the record is not reset.
FinishWithoutReset(s, status) ==
    IF execution.running
    THEN /\ tasks' = Append(tasks, [by |-> execution.by, finisher |-> req[s].id,
                                    status |-> status])
         /\ execution' = execution
    ELSE UNCHANGED <<execution, tasks>>

\* finish_execution: the event describes what the record holds.
FinishExecution(s, status) ==
    IF execution.running
    THEN /\ tasks' = Append(tasks, [by |-> execution.by, finisher |-> req[s].id,
                                    status |-> status])
         /\ execution' = Quiet
    ELSE UNCHANGED <<execution, tasks>>

-----------------------------------------------------------------------------
(* The route and trigger_replica_replay *)

Become(s, r) == req' = [req EXCEPT ![s] = r]

\* A request arrives and reads the context of its incident.
Arrive(s) ==
    /\ req[s].pc = "idle"
    /\ begun < MaxReplays
    /\ \E i \in Incidents : Become(s, [Idle EXCEPT !.pc = "context", !.incident = i])
    /\ UNCHANGED <<execution, begun, jobs, tasks, events, packets>>

\* No such incident for the tenant, or the context cannot be built: nothing was begun.
ContextFails(s) ==
    /\ req[s].pc = "context"
    /\ Become(s, Idle)
    /\ UNCHANGED <<execution, begun, jobs, tasks, events, packets>>

\* The compose tool that is asked for the context never answers.
ContextHangs(s) ==
    /\ "hang" \in Faults
    /\ req[s].pc = "context"
    /\ Become(s, [req[s] EXCEPT !.pc = "hung"])
    /\ UNCHANGED <<execution, begun, jobs, tasks, events, packets>>

\* A slip of Begin: the record keeps the incident it had.
BeginStale(s) ==
    /\ req[s].pc = "context"
    /\ begun < MaxReplays
    /\ begun' = begun + 1
    /\ execution' = [execution EXCEPT !.running = TRUE]
    /\ RecordJob(begun + 1, req[s].incident)
    /\ Become(s, [req[s] EXCEPT !.pc = "queued", !.id = begun + 1])
    /\ UNCHANGED <<tasks, packets>>

\* start_execution overwrites the record, then the job is queued.
Begin(s) ==
    /\ req[s].pc = "context"
    /\ begun < MaxReplays
    /\ begun' = begun + 1
    /\ execution' = [running |-> TRUE, by |-> begun + 1]
    /\ RecordJob(begun + 1, req[s].incident)
    /\ Become(s, [req[s] EXCEPT !.pc = "queued", !.id = begun + 1])
    /\ UNCHANGED <<tasks, packets>>

\* start_job, then the replay: on this host, on the relay, or not at all when
\* the incident's pack cannot be executed.
Replay(s) ==
    /\ req[s].pc = "queued"
    /\ \E executed \in BOOLEAN : Become(s, [req[s] EXCEPT !.pc = "replayed", !.executed = executed])
    /\ UpdateJob(req[s].id, "running")
    /\ UNCHANGED <<execution, begun, tasks, packets>>

\* The context is read again, which asks the compose tool, or start_job and the
\* replay follow: a script or a compose call never returns.
Hang(s) ==
    /\ "hang" \in Faults
    /\ req[s].pc = "queued"
    /\ Become(s, [req[s] EXCEPT !.pc = "hung"])
    /\ \/ UNCHANGED <<jobs, events>>
       \/ UpdateJob(req[s].id, "running")
    /\ UNCHANGED <<execution, begun, tasks, packets>>

\* A slip of StorePacket: the packet is not stored with the incident.
SkipPacket(s) ==
    /\ req[s].pc = "replayed"
    /\ Become(s, [req[s] EXCEPT !.pc = "stored"])
    /\ UNCHANGED <<execution, begun, jobs, tasks, events, packets>>

\* append_incident_replay_evidence commits, if the incident has a row.
StorePacket(s) ==
    /\ req[s].pc = "replayed"
    /\ packets' = IF req[s].incident \in Demo THEN packets ELSE packets \cup {req[s].id}
    /\ Become(s, [req[s] EXCEPT !.pc = "stored"])
    /\ UNCHANGED <<execution, begun, jobs, tasks, events>>

\* A slip of Close: a replay that was not executed is put back into the queue.
CloseRequeues(s) ==
    /\ req[s].pc = "stored"
    /\ UpdateJob(req[s].id, IF req[s].executed THEN "recovered" ELSE "queued")
    /\ FinishExecution(s, IF req[s].executed THEN "completed" ELSE "failed")
    /\ Become(s, Idle)
    /\ UNCHANGED <<begun, packets>>

\* recover_job of an executed replay, complete_job of any other, then
\* finish_execution.  What the route does after that changes none of this.
Close(s) ==
    /\ req[s].pc = "stored"
    /\ UpdateJob(req[s].id, IF req[s].executed THEN "recovered" ELSE "completed")
    /\ FinishExecution(s, IF req[s].executed THEN "completed" ELSE "failed")
    /\ Become(s, Idle)
    /\ UNCHANGED <<begun, packets>>

\* A slip of Raise: the record is left as it is.
RaiseForgets(s) ==
    /\ "exception" \in Faults
    /\ InProgress(s)
    /\ Become(s, Idle)
    /\ UNCHANGED <<execution, begun, jobs, tasks, events, packets>>

\* An exception while a replay is under way: the context cannot be read again,
\* a script or the relay fails after start_job, or the database does.  The route
\* finishes the execution as failed; the job stays as it is.
Raise(s) ==
    /\ "exception" \in Faults
    /\ InProgress(s)
    /\ \/ UNCHANGED <<jobs, events>>
       \/ req[s].pc = "queued" /\ UpdateJob(req[s].id, "running")
    /\ FinishExecution(s, "failed")
    /\ Become(s, Idle)
    /\ UNCHANGED <<begun, packets>>

\* The oldest background task records its event (record_execution_event).
RecordEvent ==
    /\ Responsive
    /\ tasks # <<>>
    /\ \E file \in Loaded : Persisted([file EXCEPT !.events = Append(@, Head(tasks))])
    /\ tasks' = Tail(tasks)
    /\ UNCHANGED <<execution, req, begun, packets>>

\* The process dies and is started again: the files and the database are kept.
Restart ==
    /\ "restart" \in Faults
    /\ \/ tasks # <<>>
       \/ \E s \in Slots : req[s].pc # "idle"
    /\ execution' = Quiet
    /\ req' = [s \in Slots |-> Idle]
    /\ tasks' = <<>>
    /\ UNCHANGED <<begun, jobs, events, packets>>

-----------------------------------------------------------------------------

Handle(s) ==
    /\ Responsive
    /\ \/ ContextFails(s) \/ ContextHangs(s) \/ Begin(s)
       \/ Replay(s) \/ Hang(s) \/ StorePacket(s) \/ Close(s)

Next == \/ \E s \in Slots : Handle(s) \/ (Responsive /\ (Arrive(s) \/ Raise(s)))
        \/ RecordEvent
        \/ OtherArtifact
        \/ Restart

Spec == Init /\ [][Next]_vars

\* As long as no script hangs, the event loop runs every ready coroutine and
\* task again and again: the relay is called with a timeout, and database calls
\* return or raise.  That a script returns is not assumed.
FairSpec == /\ Spec
            /\ \A s \in Slots : WF_vars(Handle(s))
            /\ WF_vars(RecordEvent)

-----------------------------------------------------------------------------
(* Properties that hold however replays overlap *)

TypeOK ==
    /\ execution \in [running: BOOLEAN, by: 0..MaxReplays]
    /\ req \in [Slots -> [pc: {"idle", "context", "queued", "hung", "replayed", "stored"},
                          id: 0..MaxReplays, incident: Incidents, executed: BOOLEAN]]
    /\ begun \in 0..MaxReplays
    /\ jobs \in [Replays -> [state: JobStates, incident: Incidents]]
    /\ tasks \in Seq(Events)
    /\ events \in Seq(Events)
    /\ packets \subseteq Replays

\* The record never names a replay that is over: when it says that a replay
\* runs, the replay it names is under way, after overlaps and failures as well.
RecordNamesAReplay ==
    execution.running => \E s \in Slots : InProgress(s) /\ req[s].id = execution.by

\* A job that is closed has its packet stored, unless it is the job of a demo
\* incident, and nobody works on it any more.
ClosedJobsAreOver ==
    \A j \in Replays : jobs[j].state \in Closed =>
        /\ jobs[j].incident \in Demo \/ j \in packets
        /\ \A s \in Slots : req[s].id # j

\* No replay is reported by two events, although every request that ends
\* finishes whatever the record holds.
ReportedOnce ==
    LET all == events \o tasks
    IN  \A i, k \in DOMAIN all : i # k => all[i].by # all[k].by

\* What became of each job: one that was begun and is not in the artifact file
\* is lost, whether it was never written or the file was written without it.
RecordedStates ==
    [j \in Replays |-> IF jobs[j].state = "none" /\ j <= begun THEN "lost" ELSE jobs[j].state]

LifeCycle == INSTANCE JobLifeCycle
             WITH JobIds <- Replays, MayLoseList <- "unreadable" \in Faults,
                  state <- RecordedStates

\* The jobs move through the life cycle and nothing else; they are lost all at
\* once, when the artifact file could not be read, and a lost job stays lost.

ImplementsLifeCycle == LifeCycle!Spec

-----------------------------------------------------------------------------
(* Properties that hold when replays do not overlap *)

\* An event reports the replay that ended, not another one.
EventsNameTheirReplay ==
    \A i \in DOMAIN events : events[i].by = events[i].finisher

\* Every replay that was begun is reported, also one that raised, unless a
\* script hangs, of this replay or of a later one before the report is written.
EveryReplayReported ==
    \A j \in Replays :
        (\E s \in Slots : InProgress(s) /\ req[s].id = j)
            ~> ((\E i \in DOMAIN events : events[i].finisher = j) \/ ~Responsive)

-----------------------------------------------------------------------------
(* What the program says of itself and does not keep *)

\* Jobs of interrupted replays can be recovered: no job is left open for ever.
InterruptedJobsClose ==
    \A j \in Replays : (jobs[j].state = "running") ~> (jobs[j].state \in Closed)
=============================================================================
