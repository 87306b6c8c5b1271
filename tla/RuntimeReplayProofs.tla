------------------------- MODULE RuntimeReplayProofs -------------------------
(***************************************************************************)
(* What holds of the runtime queue and of the execution record however     *)
(* replays overlap, fail and restart, for any number of requests.          *)
(*                                                                         *)
(* The safety properties are not inductive: that a closed job is over      *)
(* rests on every replay under way having a number of its own, that no     *)
(* later replay has, and on its job being open, as far as the replay has   *)
(* come, and about the same incident.  Any artifact call may empty the     *)
(* list, so a step leaves every other job as it is or erases it.           *)
(*                                                                         *)
(* That no replay is reported twice rests on the record: a replay is       *)
(* reported by whoever takes its number off the record, and a number that  *)
(* the record still holds was reported by nobody yet.                      *)
(***************************************************************************)
EXTENDS RuntimeReplay, TLAPS

\* Two replays under way have different numbers, all of them given out already.
OwnNumbers ==
    /\ \A s \in Slots : IF InProgress(s) THEN req[s].id \in 1..begun ELSE req[s].id = 0
    /\ \A s, t \in Slots : InProgress(s) /\ req[s].id = req[t].id => s = t

\* The job of a replay under way is as far as the replay is, or behind it.
OpenJobs ==
    /\ \A j \in Replays : j > begun => jobs[j].state = "none"
    /\ \A s \in Slots : InProgress(s) => jobs[req[s].id].state \notin Closed
    /\ \A s \in Slots : req[s].pc = "queued" => jobs[req[s].id].state # "running"

\* The job of a replay is about the incident of the replay.
OwnIncidents ==
    \A s \in Slots : InProgress(s) /\ jobs[req[s].id].state # "none" =>
        jobs[req[s].id].incident = req[s].incident

StoredPackets ==
    \A s \in Slots : req[s].pc = "stored" => req[s].incident \in Demo \/ req[s].id \in packets

IInv == /\ TypeOK
        /\ OwnNumbers
        /\ OpenJobs
        /\ OwnIncidents
        /\ StoredPackets
        /\ RecordNamesAReplay
        /\ ClosedJobsAreOver

-----------------------------------------------------------------------------

LEMMA SomeIncidentExists == SomeIncident \in Incidents
BY ReplayAssumption DEF SomeIncident

LEMMA InitIInv == Init => IInv
<1>. SUFFICES ASSUME Init PROVE IInv
  OBVIOUS
<1>1. TypeOK
  BY SomeIncidentExists, ReplayAssumption
  DEF Init, TypeOK, Quiet, Idle, NoJob, JobStates, Replays
<1>2. OwnNumbers /\ OwnIncidents /\ StoredPackets /\ RecordNamesAReplay
  BY DEF Init, OwnNumbers, OwnIncidents, StoredPackets, RecordNamesAReplay, InProgress, Idle, Quiet
<1>3. OpenJobs /\ ClosedJobsAreOver
  BY DEF Init, OpenJobs, ClosedJobsAreOver, InProgress, Idle, NoJob, Closed
<1>. QED BY <1>1, <1>2, <1>3 DEF IInv

LEMMA NoJobIsNone ==
  /\ NoJob.state = "none" /\ NoJob.state \notin Closed
  /\ NoJob \in [state: JobStates, incident: Incidents]
BY SomeIncidentExists DEF NoJob, Closed, JobStates

\* The list of jobs of a file that could not be read.
Emptied == [k \in Replays |-> NoJob]

\* The list of jobs in a file that is read, and what else is in it.
LEMMA LoadedFile ==
  ASSUME NEW file \in Loaded
  PROVE  /\ \/ file.jobs = jobs /\ file.events = events
            \/ "unreadable" \in Faults /\ file.jobs = Emptied /\ file.events = <<>>
         /\ file = [jobs |-> file.jobs, events |-> file.events]
BY DEF Loaded, DefaultPayload, Emptied

\* What updating one job does to the list.
LEMMA UpdateJobEffect ==
  ASSUME TypeOK, NEW j \in Replays, NEW state, UpdateJob(j, state)
  PROVE  /\ events' \in {events, <<>>}
         /\ \/ jobs' = jobs
            \/ "unreadable" \in Faults /\ jobs' = Emptied
            \/ jobs[j].state # "none" /\ jobs' = [jobs EXCEPT ![j].state = state]
<1>1. PICK file \in Loaded :
         Persisted(IF file.jobs[j].state = "none" THEN file
                   ELSE [file EXCEPT !.jobs[j].state = state])
  BY DEF UpdateJob
<1>2. CASE file.jobs[j].state = "none"
  BY <1>1, <1>2, LoadedFile DEF Persisted
<1>3. CASE file.jobs[j].state # "none"
  <2>1. file.jobs = jobs /\ file.events = events
    BY <1>3, LoadedFile, NoJobIsNone DEF Emptied
  <2>2. file = [jobs |-> jobs, events |-> events]
    BY <2>1, LoadedFile
  <2>3. Persisted([jobs |-> [jobs EXCEPT ![j].state = state], events |-> events])
    BY <1>1, <1>3, <2>2
  <2>. QED BY <1>3, <2>1, <2>3 DEF Persisted
<1>. QED BY <1>2, <1>3

LEMMA KeptOrEmptied ==
  ASSUME TypeOK, events' \in {events, <<>>}
  PROVE  events' \in Seq(Events)
<1>1. events \in Seq(Events) /\ <<>> \in Seq(Events)
  BY DEF TypeOK
<1>. QED BY <1>1

\* A list of which every job but one is as before or erased; that one may have
\* changed its state, if it was in the list.
JobsKeptBut(j) ==
  /\ jobs' \in [Replays -> [state: JobStates, incident: Incidents]]
  /\ \A k \in Replays : k # j => jobs'[k] \in {jobs[k], NoJob}
  /\ jobs'[j].state # "none" =>
        jobs[j].state # "none" /\ jobs'[j].incident = jobs[j].incident

LEMMA UpdatedJobs ==
  ASSUME TypeOK, NEW j \in Replays, NEW state \in JobStates, UpdateJob(j, state)
  PROVE  /\ JobsKeptBut(j)
         /\ events' \in Seq(Events)
         /\ jobs'[j].state \in {jobs[j].state, "none", state}
<1>1. /\ events' \in {events, <<>>}
      /\ \/ jobs' = jobs
         \/ "unreadable" \in Faults /\ jobs' = Emptied
         \/ jobs[j].state # "none" /\ jobs' = [jobs EXCEPT ![j].state = state]
  BY UpdateJobEffect
<1>2. jobs \in [Replays -> [state: JobStates, incident: Incidents]] /\ events \in Seq(Events)
  BY DEF TypeOK
<1>3. events' \in Seq(Events)
  BY <1>1, KeptOrEmptied
<1>4. CASE jobs' = jobs
  BY <1>2, <1>3, <1>4 DEF JobsKeptBut
<1>5. CASE jobs' = Emptied
  BY <1>2, <1>3, <1>5, NoJobIsNone DEF JobsKeptBut, Emptied
<1>6. CASE jobs[j].state # "none" /\ jobs' = [jobs EXCEPT ![j].state = state]
  BY <1>2, <1>3, <1>6 DEF JobsKeptBut
<1>. QED BY <1>1, <1>4, <1>5, <1>6

LEMMA UntouchedJobs ==
  ASSUME TypeOK, NEW j \in Replays, UNCHANGED <<jobs, events>>
  PROVE  JobsKeptBut(j) /\ events' \in Seq(Events) /\ jobs'[j].state = jobs[j].state
BY DEF TypeOK, JobsKeptBut

\* Finishing an execution leaves the record idle and the types as they are.
LEMMA FinishedIsQuiet ==
  ASSUME TypeOK, NEW s \in Slots, NEW status \in {"completed", "failed"},
         FinishExecution(s, status)
  PROVE  /\ execution' \in [running: BOOLEAN, by: 0..MaxReplays]
         /\ ~execution'.running
         /\ tasks' \in Seq(Events)
<1>1. tasks \in Seq(Events) /\ execution \in [running: BOOLEAN, by: 0..MaxReplays]
  BY DEF TypeOK
<1>2. Quiet \in [running: BOOLEAN, by: 0..MaxReplays] /\ ~Quiet.running
  BY ReplayAssumption DEF Quiet
<1>3. CASE execution.running
  <2>. DEFINE event == [by |-> execution.by, finisher |-> req[s].id, status |-> status]
  <2>1. event \in Events
    BY ReplayAssumption DEF Events, TypeOK
  <2>2. tasks' = Append(tasks, event) /\ execution' = Quiet
    BY <1>3 DEF FinishExecution
  <2>. HIDE DEF event
  <2>3. tasks' \in Seq(Events)
    BY <1>1, <2>1, <2>2
  <2>. QED BY <1>2, <2>2, <2>3
<1>4. CASE ~execution.running
  BY <1>1, <1>4 DEF FinishExecution
<1>. QED BY <1>3, <1>4

-----------------------------------------------------------------------------
(* Steps that end a replay: the slot becomes idle, the record quiet, the job *)
(* is left open or closed with its packet stored.                            *)

LEMMA EndPreserves ==
  ASSUME IInv, NEW s \in Slots, InProgress(s), Become(s, Idle),
         ~execution'.running,
         execution' \in [running: BOOLEAN, by: 0..MaxReplays],
         tasks' \in Seq(Events), events' \in Seq(Events), UNCHANGED <<begun, packets>>,
         JobsKeptBut(req[s].id),
         jobs'[req[s].id].state \in Closed => req[s].pc = "stored"
  PROVE  IInv'
<1>. USE NoJobIsNone DEF IInv, JobsKeptBut
<1>1. req' = [req EXCEPT ![s] = Idle] /\ req[s].id \in Replays /\ req[s].id \in 1..begun
  BY DEF Become, OwnNumbers, InProgress, TypeOK, Replays
<1>2. TypeOK'
  BY <1>1, SomeIncidentExists, ReplayAssumption DEF TypeOK, Idle
<1>3. \A t \in Slots : InProgress(t)' => t # s /\ InProgress(t) /\ req'[t] = req[t]
  BY <1>1 DEF InProgress, Idle, TypeOK
<1>4. OwnNumbers'
  BY <1>1, <1>3 DEF OwnNumbers, InProgress, Idle, TypeOK
<1>5. \A t \in Slots : InProgress(t)' => jobs'[req'[t].id] \in {jobs[req[t].id], NoJob}
  <2>. SUFFICES ASSUME NEW t \in Slots, InProgress(t)'
                PROVE  jobs'[req'[t].id] \in {jobs[req[t].id], NoJob}
    OBVIOUS
  <2>1. t # s /\ InProgress(t) /\ req'[t] = req[t]
    BY <1>3
  <2>2. req[t].id # req[s].id /\ req[t].id \in Replays
    BY <2>1 DEF OwnNumbers, TypeOK, Replays
  <2>. QED BY <2>1, <2>2
<1>6. OpenJobs'
  <2>1. \A j \in Replays : j > begun' => jobs'[j].state = "none"
    BY <1>1 DEF OpenJobs, Replays, TypeOK
  <2>2. \A t \in Slots : InProgress(t)' => jobs'[req'[t].id].state \notin Closed
    BY <1>3, <1>5 DEF OpenJobs
  <2>3. ASSUME NEW t \in Slots, req'[t].pc = "queued"
        PROVE  jobs'[req'[t].id].state # "running"
    <3>1. InProgress(t)'
      BY <2>3 DEF InProgress
    <3>2. req'[t] = req[t] /\ jobs'[req'[t].id] \in {jobs[req[t].id], NoJob}
      BY <1>3, <1>5, <3>1
    <3>. HIDE DEF JobsKeptBut, IInv
    <3>3. jobs[req[t].id].state # "running"
      BY <2>3, <3>2 DEF OpenJobs, IInv
    <3>. QED BY <3>2, <3>3
  <2>. QED BY <2>1, <2>2, <2>3 DEF OpenJobs
<1>7. StoredPackets' /\ OwnIncidents'
  BY <1>3, <1>5 DEF StoredPackets, OwnIncidents, InProgress
<1>8. RecordNamesAReplay'
  BY DEF RecordNamesAReplay
<1>9. ClosedJobsAreOver'
  <2>. SUFFICES ASSUME NEW j \in Replays, jobs'[j].state \in Closed
                PROVE  /\ jobs'[j].incident \in Demo \/ j \in packets'
                       /\ \A t \in Slots : req'[t].id # j
    BY DEF ClosedJobsAreOver
  <2>1. CASE j = req[s].id
    <3>1. jobs'[j].incident = req[s].incident
      BY <2>1 DEF OwnIncidents, Closed, JobsKeptBut
    <3>3. jobs'[j].incident \in Demo \/ j \in packets
      BY <2>1, <3>1 DEF StoredPackets
    <3>2. \A t \in Slots : req'[t].id # j
      BY <1>1, <2>1 DEF OwnNumbers, TypeOK, Idle, Replays
    <3>. QED BY <3>2, <3>3
  <2>2. CASE j # req[s].id
    <3>1. jobs'[j] = jobs[j]
      BY <1>1, <2>2
    <3>. QED BY <3>1, <1>1 DEF ClosedJobsAreOver, TypeOK, Idle, Replays
  <2>. QED BY <2>1, <2>2
<1>. QED BY <1>2, <1>4, <1>6, <1>7, <1>8, <1>9

LEMMA RaisePreserves ==
  ASSUME IInv, NEW s \in Slots, Raise(s)
  PROVE  IInv'
<1>1. InProgress(s) /\ Become(s, Idle) /\ UNCHANGED <<begun, packets>>
  BY DEF Raise
<1>2. req[s].id \in Replays /\ TypeOK
  BY <1>1 DEF IInv, OwnNumbers, TypeOK, Replays
<1>3. /\ execution' \in [running: BOOLEAN, by: 0..MaxReplays]
      /\ ~execution'.running
      /\ tasks' \in Seq(Events)
  BY <1>2, FinishedIsQuiet DEF Raise
<1>4. jobs[req[s].id].state \notin Closed
  BY <1>1 DEF IInv, OpenJobs
<1>5. "running" \in JobStates /\ "running" \notin Closed /\ "none" \notin Closed
  BY DEF JobStates, Closed
<1>6. JobsKeptBut(req[s].id) /\ events' \in Seq(Events) /\ jobs'[req[s].id].state \notin Closed
  <2>1. CASE UNCHANGED <<jobs, events>>
    BY <1>2, <1>4, <2>1, UntouchedJobs
  <2>2. CASE UpdateJob(req[s].id, "running")
    BY <1>2, <1>4, <1>5, <2>2, UpdatedJobs
  <2>. QED BY <2>1, <2>2 DEF Raise
<1>. QED BY <1>1, <1>3, <1>6, EndPreserves

LEMMA ClosePreserves ==
  ASSUME IInv, NEW s \in Slots, Close(s)
  PROVE  IInv'
<1>. DEFINE status  == IF req[s].executed THEN "completed" ELSE "failed"
            outcome == IF req[s].executed THEN "recovered" ELSE "completed"
<1>1. /\ req[s].pc = "stored" /\ InProgress(s)
      /\ Become(s, Idle) /\ UNCHANGED <<begun, packets>>
      /\ UpdateJob(req[s].id, outcome)
      /\ FinishExecution(s, status)
  BY DEF Close, InProgress
<1>2. req[s].id \in Replays /\ TypeOK
  BY <1>1 DEF IInv, OwnNumbers, TypeOK, Replays
<1>3. status \in {"completed", "failed"} /\ outcome \in JobStates
  BY DEF JobStates
<1>. HIDE DEF status, outcome
<1>4. /\ execution' \in [running: BOOLEAN, by: 0..MaxReplays]
      /\ ~execution'.running
      /\ tasks' \in Seq(Events)
  BY <1>1, <1>2, <1>3, FinishedIsQuiet
<1>5. JobsKeptBut(req[s].id) /\ events' \in Seq(Events)
  BY <1>1, <1>2, <1>3, UpdatedJobs
<1>. QED BY <1>1, <1>4, <1>5, EndPreserves

-----------------------------------------------------------------------------
(* Steps of a request that begins nothing.                                   *)

LEMMA OutsidePreserves ==
  ASSUME IInv, NEW s \in Slots, ~InProgress(s),
         NEW r \in [pc: {"idle", "context", "hung"}, id: {0}, incident: Incidents,
                    executed: BOOLEAN],
         Become(s, r), UNCHANGED <<execution, begun, jobs, tasks, events, packets>>
  PROVE  IInv'
<1>. USE DEF IInv
<1>1. req' = [req EXCEPT ![s] = r] /\ r.id = 0 /\ r.pc \in {"idle", "context", "hung"}
  BY DEF Become
<1>2. TypeOK'
  BY <1>1, ReplayAssumption DEF TypeOK
<1>3. \A t \in Slots : InProgress(t)' <=> InProgress(t)
  BY <1>1 DEF InProgress, TypeOK
<1>4. \A t \in Slots : InProgress(t) => t # s /\ req'[t] = req[t]
  BY <1>1 DEF TypeOK
<1>5. \A t \in Slots : t # s => req'[t] = req[t]
  BY <1>1 DEF TypeOK
<1>6. req'[s] = r
  BY <1>1 DEF TypeOK
<1>7. OwnNumbers'
  BY <1>1, <1>3, <1>4, <1>5, <1>6 DEF OwnNumbers
<1>8. OpenJobs'
  <2>1. \A t \in Slots : InProgress(t)' => jobs'[req'[t].id].state \notin Closed
    BY <1>3, <1>4 DEF OpenJobs
  <2>2. \A t \in Slots : req'[t].pc = "queued" => jobs'[req'[t].id].state # "running"
    BY <1>1, <1>5, <1>6 DEF OpenJobs
  <2>. QED BY <2>1, <2>2 DEF OpenJobs
<1>9. StoredPackets' /\ OwnIncidents'
  BY <1>1, <1>3, <1>4, <1>5, <1>6 DEF StoredPackets, OwnIncidents
<1>10. RecordNamesAReplay'
  BY <1>3, <1>4 DEF RecordNamesAReplay
<1>11. ClosedJobsAreOver'
  BY <1>1, <1>5, <1>6 DEF ClosedJobsAreOver, Replays
<1>. QED BY <1>2, <1>7, <1>8, <1>9, <1>10, <1>11

LEMMA ArrivePreserves ==
  ASSUME IInv, NEW s \in Slots, Arrive(s)
  PROVE  IInv'
<1>1. PICK i \in Incidents : Become(s, [Idle EXCEPT !.pc = "context", !.incident = i])
  BY DEF Arrive
<1>2. [Idle EXCEPT !.pc = "context", !.incident = i] \in
          [pc: {"idle", "context", "hung"}, id: {0}, incident: Incidents, executed: BOOLEAN]
  BY DEF Idle
<1>3. ~InProgress(s)
  BY DEF Arrive, InProgress
<1>. QED BY <1>1, <1>2, <1>3, OutsidePreserves DEF Arrive

LEMMA ContextFailsPreserves ==
  ASSUME IInv, NEW s \in Slots, ContextFails(s)
  PROVE  IInv'
<1>1. Idle \in [pc: {"idle", "context", "hung"}, id: {0}, incident: Incidents, executed: BOOLEAN]
  BY SomeIncidentExists DEF Idle
<1>2. ~InProgress(s)
  BY DEF ContextFails, InProgress
<1>. QED BY <1>1, <1>2, OutsidePreserves DEF ContextFails

LEMMA ContextHangsPreserves ==
  ASSUME IInv, NEW s \in Slots, ContextHangs(s)
  PROVE  IInv'
<1>1. ~InProgress(s)
  BY DEF ContextHangs, InProgress
<1>2. req[s].id = 0 /\ TypeOK
  BY <1>1 DEF IInv, OwnNumbers
<1>3. [req[s] EXCEPT !.pc = "hung"] \in
          [pc: {"idle", "context", "hung"}, id: {0}, incident: Incidents, executed: BOOLEAN]
  BY <1>2 DEF TypeOK
<1>. QED BY <1>1, <1>3, OutsidePreserves DEF ContextHangs

-----------------------------------------------------------------------------
(* Steps of a replay under way.                                              *)

LEMMA AdvancePreserves ==
  ASSUME IInv, NEW s \in Slots, InProgress(s),
         NEW r \in [pc: {"hung", "replayed", "stored"}, id: {req[s].id},
                    incident: {req[s].incident}, executed: BOOLEAN],
         Become(s, r), UNCHANGED <<execution, begun, tasks>>, events' \in Seq(Events),
         packets \subseteq packets', packets' \subseteq Replays,
         r.pc = "stored" => r.incident \in Demo \/ r.id \in packets',
         JobsKeptBut(req[s].id),
         jobs'[req[s].id].state \notin Closed
  PROVE  IInv'
<1>. USE NoJobIsNone DEF IInv, JobsKeptBut
<1>1. /\ req' = [req EXCEPT ![s] = r] /\ r.id = req[s].id /\ r.incident = req[s].incident
      /\ req[s].id \in Replays /\ req[s].id \in 1..begun /\ begun \in Nat
  BY ReplayAssumption DEF Become, OwnNumbers, InProgress, TypeOK, Replays
<1>2. TypeOK'
  BY <1>1 DEF TypeOK
<1>3. req'[s] = r /\ \A t \in Slots : t # s => req'[t] = req[t]
  BY <1>1 DEF TypeOK
<1>4. \A t \in Slots : req'[t].id = req[t].id /\ (InProgress(t)' <=> InProgress(t))
  BY <1>1, <1>3 DEF InProgress
<1>5. OwnNumbers'
  BY <1>4 DEF OwnNumbers
<1>6. \A t \in Slots : InProgress(t) /\ t # s => jobs'[req[t].id] \in {jobs[req[t].id], NoJob}
  <2>. SUFFICES ASSUME NEW t \in Slots, InProgress(t), t # s
                PROVE  jobs'[req[t].id] \in {jobs[req[t].id], NoJob}
    OBVIOUS
  <2>1. req[t].id # req[s].id /\ req[t].id \in Replays
    BY DEF OwnNumbers, TypeOK, Replays
  <2>. QED BY <2>1
<1>7. OpenJobs'
  <2>1. \A j \in Replays : j > begun' => jobs'[j].state = "none"
    <3>. SUFFICES ASSUME NEW j \in Replays, j > begun PROVE jobs'[j].state = "none"
      OBVIOUS
    <3>1. j # req[s].id
      BY <1>1 DEF Replays
    <3>. QED BY <3>1 DEF OpenJobs
  <2>2. \A t \in Slots : InProgress(t)' => jobs'[req'[t].id].state \notin Closed
    BY <1>4, <1>6 DEF OpenJobs
  <2>3. \A t \in Slots : req'[t].pc = "queued" => jobs'[req'[t].id].state # "running"
    BY <1>3, <1>6 DEF OpenJobs, InProgress
  <2>. QED BY <2>1, <2>2, <2>3 DEF OpenJobs
<1>8. StoredPackets' /\ OwnIncidents'
  <2>1. StoredPackets'
    BY <1>3 DEF StoredPackets
  <2>2. ASSUME NEW t \in Slots, InProgress(t)', jobs'[req'[t].id].state # "none"
        PROVE  jobs'[req'[t].id].incident = req'[t].incident
    <3>1. CASE t = s
      BY <1>1, <1>3, <2>2, <3>1 DEF OwnIncidents
    <3>2. CASE t # s
      BY <1>3, <1>4, <1>6, <2>2, <3>2 DEF OwnIncidents
    <3>. QED BY <3>1, <3>2
  <2>. QED BY <2>1, <2>2 DEF OwnIncidents
<1>9. RecordNamesAReplay'
  BY <1>4 DEF RecordNamesAReplay
<1>10. ClosedJobsAreOver'
  <2>. SUFFICES ASSUME NEW j \in Replays, jobs'[j].state \in Closed
                PROVE  /\ jobs'[j].incident \in Demo \/ j \in packets'
                       /\ \A t \in Slots : req'[t].id # j
    BY DEF ClosedJobsAreOver
  <2>1. j # req[s].id /\ jobs'[j] = jobs[j]
    OBVIOUS
  <2>. QED BY <2>1, <1>4 DEF ClosedJobsAreOver
<1>. QED BY <1>2, <1>5, <1>7, <1>8, <1>9, <1>10

LEMMA ReplayPreserves ==
  ASSUME IInv, NEW s \in Slots, Replay(s) \/ Hang(s)
  PROVE  IInv'
<1>1. PICK pc \in {"replayed", "hung"}, executed \in BOOLEAN :
         Become(s, [req[s] EXCEPT !.pc = pc, !.executed = executed])
  <2>1. [req[s] EXCEPT !.pc = "hung"] = [req[s] EXCEPT !.pc = "hung", !.executed = req[s].executed]
        /\ req[s].executed \in BOOLEAN
    BY DEF IInv, TypeOK
  <2>. QED BY <2>1 DEF Replay, Hang
<1>. DEFINE r == [req[s] EXCEPT !.pc = pc, !.executed = executed]
<1>2. InProgress(s) /\ req[s].id \in Replays /\ TypeOK
  <2>1. InProgress(s)
    BY DEF Replay, Hang, InProgress
  <2>. QED BY <2>1 DEF IInv, OwnNumbers, TypeOK, Replays
<1>3. r \in [pc: {"hung", "replayed", "stored"}, id: {req[s].id}, incident: {req[s].incident},
             executed: BOOLEAN]
  BY <1>2 DEF TypeOK
<1>4. r.pc # "stored"
  BY <1>2 DEF TypeOK
<1>5. Become(s, r)
  BY <1>1
<1>. HIDE DEF r
<1>6. jobs[req[s].id].state \notin Closed
  BY <1>2 DEF IInv, OpenJobs
<1>7. packets \subseteq Replays /\ UNCHANGED <<execution, begun, tasks, packets>>
  BY <1>2 DEF TypeOK, Replay, Hang
<1>8. "running" \in JobStates /\ "running" \notin Closed /\ "none" \notin Closed
  BY DEF JobStates, Closed
<1>9. JobsKeptBut(req[s].id) /\ events' \in Seq(Events) /\ jobs'[req[s].id].state \notin Closed
  <2>1. CASE UNCHANGED <<jobs, events>>
    BY <1>2, <1>6, <2>1, UntouchedJobs
  <2>2. CASE UpdateJob(req[s].id, "running")
    BY <1>2, <1>6, <1>8, <2>2, UpdatedJobs
  <2>. QED BY <2>1, <2>2 DEF Replay, Hang
<1>. QED BY <1>2, <1>3, <1>4, <1>5, <1>7, <1>9, AdvancePreserves

LEMMA StorePacketPreserves ==
  ASSUME IInv, NEW s \in Slots, StorePacket(s)
  PROVE  IInv'
<1>. DEFINE r == [req[s] EXCEPT !.pc = "stored"]
<1>1. InProgress(s) /\ req[s].id \in Replays /\ TypeOK
  BY DEF StorePacket, InProgress, IInv, OwnNumbers, TypeOK, Replays
<1>2. /\ r \in [pc: {"hung", "replayed", "stored"}, id: {req[s].id}, incident: {req[s].incident},
                executed: BOOLEAN]
      /\ r.id = req[s].id /\ r.incident = req[s].incident
  BY <1>1 DEF TypeOK
<1>3. Become(s, r)
  BY DEF StorePacket
<1>. HIDE DEF r
<1>4. jobs[req[s].id].state \notin Closed /\ UNCHANGED <<jobs, events>>
  BY <1>1 DEF IInv, OpenJobs, StorePacket
<1>5. /\ packets \subseteq packets' /\ packets' \subseteq Replays
      /\ r.incident \in Demo \/ r.id \in packets'
      /\ UNCHANGED <<execution, begun, tasks>>
  BY <1>1, <1>2 DEF TypeOK, StorePacket
<1>6. JobsKeptBut(req[s].id) /\ events' \in Seq(Events) /\ jobs'[req[s].id].state \notin Closed
  BY <1>1, <1>4, UntouchedJobs
<1>. QED BY <1>1, <1>2, <1>3, <1>5, <1>6, AdvancePreserves

\* What queueing a job does to the list.
LEMMA RecordJobEffect ==
  ASSUME TypeOK, NEW j \in Replays, NEW incident, RecordJob(j, incident)
  PROVE  /\ events' \in {events, <<>>}
         /\ \/ jobs' = jobs
            \/ jobs' = [jobs EXCEPT ![j] = [state |-> "queued", incident |-> incident]]
            \/ /\ "unreadable" \in Faults
               /\ jobs' = [Emptied EXCEPT ![j] = [state |-> "queued", incident |-> incident]]
<1>. DEFINE job == [state |-> "queued", incident |-> incident]
<1>1. PICK file \in Loaded : Persisted([file EXCEPT !.jobs[j] = job])
  BY DEF RecordJob
<1>. HIDE DEF job
<1>2. [file EXCEPT !.jobs[j] = job] =
          [jobs |-> [file.jobs EXCEPT ![j] = job], events |-> file.events]
  BY LoadedFile
<1>3. \/ jobs' = [file.jobs EXCEPT ![j] = job] /\ events' = file.events
      \/ UNCHANGED <<jobs, events>>
  BY <1>1, <1>2 DEF Persisted
<1>4. QED BY <1>3, LoadedFile DEF job

LEMMA BeginPreserves ==
  ASSUME IInv, NEW s \in Slots, Begin(s)
  PROVE  IInv'
<1>. USE DEF IInv
<1>. DEFINE n == begun + 1
            r == [req[s] EXCEPT !.pc = "queued", !.id = begun + 1]
            job == [state |-> "queued", incident |-> req[s].incident]
<1>1. /\ begun \in Nat /\ begun' = n /\ n \in Replays /\ n > begun /\ n \in 0..MaxReplays
      /\ req[s].pc = "context" /\ ~InProgress(s)
      /\ UNCHANGED <<tasks, packets>>
  BY ReplayAssumption DEF Begin, TypeOK, InProgress, Replays
<1>2. execution' = [running |-> TRUE, by |-> n]
  BY DEF Begin
<1>3. req' = [req EXCEPT ![s] = r]
  BY DEF Begin, Become
<1>4. /\ events' \in {events, <<>>}
      /\ jobs' = jobs \/ jobs' = [jobs EXCEPT ![n] = job] \/ jobs' = [Emptied EXCEPT ![n] = job]
  BY <1>1, RecordJobEffect DEF Begin
<1>5. job \in [state: JobStates, incident: Incidents] /\ job.state = "queued"
      /\ job.incident = req[s].incident
  BY DEF TypeOK, JobStates
<1>6. /\ r \in [pc: {"queued"}, id: {n}, incident: Incidents, executed: BOOLEAN]
      /\ r.pc = "queued" /\ r.id = n /\ r.incident = req[s].incident
  BY DEF TypeOK
<1>. HIDE DEF n, r, job
<1>7. req'[s] = r /\ \A t \in Slots : t # s => req'[t] = req[t]
  BY <1>3 DEF TypeOK
<1>8. /\ jobs' \in [Replays -> [state: JobStates, incident: Incidents]]
      /\ \A k \in Replays : k # n => jobs'[k] \in {jobs[k], NoJob}
      /\ jobs'[n] = jobs[n] \/ jobs'[n] = job
  <2>1. CASE jobs' = jobs \/ jobs' = [jobs EXCEPT ![n] = job]
    BY <1>1, <1>5, <2>1 DEF TypeOK
  <2>2. CASE jobs' = [Emptied EXCEPT ![n] = job]
    <3>1. \A k \in Replays : k # n => jobs'[k] = NoJob
      BY <1>1, <2>2 DEF Emptied
    <3>2. jobs'[n] = job /\ jobs' = [k \in Replays |-> IF k = n THEN job ELSE NoJob]
      BY <1>1, <2>2 DEF Emptied
    <3>. QED BY <1>5, <3>1, <3>2, NoJobIsNone
  <2>. QED BY <1>4, <2>1, <2>2
<1>9. jobs[n].state = "none"
  BY <1>1 DEF OpenJobs
<1>10. jobs'[n].state \in {"none", "queued"} /\ jobs'[n].state \notin Closed
  BY <1>5, <1>8, <1>9 DEF Closed
<1>11. TypeOK'
  <2>1. events' \in Seq(Events)
    BY <1>4, KeptOrEmptied
  <2>. QED BY <1>1, <1>2, <1>3, <1>6, <1>8, <2>1 DEF TypeOK
<1>12. InProgress(s)' /\ \A t \in Slots : t # s => (InProgress(t)' <=> InProgress(t))
  BY <1>6, <1>7 DEF InProgress
<1>13. \A t \in Slots : InProgress(t) => t # s /\ req[t].id \in Replays /\ req[t].id < n
  BY <1>1 DEF OwnNumbers, TypeOK, Replays
<1>14. OwnNumbers'
  <2>1. \A t \in Slots : IF InProgress(t)' THEN req'[t].id \in 1..begun' ELSE req'[t].id = 0
    <3>. TAKE t \in Slots
    <3>1. CASE t = s
      BY <1>1, <1>6, <1>7, <1>12, <3>1
    <3>2. CASE t # s
      BY <1>1, <1>7, <1>12, <3>2 DEF OwnNumbers, n
    <3>. QED BY <3>1, <3>2
  <2>2. \A t, u \in Slots : InProgress(t)' /\ req'[t].id = req'[u].id => t = u
    <3>. SUFFICES ASSUME NEW t \in Slots, NEW u \in Slots,
                         InProgress(t)', req'[t].id = req'[u].id
                  PROVE  t = u
      OBVIOUS
    <3>1. \A v \in Slots : v # s => req'[v].id # n
      BY <1>1, <1>7 DEF OwnNumbers, n
    <3>2. CASE t = s \/ u = s
      BY <1>6, <1>7, <3>1, <3>2
    <3>3. CASE t # s /\ u # s
      BY <1>7, <1>12, <3>3 DEF OwnNumbers
    <3>. QED BY <3>2, <3>3
  <2>. QED BY <2>1, <2>2 DEF OwnNumbers
<1>15. OpenJobs'
  <2>1. \A j \in Replays : j > begun' => jobs'[j].state = "none"
    <3>. SUFFICES ASSUME NEW j \in Replays, j > n PROVE jobs'[j].state = "none"
      BY <1>1
    <3>1. j # n /\ j > begun
      BY <1>1 DEF Replays
    <3>. QED BY <1>8, <3>1, NoJobIsNone DEF OpenJobs
  <2>2. \A t \in Slots : t # s /\ InProgress(t)' => jobs'[req'[t].id] \in {jobs[req[t].id], NoJob}
    <3>. SUFFICES ASSUME NEW t \in Slots, t # s, InProgress(t)
                  PROVE  jobs'[req'[t].id] \in {jobs[req[t].id], NoJob}
      BY <1>12
    <3>1. req'[t] = req[t] /\ req[t].id \in Replays /\ req[t].id # n
      BY <1>1, <1>7, <1>13 DEF Replays
    <3>. QED BY <1>8, <3>1
  <2>3. \A t \in Slots : InProgress(t)' => jobs'[req'[t].id].state \notin Closed
    BY <1>6, <1>7, <1>10, <1>12, <2>2, NoJobIsNone DEF OpenJobs
  <2>4. \A t \in Slots : req'[t].pc = "queued" => jobs'[req'[t].id].state # "running"
    <3>. SUFFICES ASSUME NEW t \in Slots, req'[t].pc = "queued"
                  PROVE  jobs'[req'[t].id].state # "running"
      OBVIOUS
    <3>1. CASE t = s
      BY <1>6, <1>7, <1>10, <3>1
    <3>2. CASE t # s
      <4>1. req[t].pc = "queued" /\ InProgress(t)'
        BY <1>7, <3>2 DEF InProgress
      <4>. QED BY <2>2, <3>2, <4>1, NoJobIsNone DEF OpenJobs
    <3>. QED BY <3>1, <3>2
  <2>. QED BY <2>1, <2>3, <2>4 DEF OpenJobs
<1>16. StoredPackets' /\ OwnIncidents'
  <2>1. StoredPackets'
    BY <1>1, <1>6, <1>7 DEF StoredPackets
  <2>2. ASSUME NEW t \in Slots, InProgress(t)', jobs'[req'[t].id].state # "none"
        PROVE  jobs'[req'[t].id].incident = req'[t].incident
    <3>1. CASE t = s
      BY <1>5, <1>6, <1>7, <1>8, <1>9, <2>2, <3>1
    <3>2. CASE t # s
      <4>1. InProgress(t) /\ req'[t] = req[t]
        BY <1>7, <1>12, <2>2, <3>2
      <4>2. jobs'[req[t].id] \in {jobs[req[t].id], NoJob}
        BY <1>1, <1>8, <1>13, <4>1 DEF Replays
      <4>. QED BY <2>2, <4>1, <4>2, NoJobIsNone DEF OwnIncidents
    <3>. QED BY <3>1, <3>2
  <2>. QED BY <2>1, <2>2 DEF OwnIncidents
<1>17. RecordNamesAReplay'
  BY <1>2, <1>6, <1>7, <1>12 DEF RecordNamesAReplay
<1>18. ClosedJobsAreOver'
  <2>. SUFFICES ASSUME NEW j \in Replays, jobs'[j].state \in Closed
                PROVE  /\ jobs'[j].incident \in Demo \/ j \in packets'
                       /\ \A t \in Slots : req'[t].id # j
    BY DEF ClosedJobsAreOver
  <2>1. j # n /\ jobs'[j] = jobs[j] /\ jobs[j].state \in Closed
    BY <1>8, <1>10, NoJobIsNone
  <2>2. \A t \in Slots : req'[t].id # j
    BY <1>6, <1>7, <2>1 DEF ClosedJobsAreOver
  <2>. QED BY <1>1, <2>1, <2>2 DEF ClosedJobsAreOver
<1>. QED BY <1>11, <1>14, <1>15, <1>16, <1>17, <1>18

-----------------------------------------------------------------------------

\* What a call that leaves the jobs alone does to the file.
LEMMA FileEffect ==
  ASSUME NEW file \in Loaded, NEW list, Persisted([file EXCEPT !.events = list])
  PROVE  /\ events' \in {events, list}
         /\ jobs' = jobs \/ ("unreadable" \in Faults /\ jobs' = Emptied)
<1>1. [file EXCEPT !.events = list] = [jobs |-> file.jobs, events |-> list]
  BY LoadedFile
<1>. QED BY <1>1, LoadedFile DEF Persisted

LEMMA RecordEventEffect ==
  ASSUME RecordEvent
  PROVE  /\ events' \in {events, Append(events, Head(tasks)), Append(<<>>, Head(tasks))}
         /\ jobs' = jobs \/ ("unreadable" \in Faults /\ jobs' = Emptied)
<1>1. PICK file \in Loaded : Persisted([file EXCEPT !.events = Append(@, Head(tasks))])
  BY DEF RecordEvent
<1>2. Persisted([file EXCEPT !.events = Append(file.events, Head(tasks))])
  BY <1>1, LoadedFile
<1>3. file.events \in {events, <<>>}
  BY LoadedFile
<1>. QED BY <1>2, <1>3, FileEffect

LEMMA OtherArtifactEffect ==
  ASSUME OtherArtifact
  PROVE  /\ events' \in {events, <<>>}
         /\ jobs' = jobs \/ ("unreadable" \in Faults /\ jobs' = Emptied)
BY LoadedFile DEF OtherArtifact, Persisted

\* The artifact file is written outside of a replay.
LEMMA FilePreserves ==
  ASSUME IInv, jobs' \in {jobs, Emptied}, tasks' \in Seq(Events), events' \in Seq(Events),
         UNCHANGED <<execution, req, begun, packets>>
  PROVE  IInv'
<1>. USE DEF IInv
<1>1. jobs' \in [Replays -> [state: JobStates, incident: Incidents]]
  BY NoJobIsNone DEF TypeOK, Emptied
<1>2. \A k \in Replays : jobs'[k] \in {jobs[k], NoJob}
  BY DEF Emptied
<1>3. \A s \in Slots : (InProgress(s)' <=> InProgress(s)) /\ req'[s] = req[s]
  BY DEF InProgress
<1>4. \A s \in Slots : InProgress(s) => req[s].id \in Replays
  BY DEF OwnNumbers, TypeOK, Replays
<1>5. TypeOK'
  BY <1>1 DEF TypeOK
<1>6. OpenJobs'
  <2>1. \A j \in Replays : j > begun' => jobs'[j].state = "none"
    BY <1>2, NoJobIsNone DEF OpenJobs
  <2>2. \A s \in Slots : InProgress(s)' => jobs'[req'[s].id].state \notin Closed
    BY <1>2, <1>3, <1>4, NoJobIsNone DEF OpenJobs
  <2>3. \A s \in Slots : req'[s].pc = "queued" => jobs'[req'[s].id].state # "running"
    <3>. SUFFICES ASSUME NEW s \in Slots, req[s].pc = "queued"
                  PROVE  jobs'[req[s].id].state # "running"
      OBVIOUS
    <3>1. req[s].id \in Replays
      BY <1>4 DEF InProgress
    <3>. QED BY <1>2, <3>1, NoJobIsNone DEF OpenJobs
  <2>. QED BY <2>1, <2>2, <2>3 DEF OpenJobs
<1>7. OwnIncidents'
  BY <1>2, <1>3, <1>4, NoJobIsNone DEF OwnIncidents
<1>8. OwnNumbers' /\ StoredPackets' /\ RecordNamesAReplay'
  BY <1>3 DEF OwnNumbers, StoredPackets, RecordNamesAReplay
<1>9. ClosedJobsAreOver'
  BY <1>2, NoJobIsNone DEF ClosedJobsAreOver
<1>. QED BY <1>5, <1>6, <1>7, <1>8, <1>9

LEMMA RecordEventPreserves ==
  ASSUME IInv, RecordEvent
  PROVE  IInv'
<1>1. tasks \in Seq(Events) /\ events \in Seq(Events) /\ tasks # <<>>
  BY DEF IInv, TypeOK, RecordEvent
<1>2. Head(tasks) \in Events /\ tasks' \in Seq(Events)
  BY <1>1 DEF RecordEvent
<1>3. Append(events, Head(tasks)) \in Seq(Events) /\ Append(<<>>, Head(tasks)) \in Seq(Events)
  BY <1>1, <1>2
<1>4. events' \in Seq(Events) /\ jobs' \in {jobs, Emptied}
  BY <1>1, <1>3, RecordEventEffect
<1>. QED BY <1>2, <1>4, FilePreserves DEF RecordEvent

LEMMA OtherArtifactPreserves ==
  ASSUME IInv, OtherArtifact
  PROVE  IInv'
<1>1. TypeOK /\ tasks \in Seq(Events)
  BY DEF IInv, TypeOK
<1>2. events' \in Seq(Events)
  BY <1>1, OtherArtifactEffect, KeptOrEmptied
<1>3. jobs' \in {jobs, Emptied} /\ tasks' \in Seq(Events)
  BY <1>1, OtherArtifactEffect DEF OtherArtifact
<1>. QED BY <1>2, <1>3, FilePreserves DEF OtherArtifact

LEMMA RestartPreserves ==
  ASSUME IInv, Restart
  PROVE  IInv'
<1>. USE DEF IInv
<1>1. /\ execution' = Quiet /\ req' = [s \in Slots |-> Idle] /\ tasks' = <<>>
      /\ UNCHANGED <<begun, jobs, events, packets>>
  BY DEF Restart
<1>2. TypeOK'
  BY <1>1, SomeIncidentExists, ReplayAssumption DEF TypeOK, Quiet, Idle
<1>3. \A s \in Slots : ~InProgress(s)' /\ req'[s].id = 0 /\ req'[s].pc = "idle"
  BY <1>1 DEF InProgress, Idle
<1>4. OwnNumbers' /\ OpenJobs' /\ OwnIncidents' /\ StoredPackets'
  BY <1>1, <1>3 DEF OwnNumbers, OpenJobs, OwnIncidents, StoredPackets
<1>5. RecordNamesAReplay' /\ ClosedJobsAreOver'
  BY <1>1, <1>3 DEF RecordNamesAReplay, ClosedJobsAreOver, Quiet, Replays
<1>. QED BY <1>2, <1>4, <1>5

LEMMA StepPreserves == IInv /\ [Next]_vars => IInv'
<1>. SUFFICES ASSUME IInv, [Next]_vars PROVE IInv'
  OBVIOUS
<1>1. CASE UNCHANGED vars
  BY <1>1 DEF IInv, vars, TypeOK, OwnNumbers, OpenJobs, OwnIncidents, StoredPackets, RecordNamesAReplay,
              ClosedJobsAreOver, InProgress
<1>2. ASSUME NEW s \in Slots, Arrive(s) \/ Handle(s) \/ Raise(s)
      PROVE  IInv'
  BY <1>2, ArrivePreserves, ContextFailsPreserves, ContextHangsPreserves, BeginPreserves,
     ReplayPreserves, StorePacketPreserves, ClosePreserves, RaisePreserves DEF Handle
<1>. QED BY <1>1, <1>2, RecordEventPreserves, OtherArtifactPreserves, RestartPreserves DEF Next

THEOREM Invariance == Spec => []IInv
<1>. QED BY InitIInv, StepPreserves, PTL DEF Spec

\* Types.
THEOREM TypeCorrect == Spec => []TypeOK
<1>1. IInv => TypeOK
  BY DEF IInv
<1>. QED BY <1>1, Invariance, PTL

\* The execution record never names a replay that is over (start_execution and
\* finish_execution), whatever overlaps, raises or dies.
THEOREM RecordAlwaysNamesAReplay == Spec => []RecordNamesAReplay
<1>1. IInv => RecordNamesAReplay
  BY DEF IInv
<1>. QED BY <1>1, Invariance, PTL

\* A closed job has its packet stored and nobody works on it (trigger_replica_replay).
THEOREM ClosedJobsAlwaysOver == Spec => []ClosedJobsAreOver
<1>1. IInv => ClosedJobsAreOver
  BY DEF IInv
<1>. QED BY <1>1, Invariance, PTL

-----------------------------------------------------------------------------
(* The queue implements the life cycle of its jobs *)

\* The states of the life cycle that the list and the count of replays stand for.
LEMMA RecordedState ==
  ASSUME NEW k \in Replays
  PROVE  /\ RecordedStates[k] =
              IF jobs[k].state = "none" /\ k <= begun THEN "lost" ELSE jobs[k].state
         /\ RecordedStates'[k] =
              IF jobs'[k].state = "none" /\ k <= begun' THEN "lost" ELSE jobs'[k].state
BY DEF RecordedStates

\* An emptied list has lost every job.
LEMMA EmptyingLoses ==
  ASSUME IInv, "unreadable" \in Faults, jobs' = Emptied, UNCHANGED begun
  PROVE  LifeCycle!Next
<1>1. ASSUME NEW k \in Replays
      PROVE  RecordedStates'[k] = IF RecordedStates[k] = "none" THEN "none" ELSE "lost"
  <2>1. jobs'[k].state = "none" /\ begun \in Nat /\ k \in Nat
    BY NoJobIsNone, ReplayAssumption DEF Emptied, IInv, TypeOK, Replays
  <2>2. k > begun => jobs[k].state = "none"
    BY DEF IInv, OpenJobs
  <2>3. CASE k <= begun
    BY <2>1, <2>3, RecordedState
  <2>4. CASE k > begun
    BY <2>1, <2>2, <2>4, RecordedState
  <2>. QED BY <2>1, <2>3, <2>4
<1>2. RecordedStates' = LifeCycle!Forgotten
  BY <1>1 DEF RecordedStates, LifeCycle!Forgotten
<1>. QED BY <1>2 DEF LifeCycle!Next, LifeCycle!LoseList

\* A replay under way moves its job on, if the job is in the list.
LEMMA UpdateMoves ==
  ASSUME IInv, NEW s \in Slots, InProgress(s), NEW state \in JobStates,
         UpdateJob(req[s].id, state), UNCHANGED begun,
         state \in Closed \/ (state = "running" /\ req[s].pc = "queued")
  PROVE  LifeCycle!Next \/ RecordedStates' = RecordedStates
<1>. DEFINE j == req[s].id
<1>1. j \in Replays /\ TypeOK
  BY DEF IInv, OwnNumbers, TypeOK, Replays
<1>2. jobs[j].state \in {"none", "queued", "running"}
  BY <1>1 DEF IInv, TypeOK, OpenJobs, JobStates, Closed
<1>3. req[s].pc = "queued" => jobs[j].state # "running"
  BY DEF IInv, OpenJobs
<1>4. \/ jobs' = jobs
      \/ "unreadable" \in Faults /\ jobs' = Emptied
      \/ jobs[j].state # "none" /\ jobs' = [jobs EXCEPT ![j].state = state]
  BY <1>1, UpdateJobEffect
<1>. HIDE DEF j
<1>5. CASE jobs' = jobs
  BY <1>5 DEF RecordedStates
<1>6. CASE jobs[j].state # "none" /\ jobs' = [jobs EXCEPT ![j].state = state]
  <2>1. jobs'[j].state = state /\ \A k \in Replays : k # j => jobs'[k] = jobs[k]
    BY <1>1, <1>6 DEF TypeOK
  <2>2. state # "none"
    BY DEF Closed
  <2>3. RecordedStates[j] = jobs[j].state /\ RecordedStates'[j] = state
    BY <1>1, <1>6, <2>1, <2>2, RecordedState
  <2>4. \A k \in Replays : k # j => RecordedStates'[k] = RecordedStates[k]
    BY <2>1, RecordedState
  <2>5. RecordedStates' = [RecordedStates EXCEPT ![j] = state]
    BY <2>3, <2>4 DEF RecordedStates
  <2>6. CASE state \in Closed
    <3>1. jobs[j].state \in {"queued", "running"} /\ state \in LifeCycle!Closed
      BY <1>2, <1>6, <2>6 DEF Closed, LifeCycle!Closed
    <3>2. LifeCycle!Close(j)
      BY <2>3, <2>5, <3>1 DEF LifeCycle!Close
    <3>. QED BY <1>1, <3>2 DEF LifeCycle!Next
  <2>7. CASE state = "running" /\ req[s].pc = "queued"
    <3>1. jobs[j].state = "queued"
      BY <1>2, <1>3, <1>6, <2>7
    <3>2. LifeCycle!Run(j)
      BY <2>3, <2>5, <2>7, <3>1 DEF LifeCycle!Run
    <3>. QED BY <1>1, <3>2 DEF LifeCycle!Next
  <2>. QED BY <2>6, <2>7
<1>. QED BY <1>4, <1>5, <1>6, EmptyingLoses

\* A new job is queued, or lost at once, or begins a new list.
LEMMA BeginMoves ==
  ASSUME IInv, NEW s \in Slots, Begin(s)
  PROVE  LifeCycle!Next
<1>. DEFINE n == begun + 1
            job == [state |-> "queued", incident |-> req[s].incident]
<1>1. n \in Replays /\ n > begun /\ begun' = n /\ TypeOK /\ begun \in Nat
  BY ReplayAssumption DEF IInv, TypeOK, Begin, Replays
<1>2. \/ jobs' = jobs
      \/ jobs' = [jobs EXCEPT ![n] = job]
      \/ "unreadable" \in Faults /\ jobs' = [Emptied EXCEPT ![n] = job]
  BY <1>1, RecordJobEffect DEF Begin
<1>3. jobs[n].state = "none"
  BY <1>1 DEF IInv, OpenJobs
<1>4. jobs \in [Replays -> [state: JobStates, incident: Incidents]]
  BY <1>1 DEF TypeOK
<1>5. job.state = "queued"
  OBVIOUS
<1>6. RecordedStates[n] = "none"
  BY <1>1, <1>3, RecordedState
<1>7. \A k \in Replays : k # n => (k <= begun' <=> k <= begun)
  BY <1>1 DEF Replays
<1>. HIDE DEF n, job
<1>8. CASE jobs' = jobs
  <2>1. RecordedStates'[n] = "lost"
    BY <1>1, <1>3, <1>8, RecordedState DEF n
  <2>2. \A k \in Replays : k # n => RecordedStates'[k] = RecordedStates[k]
    BY <1>7, <1>8, RecordedState
  <2>3. RecordedStates' = [RecordedStates EXCEPT ![n] = "lost"]
    BY <2>1, <2>2 DEF RecordedStates
  <2>4. LifeCycle!Queue(n)
    BY <1>6, <2>3 DEF LifeCycle!Queue
  <2>. QED BY <1>1, <2>4 DEF LifeCycle!Next
<1>9. CASE jobs' = [jobs EXCEPT ![n] = job]
  <2>1. jobs'[n] = job /\ \A k \in Replays : k # n => jobs'[k] = jobs[k]
    BY <1>1, <1>4, <1>9
  <2>2. RecordedStates'[n] = "queued"
    BY <1>1, <1>5, <2>1, RecordedState
  <2>3. \A k \in Replays : k # n => RecordedStates'[k] = RecordedStates[k]
    BY <1>7, <2>1, RecordedState
  <2>4. RecordedStates' = [RecordedStates EXCEPT ![n] = "queued"]
    BY <2>2, <2>3 DEF RecordedStates
  <2>5. LifeCycle!Queue(n)
    BY <1>6, <2>4 DEF LifeCycle!Queue
  <2>. QED BY <1>1, <2>5 DEF LifeCycle!Next
<1>10. CASE "unreadable" \in Faults /\ jobs' = [Emptied EXCEPT ![n] = job]
  <2>1. jobs'[n] = job /\ \A k \in Replays : k # n => jobs'[k] = NoJob
    BY <1>1, <1>10 DEF Emptied
  <2>2. RecordedStates'[n] = "queued"
    BY <1>1, <1>5, <2>1, RecordedState
  <2>3. ASSUME NEW k \in Replays, k # n
        PROVE  RecordedStates'[k] = IF RecordedStates[k] = "none" THEN "none" ELSE "lost"
    <3>1. jobs'[k].state = "none" /\ k \in Nat
      BY <2>1, <2>3, NoJobIsNone DEF Replays
    <3>2. k > begun => jobs[k].state = "none"
      BY DEF IInv, OpenJobs
    <3>3. CASE k <= begun
      BY <1>7, <2>3, <3>1, <3>3, RecordedState
    <3>4. CASE k > begun
      BY <1>1, <1>7, <2>3, <3>1, <3>2, <3>4, RecordedState
    <3>. QED BY <1>1, <3>1, <3>3, <3>4
  <2>4. RecordedStates' = [LifeCycle!Forgotten EXCEPT ![n] = "queued"]
    BY <2>2, <2>3 DEF RecordedStates, LifeCycle!Forgotten
  <2>5. LifeCycle!BeginList(n)
    BY <1>6, <1>10, <2>4 DEF LifeCycle!BeginList
  <2>. QED BY <1>1, <2>5 DEF LifeCycle!Next
<1>. QED BY <1>2, <1>8, <1>9, <1>10

LEMMA JobsStep ==
  ASSUME IInv, [Next]_vars
  PROVE  LifeCycle!Next \/ RecordedStates' = RecordedStates
<1>1. CASE UNCHANGED <<jobs, begun>>
  BY <1>1 DEF RecordedStates
<1>2. ASSUME NEW s \in Slots, Replay(s) \/ ((Hang(s) \/ Raise(s)) /\ jobs' # jobs)
      PROVE  LifeCycle!Next \/ RecordedStates' = RecordedStates
  <2>1. InProgress(s) /\ req[s].pc = "queued" /\ UpdateJob(req[s].id, "running") /\ UNCHANGED begun
    BY <1>2 DEF Replay, Hang, Raise, InProgress
  <2>2. "running" \in JobStates
    BY DEF JobStates
  <2>. QED BY <2>1, <2>2, UpdateMoves
<1>3. ASSUME NEW s \in Slots, Close(s)
      PROVE  LifeCycle!Next \/ RecordedStates' = RecordedStates
  <2>1. PICK outcome \in {"recovered", "completed"} : UpdateJob(req[s].id, outcome)
    BY <1>3 DEF Close
  <2>2. InProgress(s) /\ outcome \in JobStates /\ outcome \in Closed /\ UNCHANGED begun
    BY <1>3 DEF Close, InProgress, JobStates, Closed
  <2>. QED BY <2>1, <2>2, UpdateMoves
<1>4. ASSUME RecordEvent \/ OtherArtifact
      PROVE  LifeCycle!Next \/ RecordedStates' = RecordedStates
  <2>1. UNCHANGED begun
    BY <1>4 DEF RecordEvent, OtherArtifact
  <2>2. jobs' = jobs \/ ("unreadable" \in Faults /\ jobs' = Emptied)
    BY <1>4, RecordEventEffect, OtherArtifactEffect
  <2>. QED BY <1>1, <2>1, <2>2, EmptyingLoses
<1>5. ASSUME NEW s \in Slots,
             \/ Arrive(s) \/ ContextFails(s) \/ ContextHangs(s) \/ StorePacket(s)
             \/ (Hang(s) \/ Raise(s)) /\ jobs' = jobs
      PROVE  UNCHANGED <<jobs, begun>>
  BY <1>5 DEF Arrive, ContextFails, ContextHangs, StorePacket, Hang, Raise
<1>6. Restart => UNCHANGED <<jobs, begun>>
  BY DEF Restart
<1>. QED BY <1>1, <1>2, <1>3, <1>4, <1>5, <1>6, BeginMoves DEF Next, Handle, vars

\* The jobs move through the life cycle of JobLifeCycle and nothing else, with
\* overlapping replays, lost writes, hanging scripts, exceptions and restarts;
\* they leave it all at once, when the artifact file could not be read
\* (_load_artifacts, _persist_artifacts, update_runtime_queue_job).
THEOREM JobsImplementLifeCycle == Spec => ImplementsLifeCycle
<1>1. Init => LifeCycle!Init
  BY NoJobIsNone DEF Init, LifeCycle!Init, RecordedStates, Replays
<1>2. IInv /\ [Next]_vars => [LifeCycle!Next]_RecordedStates
  BY JobsStep
<1>. QED BY <1>1, <1>2, Invariance, PTL DEF Spec, ImplementsLifeCycle, LifeCycle!Spec

-----------------------------------------------------------------------------
(* Events *)

\* No two of a list report the same replay.
Apart(list) == \A i, k \in 1 .. Len(list) : i # k => list[i].by # list[k].by

\* No event that is recorded or to be recorded reports replay j.
Unreported(j) == /\ \A i \in 1 .. Len(events) : events[i].by # j
                 /\ \A i \in 1 .. Len(tasks) : tasks[i].by # j

\* A replay is reported when the record stops naming it, which happens once.
ReportsInv ==
  /\ Apart(events) /\ Apart(tasks)
  /\ \A i \in 1 .. Len(events), k \in 1 .. Len(tasks) : events[i].by # tasks[k].by
  /\ execution.running => Unreported(execution.by)
  /\ \A i \in 1 .. Len(events) : events[i].by <= begun
  /\ \A i \in 1 .. Len(tasks) : tasks[i].by <= begun
  /\ execution.by <= begun

LEMMA TypesOfReports ==
  ASSUME TypeOK
  PROVE  /\ events \in Seq(Events) /\ tasks \in Seq(Events)
         /\ Len(events) \in Nat /\ Len(tasks) \in Nat /\ begun \in Nat
         /\ \A i \in 1 .. Len(events) : events[i].by \in Nat
         /\ \A i \in 1 .. Len(tasks) : tasks[i].by \in Nat
         /\ execution.by \in Nat
<1>1. events \in Seq(Events) /\ tasks \in Seq(Events)
  BY DEF TypeOK
<1>2. \A i \in 1 .. Len(events) : events[i] \in Events
  BY <1>1
<1>3. \A i \in 1 .. Len(tasks) : tasks[i] \in Events
  BY <1>1
<1>4. \A e \in Events : e.by \in Nat
  BY DEF Events
<1>5. begun \in Nat /\ execution.by \in Nat
  BY ReplayAssumption DEF TypeOK
<1>6. \A i \in 1 .. Len(events) : events[i].by \in Nat
  BY <1>2, <1>4
<1>7. \A i \in 1 .. Len(tasks) : tasks[i].by \in Nat
  BY <1>3, <1>4
<1>8. Len(events) \in Nat /\ Len(tasks) \in Nat
  BY <1>1
<1>. QED BY <1>1, <1>5, <1>6, <1>7, <1>8

\* A longer list, and the rest of a list.
LEMMA Longer ==
  ASSUME NEW list \in Seq(Events), NEW e \in Events
  PROVE  /\ Len(Append(list, e)) = Len(list) + 1
         /\ \A i \in 1 .. Len(list) : Append(list, e)[i] = list[i]
         /\ \A i \in 1 .. Len(Append(list, e)) : i \in 1 .. Len(list) \/ i = Len(list) + 1
         /\ Append(list, e)[Len(list) + 1] = e
<1>1. Len(list) \in Nat
  OBVIOUS
<1>2. /\ Len(Append(list, e)) = Len(list) + 1
      /\ \A i \in 1 .. Len(list) : Append(list, e)[i] = list[i]
      /\ Append(list, e)[Len(list) + 1] = e
  OBVIOUS
<1>. QED BY <1>1, <1>2

LEMMA Shorter ==
  ASSUME NEW list \in Seq(Events), list # <<>>
  PROVE  /\ Len(list) \in Nat /\ Len(list) > 0 /\ Len(Tail(list)) = Len(list) - 1
         /\ Head(list) = list[1] /\ Head(list) \in Events
         /\ \A i \in 1 .. Len(Tail(list)) : Tail(list)[i] = list[i + 1] /\ i + 1 \in 1 .. Len(list)
<1>1. Len(list) \in Nat /\ Len(list) > 0
  OBVIOUS
<1>2. Len(Tail(list)) = Len(list) - 1 /\ Head(list) = list[1] /\ Head(list) \in Events
  OBVIOUS
<1>3. \A i \in 1 .. Len(list) - 1 : Tail(list)[i] = list[i + 1] /\ i + 1 \in 1 .. Len(list)
  OBVIOUS
<1>. QED BY <1>1, <1>2, <1>3

\* A list of events that is kept or emptied has no event that it had not before.
LEMMA FewerEvents ==
  ASSUME events' \in {events, <<>>}
  PROVE  \A i \in 1 .. Len(events') : i \in 1 .. Len(events) /\ events'[i] = events[i]
<1>1. CASE events' = events
  BY <1>1
<1>2. CASE events' = <<>>
  <2>1. Len(events') = 0
    BY <1>2
  <2>. QED BY <2>1
<1>. QED BY <1>1, <1>2

\* The record stops naming a replay: the replay is reported.
LEMMA FinishReports ==
  ASSUME TypeOK, ReportsInv, NEW s \in Slots, NEW status \in {"completed", "failed"},
         FinishExecution(s, status), events' \in {events, <<>>}, UNCHANGED begun
  PROVE  ReportsInv'
<1>1. CASE ~execution.running
  BY <1>1, FewerEvents DEF FinishExecution, ReportsInv, Apart, Unreported
<1>2. CASE execution.running
  <2>1. PICK e \in Events : e.by = execution.by /\ tasks' = Append(tasks, e)
    <3> DEFINE event == [by |-> execution.by, finisher |-> req[s].id, status |-> status]
    <3>1. event \in Events /\ event.by = execution.by
      BY ReplayAssumption DEF Events, TypeOK
    <3>2. tasks' = Append(tasks, event)
      BY <1>2 DEF FinishExecution
    <3>. HIDE DEF event
    <3>. QED BY <3>1, <3>2
  <2>2. /\ Len(tasks') = Len(tasks) + 1
        /\ \A i \in 1 .. Len(tasks) : tasks'[i] = tasks[i]
        /\ \A i \in 1 .. Len(tasks') : i \in 1 .. Len(tasks) \/ i = Len(tasks) + 1
        /\ tasks'[Len(tasks) + 1] = e
    BY <2>1, Longer, TypesOfReports
  <2>3. ~execution'.running /\ execution'.by = 0
    BY <1>2 DEF FinishExecution, Quiet
  <2>4. Unreported(e.by) /\ e.by <= begun
    BY <1>2, <2>1 DEF ReportsInv
  <2>5. Apart(tasks)'
    BY <2>2, <2>4 DEF ReportsInv, Apart, Unreported
  <2>6. \A i \in 1 .. Len(events'), k \in 1 .. Len(tasks') : events'[i].by # tasks'[k].by
    BY <2>2, <2>4, FewerEvents DEF ReportsInv, Unreported
  <2>7. \A i \in 1 .. Len(tasks') : tasks'[i].by <= begun
    BY <2>2, <2>4 DEF ReportsInv
  <2>8. 0 <= begun
    BY TypesOfReports
  <2>. QED BY <2>3, <2>5, <2>6, <2>7, <2>8, FewerEvents DEF ReportsInv, Apart
<1>. QED BY <1>1, <1>2

LEMMA BeginReports ==
  ASSUME TypeOK, ReportsInv, NEW s \in Slots, Begin(s)
  PROVE  ReportsInv'
<1>1. /\ begun' = begun + 1 /\ execution'.by = begun + 1 /\ UNCHANGED tasks
      /\ events' \in {events, <<>>}
  <2>1. begun + 1 \in Replays
    BY ReplayAssumption DEF TypeOK, Begin, Replays
  <2>. QED BY <2>1, RecordJobEffect DEF Begin
<1>2. Unreported(begun + 1)
  BY TypesOfReports DEF ReportsInv, Unreported
<1>3. Unreported(execution.by)'
  BY <1>1, <1>2, FewerEvents DEF Unreported
<1>4. /\ \A i \in 1 .. Len(events) : events[i].by <= begun + 1
      /\ \A i \in 1 .. Len(tasks) : tasks[i].by <= begun + 1
      /\ begun + 1 <= begun + 1
  BY TypesOfReports DEF ReportsInv
<1>. QED BY <1>1, <1>3, <1>4, FewerEvents DEF ReportsInv, Apart

LEMMA RecordReports ==
  ASSUME TypeOK, ReportsInv, RecordEvent
  PROVE  ReportsInv'
<1>1. tasks # <<>> /\ tasks' = Tail(tasks) /\ UNCHANGED <<execution, begun>>
      /\ events' \in {events, Append(events, Head(tasks)), Append(<<>>, Head(tasks))}
  BY RecordEventEffect DEF RecordEvent
<1>2. PICK e \in Events : e = Head(tasks) /\ e = tasks[1] /\ 1 \in 1 .. Len(tasks)
  BY <1>1, Shorter, TypesOfReports
<1>3. \A i \in 1 .. Len(tasks') : tasks'[i] = tasks[i + 1] /\ i + 1 \in 1 .. Len(tasks) /\ i + 1 # 1
  BY <1>1, Shorter, TypesOfReports
<1>4. Apart(tasks)'
  <2>. SUFFICES ASSUME NEW i \in 1 .. Len(tasks'), NEW k \in 1 .. Len(tasks'), i # k
                PROVE  tasks'[i].by # tasks'[k].by
    BY DEF Apart
  <2>1. i + 1 # k + 1
    OBVIOUS
  <2>2. tasks'[i] = tasks[i + 1] /\ tasks'[k] = tasks[k + 1]
        /\ i + 1 \in 1 .. Len(tasks) /\ k + 1 \in 1 .. Len(tasks)
    BY <1>3
  <2>3. PICK m \in 1 .. Len(tasks), n \in 1 .. Len(tasks) : m = i + 1 /\ n = k + 1
    BY <2>2
  <2>. QED BY <2>1, <2>2, <2>3 DEF ReportsInv, Apart
<1>5. \A i \in 1 .. Len(tasks') : tasks'[i].by <= begun' /\ tasks'[i].by # e.by
  BY <1>1, <1>2, <1>3 DEF ReportsInv, Apart
<1>6. \A i \in 1 .. Len(events') : e.by = events'[i].by \/ \E k \in 1 .. Len(events) : events'[i] = events[k]
  <2>1. CASE events' = events
    BY <2>1
  <2>2. CASE events' = Append(events, e)
    <3>1. /\ \A i \in 1 .. Len(events) : events'[i] = events[i]
          /\ \A i \in 1 .. Len(events') : i \in 1 .. Len(events) \/ i = Len(events) + 1
          /\ events'[Len(events) + 1] = e
      BY <2>2, Longer, TypesOfReports
    <3>. QED BY <3>1
  <2>3. CASE events' = Append(<<>>, e)
    <3>1. Len(events') = 1 /\ events'[1] = e
      BY <2>3
    <3>. QED BY <3>1
  <2>. QED BY <1>1, <1>2, <2>1, <2>2, <2>3
<1>7. Apart(events)'
  <2>1. CASE events' = events
    BY <2>1 DEF ReportsInv, Apart
  <2>2. CASE events' = Append(events, e)
    <3>1. /\ \A i \in 1 .. Len(events) : events'[i] = events[i]
          /\ \A i \in 1 .. Len(events') : i \in 1 .. Len(events) \/ i = Len(events) + 1
          /\ events'[Len(events) + 1] = e
      BY <2>2, Longer, TypesOfReports
    <3>2. \A i \in 1 .. Len(events) : events[i].by # e.by
      BY <1>2 DEF ReportsInv
    <3>. QED BY <3>1, <3>2 DEF ReportsInv, Apart
  <2>3. CASE events' = Append(<<>>, e)
    <3>1. Len(events') = 1
      BY <2>3
    <3>. QED BY <3>1 DEF Apart
  <2>. QED BY <1>1, <1>2, <2>1, <2>2, <2>3
<1>8. \A i \in 1 .. Len(events'), k \in 1 .. Len(tasks') : events'[i].by # tasks'[k].by
  <2>. SUFFICES ASSUME NEW i \in 1 .. Len(events'), NEW k \in 1 .. Len(tasks')
                PROVE  events'[i].by # tasks'[k].by
    OBVIOUS
  <2>1. PICK m \in 1 .. Len(tasks) : tasks'[k] = tasks[m]
    BY <1>3
  <2>2. CASE e.by = events'[i].by
    BY <1>5, <2>2
  <2>3. CASE \E n \in 1 .. Len(events) : events'[i] = events[n]
    BY <2>1, <2>3 DEF ReportsInv
  <2>. QED BY <1>6, <2>2, <2>3
<1>9. \A i \in 1 .. Len(events') : events'[i].by <= begun'
  BY <1>1, <1>2, <1>6 DEF ReportsInv
<1>10. execution'.running => Unreported(execution.by)'
  <2>. SUFFICES ASSUME execution.running PROVE Unreported(execution.by)'
    BY <1>1
  <2>1. Unreported(execution.by) /\ e.by # execution.by
    BY <1>2 DEF ReportsInv, Unreported
  <2>2. \A i \in 1 .. Len(events') : events'[i].by # execution'.by
    BY <1>1, <1>6, <2>1 DEF Unreported
  <2>3. \A i \in 1 .. Len(tasks') : tasks'[i].by # execution'.by
    BY <1>1, <1>3, <2>1 DEF Unreported
  <2>. QED BY <2>2, <2>3 DEF Unreported
<1>. QED BY <1>1, <1>4, <1>5, <1>7, <1>8, <1>9, <1>10 DEF ReportsInv

\* A step of a replay records no event; at most it empties the file.
LEMMA ReplayWrites ==
  ASSUME IInv, NEW s \in Slots, Replay(s) \/ Hang(s) \/ Close(s) \/ Raise(s)
  PROVE  events' \in {events, <<>>}
<1>1. InProgress(s) /\ (events' = events \/ \E state \in JobStates : UpdateJob(req[s].id, state))
  BY DEF Replay, Hang, Close, Raise, InProgress, JobStates
<1>2. req[s].id \in Replays /\ TypeOK
  BY <1>1 DEF IInv, OwnNumbers, TypeOK, Replays
<1>. QED BY <1>1, <1>2, UpdateJobEffect

LEMMA NextReports == IInv /\ ReportsInv /\ [Next]_vars => ReportsInv'
<1>. SUFFICES ASSUME IInv, TypeOK, ReportsInv, [Next]_vars PROVE ReportsInv'
  BY DEF IInv
<1>1. CASE UNCHANGED <<execution, begun, tasks>> /\ events' \in {events, <<>>}
  BY <1>1, FewerEvents DEF ReportsInv, Apart, Unreported
<1>2. ASSUME NEW s \in Slots, Close(s) \/ Raise(s)
      PROVE  ReportsInv'
  <2>1. PICK status \in {"completed", "failed"} : FinishExecution(s, status)
    BY <1>2 DEF Close, Raise
  <2>2. UNCHANGED begun /\ events' \in {events, <<>>}
    BY <1>2, ReplayWrites DEF Close, Raise
  <2>. QED BY <2>1, <2>2, FinishReports
<1>3. CASE Restart
  <2>1. /\ tasks' = <<>> /\ ~execution'.running /\ execution'.by = 0 /\ UNCHANGED <<events, begun>>
    BY <1>3 DEF Restart, Quiet
  <2>2. Len(tasks') = 0 /\ 0 <= begun
    BY <2>1, TypesOfReports
  <2>. QED BY <2>1, <2>2 DEF ReportsInv, Apart
<1>4. ASSUME NEW s \in Slots,
             \/ Arrive(s) \/ ContextFails(s) \/ ContextHangs(s)
             \/ Replay(s) \/ Hang(s) \/ StorePacket(s)
      PROVE  ReportsInv'
  <2>1. UNCHANGED <<execution, begun, tasks>>
    BY <1>4 DEF Arrive, ContextFails, ContextHangs, Replay, Hang, StorePacket
  <2>2. events' \in {events, <<>>}
    BY <1>4, ReplayWrites DEF Arrive, ContextFails, ContextHangs, StorePacket
  <2>. QED BY <1>1, <2>1, <2>2
<1>5. CASE OtherArtifact
  BY <1>1, <1>5, OtherArtifactEffect DEF OtherArtifact
<1>. QED BY <1>1, <1>2, <1>3, <1>4, <1>5, BeginReports, RecordReports DEF Next, Handle, vars

\* No replay is reported by two events, although every request that ends
\* finishes whatever replay the record names (finish_execution,
\* record_runtime_execution_event).
THEOREM EachReplayReportedOnce == Spec => []ReportedOnce
<1>1. Init => ReportsInv
  <2>. SUFFICES ASSUME Init PROVE ReportsInv
    OBVIOUS
  <2>1. events = <<>> /\ tasks = <<>> /\ ~execution.running /\ execution.by = 0 /\ begun = 0
    BY DEF Init, Quiet
  <2>2. Len(events) = 0 /\ Len(tasks) = 0
    BY <2>1
  <2>. QED BY <2>1, <2>2 DEF ReportsInv, Apart
<1>2. TypeOK /\ ReportsInv => ReportedOnce
  <2>. SUFFICES ASSUME TypeOK, ReportsInv PROVE ReportedOnce
    OBVIOUS
  <2> DEFINE all == events \o tasks
  <2>1. /\ Len(events) \in Nat /\ Len(tasks) \in Nat /\ events \in Seq(Events) /\ tasks \in Seq(Events)
    BY TypesOfReports
  <2>2. /\ all \in Seq(Events) /\ DOMAIN all = 1 .. Len(events) + Len(tasks)
        /\ \A i \in 1 .. Len(events) + Len(tasks) :
              all[i] = IF i <= Len(events) THEN events[i] ELSE tasks[i - Len(events)]
    BY <2>1
  <2>3. \A i \in DOMAIN all : \/ i \in 1 .. Len(events) /\ all[i] = events[i]
                              \/ i - Len(events) \in 1 .. Len(tasks) /\ all[i] = tasks[i - Len(events)]
    BY <2>1, <2>2
  <2>. HIDE DEF all
  <2>4. ASSUME NEW i \in DOMAIN all, NEW k \in DOMAIN all, i # k
        PROVE  all[i].by # all[k].by
    <3>1. i \in Int /\ k \in Int
      BY <2>1, <2>2
    <3>2. CASE i \in 1 .. Len(events) /\ all[i] = events[i]
      BY <2>3, <2>4, <3>2 DEF ReportsInv, Apart
    <3>3. CASE i - Len(events) \in 1 .. Len(tasks) /\ all[i] = tasks[i - Len(events)]
      <4>1. CASE k \in 1 .. Len(events) /\ all[k] = events[k]
        BY <3>3, <4>1 DEF ReportsInv
      <4>2. CASE k - Len(events) \in 1 .. Len(tasks) /\ all[k] = tasks[k - Len(events)]
        <5>1. i - Len(events) # k - Len(events)
          BY <2>1, <2>4, <3>1
        <5>. QED BY <3>3, <4>2, <5>1 DEF ReportsInv, Apart
      <4>. QED BY <2>3, <4>1, <4>2
    <3>. QED BY <2>3, <3>2, <3>3
  <2>. QED BY <2>4 DEF ReportedOnce, all
<1>3. IInv => TypeOK
  BY DEF IInv
<1>. QED BY <1>1, <1>2, <1>3, NextReports, Invariance, PTL DEF Spec

\* Events that report the replay whose request ended, not another one.
NamedRight(list) == \A i \in 1 .. Len(list) : list[i].by = list[i].finisher

LEMMA NextNames ==
  ASSUME \A s, t \in Slots : s = t, IInv, NamedRight(events), NamedRight(tasks), [Next]_vars
  PROVE  NamedRight(events)' /\ NamedRight(tasks)'
<1>1. TypeOK
  BY DEF IInv
<1>2. CASE UNCHANGED tasks /\ events' \in {events, <<>>}
  BY <1>2, FewerEvents DEF NamedRight
<1>3. ASSUME NEW s \in Slots, Close(s) \/ Raise(s)
      PROVE  NamedRight(events)' /\ NamedRight(tasks)'
  <2>1. PICK status \in {"completed", "failed"} : FinishExecution(s, status)
    BY <1>3 DEF Close, Raise
  <2>2. events' \in {events, <<>>} /\ InProgress(s)
    BY <1>3, ReplayWrites DEF Close, Raise, InProgress
  <2>3. CASE ~execution.running
    BY <1>2, <2>1, <2>2, <2>3 DEF FinishExecution
  <2>4. CASE execution.running
    <3> DEFINE event == [by |-> execution.by, finisher |-> req[s].id, status |-> status]
    <3>1. event \in Events /\ event.by = execution.by /\ event.finisher = req[s].id
      BY <1>1, ReplayAssumption DEF Events, TypeOK
    <3>2. execution.by = req[s].id
      BY <2>4 DEF IInv, RecordNamesAReplay
    <3>3. tasks' = Append(tasks, event)
      BY <2>1, <2>4 DEF FinishExecution
    <3>. HIDE DEF event
    <3>4. NamedRight(tasks)'
      BY <1>1, <3>1, <3>2, <3>3, Longer, TypesOfReports DEF NamedRight
    <3>. QED BY <2>2, <3>4, FewerEvents DEF NamedRight
  <2>. QED BY <2>3, <2>4
<1>4. CASE RecordEvent
  <2>1. /\ tasks # <<>> /\ tasks' = Tail(tasks)
        /\ events' \in {events, Append(events, Head(tasks)), Append(<<>>, Head(tasks))}
    BY <1>4, RecordEventEffect DEF RecordEvent
  <2>2. PICK e \in Events : e = Head(tasks) /\ e = tasks[1] /\ 1 \in 1 .. Len(tasks)
    BY <1>1, <2>1, Shorter, TypesOfReports
  <2>3. NamedRight(tasks)'
    BY <1>1, <2>1, Shorter, TypesOfReports DEF NamedRight
  <2>4. e.by = e.finisher
    BY <2>2 DEF NamedRight
  <2>5. NamedRight(events)'
    <3>1. CASE events' = events
      BY <3>1 DEF NamedRight
    <3>2. CASE events' = Append(events, e)
      BY <1>1, <2>4, <3>2, Longer, TypesOfReports DEF NamedRight
    <3>3. CASE events' = Append(<<>>, e)
      <4>1. Len(events') = 1 /\ events'[1] = e
        BY <3>3
      <4>. QED BY <2>4, <4>1 DEF NamedRight
    <3>. QED BY <2>1, <2>2, <3>1, <3>2, <3>3
  <2>. QED BY <2>3, <2>5
<1>5. CASE Restart
  <2>1. tasks' = <<>> /\ UNCHANGED events
    BY <1>5 DEF Restart
  <2>2. Len(tasks') = 0
    BY <2>1
  <2>. QED BY <2>1, <2>2 DEF NamedRight
<1>6. ASSUME NEW s \in Slots,
             \/ Arrive(s) \/ ContextFails(s) \/ ContextHangs(s) \/ Begin(s)
             \/ Replay(s) \/ Hang(s) \/ StorePacket(s)
      PROVE  UNCHANGED tasks /\ events' \in {events, <<>>}
  <2>1. UNCHANGED tasks
    BY <1>6 DEF Arrive, ContextFails, ContextHangs, Begin, Replay, Hang, StorePacket
  <2>2. CASE Begin(s)
    <3>1. begun + 1 \in Replays
      BY <1>1, <2>2, ReplayAssumption DEF TypeOK, Begin, Replays
    <3>. QED BY <1>1, <2>1, <2>2, <3>1, RecordJobEffect DEF Begin
  <2>3. CASE ~Begin(s)
    BY <1>6, <2>1, <2>3, ReplayWrites DEF Arrive, ContextFails, ContextHangs, StorePacket
  <2>. QED BY <2>2, <2>3
<1>7. CASE OtherArtifact
  BY <1>2, <1>7, OtherArtifactEffect DEF OtherArtifact
<1>. QED BY <1>2, <1>3, <1>4, <1>5, <1>6, <1>7 DEF Next, Handle, vars

\* With one request at a time an event names the replay that has ended, also
\* one that raised or was cut off.
THEOREM OneByOneEventsNameTheirReplay ==
  ASSUME \A s, t \in Slots : s = t
  PROVE  Spec => []EventsNameTheirReplay
<1>1. Init => NamedRight(events) /\ NamedRight(tasks)
  <2>. SUFFICES ASSUME Init PROVE NamedRight(events) /\ NamedRight(tasks)
    OBVIOUS
  <2>1. events = <<>> /\ tasks = <<>>
    BY DEF Init
  <2>2. Len(events) = 0 /\ Len(tasks) = 0
    BY <2>1
  <2>. QED BY <2>2 DEF NamedRight
<1>2. IInv /\ NamedRight(events) /\ NamedRight(tasks) /\ [Next]_vars
        => NamedRight(events)' /\ NamedRight(tasks)'
  BY NextNames
<1>3. IInv /\ NamedRight(events) => EventsNameTheirReplay
  <2>. SUFFICES ASSUME IInv, NamedRight(events) PROVE EventsNameTheirReplay
    OBVIOUS
  <2>1. DOMAIN events = 1 .. Len(events)
    BY DEF IInv, TypeOK
  <2>. QED BY <2>1 DEF EventsNameTheirReplay, NamedRight
<1>. QED BY <1>1, <1>2, <1>3, Invariance, PTL DEF Spec
=============================================================================
