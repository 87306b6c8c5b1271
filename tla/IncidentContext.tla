---------------------------- MODULE IncidentContext ----------------------------
(***************************************************************************)
(* The page of one incident: how services/investigation.py builds its      *)
(* context, keeps it for a minute and serves it again, while reviews,      *)
(* executions and replays change the row and the runtime queue.            *)
(*                                                                         *)
(* An update of the row reads all of it, changes its part and writes all   *)
(* of it in a transaction of its own, so that an update that was written   *)
(* in between is undone, the decision of a review included.                *)
(*                                                                         *)
(* A request suspends at the two reads of the row, at the lookup of the    *)
(* deployments, during the calls of the live agents and while the overlay  *)
(* is built; others go on in between.  The replay route is a reader, too:  *)
(* it reads the page for the id of the pack, queues its job and reads the  *)
(* page again before it runs.                                              *)
(*                                                                         *)
(* Time is in ticks and an entry of the cache has an age instead of a      *)
(* stamp, so that time need not be bounded.                                *)
(***************************************************************************)
EXTENDS Integers, Sequences, FiniteSets, SequencesExt

CONSTANTS Readers,      \* requests in flight at a time
          Writers,      \* updates by other routes in flight at a time
          Verdicts,     \* what operators and live agents decide
          Source,       \* where the incident came from
          TTL,          \* ticks for which the cache serves an entry
          MaxVersion,   \* bound on the versions that reviews and executions make
          MaxJobs,      \* bound on the replays of the incident
          Faults        \* what may go wrong: "sentinel", "replay", "restart"

ASSUME ContextAssumption ==
    /\ Verdicts \subseteq {"approve", "reject", "request_modification"}
    /\ TTL \in Nat /\ MaxVersion \in Nat /\ MaxJobs \in Nat
    /\ Faults \subseteq {"sentinel", "replay", "restart"}

VARIABLES row,      \* the stored incident; updated_at is its version
          past,     \* the row in each of its versions
          jobs,     \* states of the incident's jobs in the runtime queue, oldest first
          cache,    \* _incident_context_cache: key to [content, age]
          reader,   \* the requests
          writer,   \* reviews, executions and updates of the evidence
          sent,     \* the page that the last step sent, if it sent one
          recent    \* what the queue looked like in this tick and the TTL ones before

vars == <<row, past, jobs, cache, reader, writer, sent, recent>>

Row == INSTANCE IncidentRow WITH Targets <- {}, ReplayLimit <- 5

Packets == {"none", "executed", "not_executed"}
JobStates == {"queued", "running", "completed", "recovered"}

-----------------------------------------------------------------------------
(* What a page says *)

\* guardian_decision_for_incident.
DecisionOf(r) ==
  CASE r.decision # "pending" -> r.decision
    [] r.decision = "pending" /\ r.status = "blocked_by_guardian" -> "reject"
    [] r.decision = "pending" /\ r.status = "needs_modification" -> "request_modification"
    [] r.decision = "pending" /\ r.status = "resolved" -> "approve"
    [] OTHER -> "pending"

\* _derive_current_stage, and how far its timeline is ticked off.
StageOf(r) ==
  CASE r.status = "resolved" -> "executed"
    [] r.status # "resolved" /\ (r.status # "investigating" \/ r.decision # "pending") -> "reviewed"
    [] OTHER -> CASE Source = "manual_form" -> "validated"
                  [] Source = "batch_import" -> "executed"
                  [] Source = "slack_command" -> "enriched"
                  [] OTHER -> "evidence"

\* execution_result, given the decision that the page shows.  A deterministic
\* page calls an open decision pending, a live one blocked.
ExecutionResult(r, decision, live) ==
  CASE r.status = "resolved" -> "executed"
    [] r.status = "blocked_by_guardian" -> "blocked"
    [] r.status = "needs_modification" -> "needs_modification"
    [] OTHER -> CASE decision = "approve" -> "approved"
                  [] decision = "request_modification" -> "needs_modification"
                  [] decision = "reject" \/ live -> "blocked"
                  [] OTHER -> "pending"

\* get_runtime_recovery_posture: a recovered job counts as active.
Posture ==
  LET active == {i \in DOMAIN jobs : jobs[i] # "completed"}
  IN CASE active = {} -> "healthy"
       [] active # {} /\ \E i \in DOMAIN jobs : jobs[i] = "recovered" -> "recovering"
       [] OTHER -> "degraded"

\* get_incident_queue_state: "latest" is the first job of the list.
QueueView == [latest |-> IF jobs = <<>> THEN "no_queue_history" ELSE Head(jobs),
              attempts |-> Len(jobs), posture |-> Posture]

NoPage == [shown |-> FALSE]

\* A page built from the row r, the stage that the second read gave, and the
\* queue at the end.
Page(r, stage, live, agents) ==
  LET decision == IF live /\ DecisionOf(r) = "pending" THEN agents ELSE DecisionOf(r)
  IN [shown |-> TRUE, live |-> live, decision |-> decision, stage |-> stage,
      result |-> ExecutionResult(r, decision, live), packet |-> r.packet, queue |-> QueueView]

-----------------------------------------------------------------------------
(* The cache *)

\* Slips of the key: without updated_at; live pages under the key of the others.
KeyOfDecision(r, live) == <<live, r.decision, 0>>
SharedKey(r, live) == <<FALSE, r.decision, r.version>>

\* The key of a page, of a live one if "live".
CacheKey(r, live) == <<live, r.decision, r.version>>

\* A slip of InTime: an entry is served however old it is.
InTimeForEver(age) == TRUE

\* get serves an entry no older than the time to live.
InTime(age) == age <= TTL

Holds(key) == key \in DOMAIN cache

\* set.
WithEntry(key, page) ==
    [k \in DOMAIN cache \cup {key} |-> IF k = key THEN [content |-> page, age |-> 0] ELSE cache[k]]

\* The cache without the entries that can never be served again: the expired
\* ones, and those of a version that neither the row nor a request has.  (The
\* code deletes the former when they are next looked up, the latter never.)
Tidied(entries, current, requests) ==
    LET rows == {current} \cup {requests[q].row : q \in {q \in Readers : requests[q].pc \in {"status", "lookup", "building"}}}
        keys == {CacheKey(r, live) : r \in rows, live \in BOOLEAN}
    IN [k \in {k \in DOMAIN entries \cap keys : InTime(entries[k].age)} |-> entries[k]]

-----------------------------------------------------------------------------
(* Requests *)

Idle == [pc |-> "idle", goal |-> "none"]
NoUpdate == [pc |-> "idle"]
Become(q, r) == reader' = [reader EXCEPT ![q] = r]
At(q, pc) == reader[q].pc = pc

Init == /\ row = [status |-> "investigating", decision |-> "pending", packet |-> "none", version |-> 0]
        /\ past = <<row>>
        /\ jobs = <<>>
        /\ cache = <<>>
        /\ reader = [q \in Readers |-> Idle]
        /\ writer = [w \in Writers |-> NoUpdate]
        /\ sent = NoPage
        /\ recent = [t \in 0 .. TTL |-> IF t = 0 THEN {QueueView} ELSE {}]

\* The page goes to whom the request was for: a viewer, the replay route, which
\* queues its job next, or trigger_replica_replay, which then replays.
Answered(q, page) ==
    /\ sent' = [shown |-> TRUE, page |-> page, of |-> reader[q].row.version, asked |-> reader[q].live]
    /\ Become(q, CASE reader[q].goal = "view" -> Idle
                   [] reader[q].goal = "route" -> [pc |-> "queue", goal |-> "route"]
                   [] OTHER -> [pc |-> "replay", goal |-> "trigger", job |-> reader[q].job])

NothingSent == sent' = NoPage

\* The request reads the row.
Loads(q, goal, live, job) ==
    /\ Become(q, [pc |-> "status", goal |-> goal, live |-> live, job |-> job, row |-> row])
    /\ NothingSent
    /\ UNCHANGED <<row, past, jobs, cache, writer, recent>>

\* The replays that were asked for, queued or not.
Replays == Len(jobs) + Cardinality({q \in Readers : reader[q].goal = "route"})

\* A request asks for the page, with live reasoning or not, or for a replay.
Ask(q) ==
    /\ At(q, "idle")
    /\ \/ \E live \in BOOLEAN : Loads(q, "view", live, 0)
       \/ Replays < MaxJobs /\ Loads(q, "route", FALSE, 0)

\* The replay that has queued its job asks once more.
AskAgain(q) == At(q, "again") /\ Loads(q, "trigger", FALSE, reader[q].job)

WithStage(q, r, stage) ==
    Become(q, [pc |-> "lookup", goal |-> reader[q].goal, live |-> reader[q].live,
               job |-> reader[q].job, row |-> r, stage |-> stage])

\* A slip of LoadStatus: the two reads are swapped.
LoadStatusFirst(q) ==
    /\ At(q, "status")
    /\ WithStage(q, row, StageOf(reader[q].row))
    /\ NothingSent
    /\ UNCHANGED <<row, past, jobs, cache, writer, recent>>

\* get_incident_status_v1 reads the row again, for the timeline.
LoadStatus(q) ==
    /\ At(q, "status")
    /\ WithStage(q, reader[q].row, StageOf(row))
    /\ NothingSent
    /\ UNCHANGED <<row, past, jobs, cache, writer, recent>>

\* The entry of the deterministic page answers any request, then that of the
\* live page one that asked for it.
LookUp(q) ==
    /\ At(q, "lookup")
    /\ LET base == CacheKey(reader[q].row, FALSE)
           live == CacheKey(reader[q].row, TRUE)
       IN \/ /\ Holds(base)
             /\ Answered(q, cache[base].content)
          \/ /\ ~Holds(base) /\ reader[q].live /\ Holds(live)
             /\ Answered(q, cache[live].content)
          \/ /\ ~Holds(base) /\ ~(reader[q].live /\ Holds(live))
             /\ Become(q, [reader[q] EXCEPT !.pc = "building"])
             /\ NothingSent
    /\ cache' = Tidied(cache, row, reader')
    /\ UNCHANGED <<row, past, jobs, writer, recent>>

\* The live agents, if asked for, and the overlay have returned: the queue is
\* read, the page is cached and sent.  Without a classification by the agents
\* the page is built as if no live reasoning had been asked for.
Build(q) ==
    /\ At(q, "building")
    /\ \E active \in {reader[q].live} \cup (IF "sentinel" \in Faults THEN {FALSE} ELSE {}),
          d \in IF reader[q].live THEN Verdicts ELSE {"none"} :
         LET page == Page(reader[q].row, reader[q].stage, active, d)
         IN /\ Answered(q, page)
            /\ cache' = Tidied(WithEntry(CacheKey(reader[q].row, active), page), row, reader')
    /\ UNCHANGED <<row, past, jobs, writer, recent>>

-----------------------------------------------------------------------------
(* What changes the row and the queue *)

\* Every update of the row has an updated_at of its own.
Stored(r) == /\ row' = [r EXCEPT !.version = row.version + 1]
             /\ past' = Append(past, row')
             /\ cache' = Tidied(cache, row', reader')

QueueBecomes(list) == /\ jobs' = list
                      /\ recent' = [recent EXCEPT ![0] = @ \cup {QueueView'}]

Updates(w, u) == writer' = [writer EXCEPT ![w] = u]

\* The read of a route: a review (with its verdict), an execution, which passes
\* its gate here, or a handoff or feedback, which changes the evidence only.
Start(w) ==
    /\ writer[w] = NoUpdate /\ row.version < MaxVersion
    /\ \/ \E d \in Verdicts : Updates(w, [pc |-> "read", kind |-> "review", verdict |-> d, seen |-> row])
       \/ /\ Row!MayExecute(row)
          /\ Updates(w, [pc |-> "gated", kind |-> "execute", verdict |-> "pending", seen |-> row])
       \/ Updates(w, [pc |-> "read", kind |-> "evidence", verdict |-> "pending", seen |-> row])
    /\ NothingSent
    /\ UNCHANGED <<row, past, jobs, cache, reader, recent>>

\* execute_incident reads the evidence that it will add its outcome to.
ReadEvidence(w) ==
    /\ writer[w].pc = "gated"
    /\ Updates(w, [writer[w] EXCEPT !.pc = "read", !.seen = row])
    /\ NothingSent
    /\ UNCHANGED <<row, past, jobs, cache, reader, recent>>

\* The repository reads the row that it will write back.
LoadRow(w) ==
    /\ writer[w].pc = "read"
    /\ Updates(w, [pc |-> "loaded", kind |-> writer[w].kind, verdict |-> writer[w].verdict,
                   seen |-> writer[w].seen, base |-> row])
    /\ NothingSent
    /\ UNCHANGED <<row, past, jobs, cache, reader, recent>>

\* What the update makes of the row that it has loaded.
Changed(u) ==
    CASE u.kind = "review"  -> [u.base EXCEPT !.decision = u.verdict,
                                              !.status = Row!NextStatus(u.seen.status, u.verdict)]
      [] u.kind = "resolve" -> [u.base EXCEPT !.status = "resolved"]
      [] OTHER              -> [u.base EXCEPT !.packet = u.seen.packet]

\* All of the row is written.  An execution has a second update to make.
SaveRow(w) ==
    /\ writer[w].pc = "loaded" /\ row.version < MaxVersion
    /\ UNCHANGED <<jobs, reader, recent>>
    /\ Stored(Changed(writer[w]))
    /\ Updates(w, IF writer[w].kind = "execute"
                  THEN [pc |-> "read", kind |-> "resolve", verdict |-> "pending", seen |-> writer[w].seen]
                  ELSE NoUpdate)
    /\ NothingSent

\* queue_replay_job; the page is then read once more.
QueueJob(q) ==
    /\ At(q, "queue")
    /\ QueueBecomes(Append(jobs, "queued"))
    /\ Become(q, [pc |-> "again", goal |-> "trigger", job |-> Len(jobs) + 1])
    /\ NothingSent
    /\ UNCHANGED <<row, past, cache, writer>>

\* start_job and the replay, which lets nobody else run.  What it raises leaves
\* the job as it is.
Replay(q) ==
    /\ At(q, "replay")
    /\ QueueBecomes([jobs EXCEPT ![reader[q].job] = "running"])
    /\ \/ \E executed \in BOOLEAN :
             Become(q, [pc |-> "store", goal |-> "trigger", job |-> reader[q].job, executed |-> executed])
       \/ /\ "replay" \in Faults
          /\ Become(q, Idle)
    /\ NothingSent
    /\ UNCHANGED <<row, past, cache, writer>>

\* append_incident_replay_evidence reads the row, and writes all of it.
LoadForPacket(q) ==
    /\ At(q, "store")
    /\ Become(q, [pc |-> "packet", goal |-> "trigger", job |-> reader[q].job,
                  executed |-> reader[q].executed, base |-> row])
    /\ NothingSent
    /\ UNCHANGED <<row, past, jobs, cache, writer, recent>>

StorePacket(q) ==
    /\ At(q, "packet")
    /\ Become(q, [pc |-> "close", goal |-> "trigger", job |-> reader[q].job,
                  executed |-> reader[q].executed])
    /\ Stored([reader[q].base EXCEPT !.packet = IF reader[q].executed THEN "executed" ELSE "not_executed"])
    /\ NothingSent
    /\ UNCHANGED <<jobs, writer, recent>>

\* recover_job or complete_job.
CloseJob(q) ==
    /\ At(q, "close")
    /\ QueueBecomes([jobs EXCEPT ![reader[q].job] = IF reader[q].executed THEN "recovered" ELSE "completed"])
    /\ Become(q, Idle)
    /\ NothingSent
    /\ UNCHANGED <<row, past, cache, writer>>

\* The process is killed: requests and cache are gone.
Restart ==
    /\ "restart" \in Faults
    /\ cache' = <<>>
    /\ reader' = [q \in Readers |-> Idle]
    /\ writer' = [w \in Writers |-> NoUpdate]
    /\ NothingSent
    /\ UNCHANGED <<row, past, jobs, recent>>

Tick ==
    /\ cache' = Tidied([k \in DOMAIN cache |-> [cache[k] EXCEPT !.age = IF @ > TTL THEN @ ELSE @ + 1]],
                       row, reader)
    /\ recent' = [t \in 0 .. TTL |-> IF t = 0 THEN {QueueView} ELSE recent[t - 1]]
    /\ NothingSent
    /\ UNCHANGED <<row, past, jobs, reader, writer>>

Next == \/ \E q \in Readers : \/ Ask(q) \/ AskAgain(q) \/ LoadStatus(q) \/ LookUp(q)
                              \/ Build(q) \/ QueueJob(q) \/ Replay(q)
                              \/ LoadForPacket(q) \/ StorePacket(q) \/ CloseJob(q)
        \/ \E w \in Writers : Start(w) \/ ReadEvidence(w) \/ LoadRow(w) \/ SaveRow(w)
        \/ Restart \/ Tick

Spec == Init /\ [][Next]_vars

-----------------------------------------------------------------------------

Pages == [shown: {TRUE}, live: BOOLEAN, decision: Row!Decisions \cup {"pending"},
          stage: {"validated", "enriched", "evidence", "reviewed", "executed"},
          result: {"executed", "blocked", "needs_modification", "approved", "pending"},
          packet: Packets,
          queue: [latest: JobStates \cup {"no_queue_history"}, attempts: 0 .. MaxJobs,
                  posture: {"healthy", "recovering", "degraded"}]]

\* Types; live pages, and no others, are kept under the keys of live pages, and
\* an entry is about the row in the version of its key.
TypeOK ==
    /\ row \in [status: Row!Statuses, decision: Row!Decisions \cup {"pending"},
                packet: Packets, version: Nat]
    /\ past \in Seq([status: Row!Statuses, decision: Row!Decisions \cup {"pending"},
                     packet: Packets, version: Nat])
    /\ jobs \in Seq(JobStates)
    /\ \A k \in DOMAIN cache :
          /\ cache[k].content \in Pages /\ cache[k].age \in 0 .. TTL
          /\ cache[k].content.live = k[1]
          /\ past[k[3] + 1].decision = k[2]
    /\ sent.shown => sent.page \in Pages

\* A page that is sent, from the cache or not, shows the replay packet, the
\* operator's decision and the resolution of the row that its own request had
\* read: the cache is never behind the row (investigation.py:228, "invalidate
\* on Guardian decision changes and incident updates").
PagesShowTheirRow ==
    sent.shown =>
      LET r == past[sent.of + 1]
      IN /\ sent.page.packet = r.packet
         /\ DecisionOf(r) # "pending" => sent.page.decision = DecisionOf(r)
         /\ sent.page.result = "executed" <=> r.status = "resolved"

\* The timeline of a page comes from a read of its own, which may be another
\* request's, long ago, and yet it is never older than the row that the page is
\* about: it is that of this version or of a later one (incidents.py:762 and
\* 763, and the cache).
TimelineIsNotOlder ==
    sent.shown => \E i \in sent.of + 1 .. Len(past) : sent.page.stage = StageOf(past[i])

\* Who did not ask for live reasoning gets none, although both kinds of pages
\* share one cache (investigation.py:229 and 696).
LiveOnlyWhenAsked == sent.shown /\ sent.page.live => sent.asked

\* What a page tells of the runtime queue was so at some moment of the TTL
\* before it was sent, however long its agents and its overlay took: the queue
\* is read when the page is cached (investigation.py:667).
QueueViewIsRecent == sent.shown => \E t \in 0 .. TTL : sent.page.queue \in recent[t]

\* The API calls it the latest job (runtime_queue.py:169): a page that has just
\* been built shows the state of the job that was queued last.
LatestJobIsShown ==
    sent.shown /\ sent.page.queue = QueueView /\ jobs # <<>>
      => sent.page.queue.latest = Last(jobs)

\* With agents that never fail, who asks for live reasoning gets it: "inconsistent
\* live activation" is what the pilot called a product problem.
LiveWhenAsked == sent.shown /\ sent.asked => sent.page.live
=============================================================================
