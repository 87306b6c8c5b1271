------------------------------- MODULE Evidence -------------------------------
(***************************************************************************)
(* What the page of an incident tells of the replays of the incident       *)
(* (server/services/incidents.py, investigation.py, enterprise_runtime.py, *)
(* tenancy.py).                                                            *)
(*                                                                         *)
(* An operator triggers replays; each takes what it needs from the page of *)
(* that moment, runs on the app's host or on a configured runtime host, or *)
(* nowhere, and leaves a packet in the row.  A page is built from the row, *)
(* the newest packet, and the last entries of the incident's audit trail:  *)
(* these are its recent logs, and the family of the incident and its pack  *)
(* are inferred from the words in them.                                    *)
(*                                                                         *)
(* Every page is built anew here; IncidentContext models its cache, and    *)
(* RuntimeReplay the job of a replay.                                      *)
(***************************************************************************)
EXTENDS ReplicaSummary

CONSTANTS Incidents,    \* family, clues, timeout (named in the title), severity, posture of the intake
          MaxReplays,   \* bound on the replays that are triggered
          MaxChanges,   \* bound on the changes of the hosts
          ReplayLimit   \* packets that are kept

\* How good a pasted text is; a manual report is text without a judgement, an
\* alert has no text.
Pasted == {"weak", "partial", "strong"}
Postures == Pasted \cup {"manual", "none"}

ASSUME EvidenceAssumption ==
    /\ Incidents \subseteq [family: Families, clues: SUBSET Clues, timeout: BOOLEAN,
                            severity: DigitLabels, posture: Postures]
    /\ \A i \in Incidents : i.posture \in Pasted => i.family \notin {"certificate expiry", "memory leak"}
    /\ MaxReplays \in Nat /\ MaxChanges \in Nat /\ ReplayLimit \in Nat \ {0}

VARIABLES incident,
          decision,   \* of the last review
          tool,       \* the compose tool of the app's host
          relay,      \* the runtime host: not configured, or the state of its tool, or down
          runtime,    \* NEXUS_ENABLE_REPLICA_RUNTIME
          enabled,    \* whether the tenant has enabled the packs
          retried,    \* audit entries since one that names a retry, at most Recent
          packets,    \* of the stored replays, the newest first
          triggered, changes,
          page        \* the page just built, or NoPage

vars == <<incident, decision, tool, relay, runtime, enabled, retried, packets, triggered, changes, page>>

Row == <<incident, decision, packets>>
Hosts == <<tool, relay, runtime, enabled, changes>>

Decisions == {"pending", "approve", "reject", "request_modification"}
Relays == Tools \cup {"none", "down"}
Recent == 5     \* audit entries that a page shows

NoPage == [shown |-> FALSE]

Init == /\ incident \in Incidents
        /\ decision = "pending" /\ packets = <<>>
        /\ tool \in {"works", "absent"} /\ relay \in {"none", "works"}
        /\ runtime \in BOOLEAN /\ enabled \in BOOLEAN
        /\ retried = Recent
        /\ triggered = 0 /\ changes = 0 /\ page = NoPage

\* write_audit_log: one more entry of the incident's trail.
Audited(namesRetry) == retried' = IF namesRetry THEN 0 ELSE Min({Recent, retried + 1})

-----------------------------------------------------------------------------
(* What is inferred from the recent logs *)

RetryInLogs == retried < Recent

\* The family of a pasted text was classified at its intake (INC006 as its own
\* name, which no family table has); any other is inferred from the title, the
\* text and the logs, the words of the trail included.
InferredFamily ==
  CASE incident.posture \in Pasted \/ ~RetryInLogs -> incident.family
    [] incident.family = "auth dependency" -> "other"
    [] incident.timeout /\ incident.family \in {"pool exhaustion", "certificate expiry", "memory leak", "other"} ->
         "timeout cascade"
    [] OTHER -> incident.family

InferredClues == incident.clues \cup (IF RetryInLogs THEN {"retry words"} ELSE {})

Pack == select_environment_pack(InferredFamily, InferredClues)

\* runtime_aligned_candidate_fixes.
CandidateFixes(family) ==
  CASE family = "auth dependency" ->
         <<[action |-> "reset breaker and token cache", success |-> 91],
           [action |-> "increase auth timeout", success |-> 87],
           [action |-> "roll back auth-svc", success |-> 82]>>
    [] family = "queue backlog" ->
         <<[action |-> "roll back consumer", success |-> 93],
           [action |-> "re-enable rebalance flag", success |-> 88],
           [action |-> "increase partitions", success |-> 24]>>
    [] family = "timeout cascade" ->
         <<[action |-> "open breaker and cap retries", success |-> 90],
           [action |-> "roll back retry middleware", success |-> 87],
           [action |-> "drain pods", success |-> 80]>>
    [] family = "pool exhaustion" ->
         <<[action |-> "terminate sessions and restart", success |-> 89],
           [action |-> "roll back retry patch", success |-> 86],
           [action |-> "increase pool size", success |-> 78]>>
    [] family = "certificate expiry" ->
         <<[action |-> "rotate certificate", success |-> 93], [action |-> "reload listener", success |-> 86]>>
    [] OTHER ->
         <<[action |-> "validate ownership", success |-> 90], [action |-> "prepare rollback", success |-> 82]>>

\* get_incident_support_state.  The classes it looks for are those of the pack
\* for four families; no pack has those of a queue backlog.
SupportState(family) ==
  IF family \in {"certificate expiry", "memory leak", "other"} THEN "unsupported"
  ELSE IF enabled /\ family # "queue backlog" THEN "runtime-backed" ELSE "inference-first"

-----------------------------------------------------------------------------
(* A replay *)

\* The summary for a result of the app's host, "" for no overrides.
SummaryOf(result) ==
  build_replica_summary(InferredFamily, Pack, {f.action : f \in Range(CandidateFixes(InferredFamily))},
                        SeenWith(tool, Pack), result, relay # "none", "", "")

\* A run measures, is disturbed by another, or finds at its own inspection that
\* the tool is gone and returns that.
RunResults(pack) == {Measured(pack), Disturbed(pack), Result(NoSignal, <<>>)}

RunsWith(compose) == Pack # NoPack /\ compose = "works" /\ ~AssetsMissing(Pack)

ResultsOfApp(executes) == IF executes /\ RunsWith(tool) THEN RunResults(Pack) ELSE {NoResult}

\* execute_runtime_host_replay, on the runtime host: its status, the result that
\* it sends, which is its inspection where it has run nothing.
RelayAnswers ==
  IF relay = "works" THEN [status: {"replay_executed"}, result: RunResults(Pack)]
  ELSE [status: {IF relay = "absent" THEN "host_unavailable" ELSE "pack_validation_required"},
        result: {Result(NoSignal, <<>>)}]

\* build_runtime_trust_packet.
TrustDecision(capability) ==
  CASE capability \in {"replay_executed", "relay_executed"} -> "executed"
    [] capability \in {"replay_available", "relay_available"} -> "allowed"
    [] OTHER -> "denied"

PacketOf(summary, trust, host) ==
  [status |-> TriggeredStatus(summary.capability), state |-> JobState(TriggeredStatus(summary.capability)),
   trust |-> trust, summary |-> summary, host |-> host]

\* The packets a replay can leave: of the app's host, or, where that has no
\* tool, of the runtime host.  "host" is where a run was started.
LeftByApp ==
  {PacketOf(s, TrustDecision(s.capability), IF s.executed THEN "app" ELSE "nowhere") :
     s \in {SummaryOf(r) : r \in ResultsOfApp(TRUE)}}

LeftByRelay ==
  {PacketOf(DelegatedSummary(InferredFamily, Pack, {f.action : f \in Range(CandidateFixes(InferredFamily))},
                             SeenWith(tool, Pack), a.status, a.result),
            TrustDecision(a.status), IF a.status = "replay_executed" THEN "relay" ELSE "nowhere") :
     a \in RelayAnswers}

Delegates == SummaryOf(NoResult).capability = "relay_available"

\* append_incident_replay_evidence.
Stored(packet) == SubSeq(<<packet>> \o packets, 1, Min({ReplayLimit, Len(packets) + 1}))

\* trigger_replica_replay, and its audit entry.  A runtime host that is down
\* raises: nothing is stored or audited.
TriggerReplay ==
  /\ triggered < MaxReplays
  /\ triggered' = triggered + 1
  /\ page' = NoPage
  /\ IF Delegates /\ relay = "down"
     THEN UNCHANGED <<packets, retried>>
     ELSE /\ \E packet \in IF Delegates THEN LeftByRelay ELSE LeftByApp : packets' = Stored(packet)
          /\ Audited(FALSE)
  /\ UNCHANGED <<incident, decision, Hosts>>

-----------------------------------------------------------------------------
(* A page *)

\* A slip: a page shows the last replay that has run.
NewestThatRan ==
  IF \E i \in DOMAIN packets : packets[i].host # "nowhere"
  THEN packets[CHOOSE i \in DOMAIN packets : /\ packets[i].host # "nowhere"
                                           /\ \A j \in 1 .. i - 1 : packets[j].host = "nowhere"]
  ELSE packets[1]

Newest == packets[1]

\* A slip: a replay has run if its summary says so.
HasRunBySummary == packets # <<>> /\ Newest.summary.executed

\* has_runtime_replay.  (It asks for a lifecycle_state as well, which a packet
\* keeps one level deeper, so that only its status counts.)
HasRuntimeReplay == packets # <<>> /\ Newest.status \in {"replay_executed", "relay_executed"}

\* Confidences in hundredths, for the posture of the intake (77 for an alert of
\* the stream or of a command).
ClassificationConfidence(posture, ran) ==
  CASE posture = "weak" -> 58
    [] posture = "partial" -> IF ran THEN 80 ELSE 72
    [] posture \in {"strong", "manual"} -> 86
    [] OTHER -> 84

DiagnosisConfidence(posture, ran) ==
  CASE posture = "weak" -> 55
    [] posture = "partial" -> IF ran THEN 82 ELSE 69
    [] posture \in {"strong", "manual"} -> IF ran THEN 88 ELSE 80
    [] OTHER -> 75

\* build_quality_evaluation.
Uncertainty(classified, ran) ==
  IF classified < 60 THEN "high uncertainty"
  ELSE IF classified > 80 THEN "well-grounded"
  ELSE IF ran THEN "runtime-validated" ELSE "low confidence"

\* build_fresh_intake_truth, for an incident with a text.
Caveat(posture, support, ran) ==
  IF posture = "none" THEN "none"
  ELSE IF support = "unsupported" THEN "validation is not available"
  ELSE IF ran THEN "none" ELSE "not validated yet"

\* The overlay's runbook and guardian, and what a stored packet makes of them
\* (refresh_overlay_from_persisted_replay).
Unranked(fixes) ==
  [i \in 1 .. Len(fixes) |-> [action |-> fixes[i].action, score |-> 0, success |-> fixes[i].success, posture |-> ""]]

ShownFixes(summary) ==
  IF packets = <<>> THEN Unranked(CandidateFixes(InferredFamily))
  ELSE rank_candidate_fixes_with_runtime(CandidateFixes(InferredFamily), summary)

ShownRisk(summary) ==
  RiskClass(incident.severity, IF packets = <<>> THEN "" ELSE summary.outcome)

GuardianTask ==
  IF packets # <<>> /\ decision \in {"reject", "request_modification"} THEN "blocked" ELSE "completed"

\* build_incident_context_payload, with the summary of the newest packet or one
\* of the moment.
PageOf(summary) ==
  LET ran == HasRuntimeReplay
      classified == ClassificationConfidence(incident.posture, ran)
      fixes == ShownFixes(summary)
  IN [shown       |-> TRUE,
      ran         |-> ran,
      diagnosed   |-> DiagnosisConfidence(incident.posture, ran),
      uncertainty |-> Uncertainty(classified, ran),
      support     |-> SupportState(InferredFamily),
      caveat      |-> Caveat(incident.posture, SupportState(InferredFamily), ran),
      fixes       |-> fixes,
      recommended |-> fixes[1].action,
      clause      |-> ValidatedClause(summary.executed, summary.outcome),
      risk        |-> ShownRisk(summary),
      level       |-> ApprovalLevel(ShownRisk(summary)),
      rollback    |-> IF decision = "reject" THEN "needs_review" ELSE "ready",
      task        |-> GuardianTask,
      history     |-> [i \in 1 .. Len(packets) |-> packets[i].status]]

PageSummaries ==
  IF packets # <<>> THEN {Newest.summary} ELSE {SummaryOf(r) : r \in ResultsOfApp(runtime)}

\* GET .../context: a page, and its own audit entry.
ReadPage ==
  /\ \E summary \in PageSummaries : page' = PageOf(summary)
  /\ Audited(FALSE)
  /\ UNCHANGED <<Row, Hosts, triggered>>

\* record_guardian_decision, as far as a page shows it.
Review(d) ==
  /\ decision' = d
  /\ Audited(FALSE)
  /\ page' = NoPage
  /\ UNCHANGED <<incident, packets, Hosts, triggered>>

\* A handoff, sent or retried: the entry names a retry if it was one, or if the
\* delivery is to be tried again ("retrying").
SendHandoff ==
  /\ \E isRetry \in BOOLEAN, delivery \in {"delivered", "retrying", "terminal_failure"} :
        Audited(isRetry \/ delivery = "retrying")
  /\ page' = NoPage
  /\ UNCHANGED <<Row, Hosts, triggered>>

ChangeHosts ==
  /\ changes < MaxChanges
  /\ changes' = changes + 1
  /\ \/ tool' \in Tools \ {tool} /\ UNCHANGED <<relay, enabled>>
     \/ relay' \in Relays \ {relay} /\ UNCHANGED <<tool, enabled>>
     \/ enabled' = ~enabled /\ UNCHANGED <<tool, relay>>
  /\ page' = NoPage
  /\ UNCHANGED <<Row, runtime, retried, triggered>>

Next == TriggerReplay \/ ReadPage \/ (\E d \in Decisions \ {"pending"} : Review(d)) \/ SendHandoff \/ ChangeHosts

Spec == Init /\ [][Next]_vars

-----------------------------------------------------------------------------
(* Properties *)

\* Rows hold the packets of triggered replays, no more than are kept.
TypeOK ==
  /\ incident \in Incidents /\ decision \in Decisions
  /\ tool \in Tools /\ relay \in Relays /\ runtime \in BOOLEAN /\ enabled \in BOOLEAN
  /\ retried \in 0 .. Recent
  /\ Len(packets) <= Min({triggered, ReplayLimit})
  /\ triggered \in 0 .. MaxReplays /\ changes \in 0 .. MaxChanges
  /\ page # NoPage => page.uncertainty \in {"high uncertainty", "well-grounded", "runtime-validated", "low confidence"}

\* The status of a packet, the state of its job, its trust packet and, for a
\* replay that has measured something, its provenance tell where it was run,
\* through the summaries of two hosts (incidents.py 949-1144).
StatusTellsWhereItRan ==
  \A i \in DOMAIN packets :
     LET p == packets[i]
         measured == p.summary.base # NoSignal
     IN /\ p.status = "replay_executed" <=> p.host = "app"
        /\ p.status = "relay_executed" <=> p.host = "relay"
        /\ p.trust = "executed" <=> p.host # "nowhere"
        /\ p.state = "completed" <=> p.host # "nowhere"
        /\ measured => p.summary.provenance = (IF p.host = "app" THEN "direct_runtime" ELSE "delegated_relay")

\* A page asks for less than the severity does, or calls a fix validated, only
\* on what the newest replay of the row has measured: a replay that could not
\* run takes it back (refresh_overlay_from_persisted_replay).
LoweredByTheNewestRun ==
  page.shown /\ (\/ page.risk # RiskClass(incident.severity, "")
                 \/ \E i \in DOMAIN page.fixes : page.fixes[i].posture = "validated_runtime") =>
    /\ packets # <<>>
    /\ packets[1].host # "nowhere"
    /\ packets[1].summary.base.status >= 500
    /\ packets[1].summary.outcome \in {"resolved", "improved"}

\* A page is more confident than the intake allows, or drops the caveat of a
\* family that is supported, only if the newest replay was run: not for one that
\* a runtime host has merely inspected (investigation.py 292-468).
ConfidentAfterARun ==
  page.shown /\ (\/ page.diagnosed > DiagnosisConfidence(incident.posture, FALSE)
                 \/ page.uncertainty = "runtime-validated"
                 \/ incident.posture # "none" /\ page.caveat = "none") =>
    packets # <<>> /\ packets[1].host # "nowhere"

\* "This incident family is outside the bounded runtime packs, so runtime
\* validation is not available" (intake.py): said of no page with a run.
NotAvailableIsNotRun ==
  page.shown /\ page.caveat = "validation is not available" => ~page.ran
=============================================================================
