-------------------------------- MODULE Intake --------------------------------
(***************************************************************************)
(* How alerts and reports become incidents, and the files that are written *)
(* on the way: the create routes of server/app.py, the audit log           *)
(* (services/audit.py), the copy of its entries in the artifact file       *)
(* (artifacts.py) and the configurations of the tenants (tenancy.py).      *)
(*                                                                         *)
(* A delivery is answered after its incident was inserted and audited.     *)
(* Inserting runs in a thread, so deliveries overlap; writing a file does  *)
(* not suspend, so only a kill of the process can come between two writes. *)
(* Any read or write may fail.  Senders deliver an alert again when there  *)
(* was no answer or one that blames the server.                            *)
(***************************************************************************)
EXTENDS Integers, Sequences, FiniteSets, SequencesExt

CONSTANTS Alerts,          \* what the senders have to tell
          AllowedTenants,  \* allowed_tenant_ids
          Slots,           \* deliveries under way at a time
          MaxFaults,       \* bound on failed inserts, reads and writes
          MaxKills,        \* bound on kills of the process
          MaxSaves         \* bound on saved configurations

Routes == {"webhook", "vendor webhook", "operator"}
Roles == {"operator", "incident_manager", "guardian", "admin", "none"}
Tenants == {a.tenant : a \in Alerts}

ASSUME IntakeAssumption ==
    /\ Alerts \subseteq [name: STRING, tenant: STRING, route: Routes, role: Roles]
    /\ IsFiniteSet(Slots)
    /\ MaxFaults \in Nat /\ MaxKills \in Nat /\ MaxSaves \in Nat

VARIABLES incidents,   \* the table: the alert of each row, in the order of insertion
          audit,       \* .nexus_audit_log.json: the row each entry is about
          events,      \* audit_events of artifacts/platform_artifacts.json
          slot,        \* per delivery: its alert, step and row
          sender,      \* per alert: "waiting", "sent", "accepted" or "refused"
          deliveries,  \* per alert: deliveries so far
          configs,     \* tenant_bootstrap.json: tenant to version, or Torn
          saved,       \* the versions that were confirmed to an admin
          unread,      \* whether the log was once taken to be empty
          saves, faults, kills

vars == <<incidents, audit, events, unread, slot, sender, deliveries, configs, saved, saves, faults, kills>>

Torn == [t \in {} |-> 0]          \* no JSON: loads as no configuration at all
Idle == [step |-> "idle"]

Init == /\ incidents = <<>> /\ audit = <<>> /\ events = <<>> /\ unread = FALSE
        /\ slot = [s \in Slots |-> Idle]
        /\ sender = [a \in Alerts |-> "waiting"]
        /\ deliveries = [a \in Alerts |-> 0]
        /\ configs = Torn /\ saved = Torn
        /\ saves = 0 /\ faults = 0 /\ kills = 0

MayFail == faults < MaxFaults
Fault == faults' = faults + 1
Files == <<audit, events, unread>>
Tenancy == <<configs, saved, saves>>

-----------------------------------------------------------------------------
(* The two files *)

\* _load, append, _persist: a new file replaces the old one.
Appended(file, entry) == Append(file, entry)

\* A slip: the copy is written first, and a kill may come before the entry is.
CopyFirst(entry, last) ==
  /\ UNCHANGED <<unread, faults>>
  /\ events' = Appended(events, entry)
  /\ \/ audit' = Appended(audit, entry)
     \/ last /\ UNCHANGED audit

\* write_audit_log to its end, or, when the process is killed under it ("last"),
\* to one of its writes.  A failure to copy the entry is swallowed; a log, or a
\* copy, that cannot be read is taken to be empty.
write_audit_log(entry, last) ==
  \/ /\ audit' = Appended(audit, entry)
     /\ events' = Appended(events, entry)
     /\ UNCHANGED <<unread, faults>>
  \/ /\ audit' = Appended(audit, entry)
     /\ last /\ UNCHANGED <<events, unread, faults>>
  \/ /\ audit' = Appended(audit, entry)
     /\ MayFail /\ Fault /\ UNCHANGED <<events, unread>>
  \/ /\ audit' = Appended(audit, entry)
     /\ events # <<>> /\ events' = <<entry>>
     /\ MayFail /\ Fault /\ UNCHANGED unread
  \/ /\ audit' = <<entry>> /\ unread' = TRUE
     /\ events' = Appended(events, entry)
     /\ audit # <<>> /\ MayFail /\ Fault

\* An entry that is not about an incident, or another section of the artifact
\* file, is written to a file that cannot be read.
OtherEntry ==
  /\ MayFail /\ Fault
  /\ \/ audit # <<>> /\ audit' = <<>> /\ unread' = TRUE /\ UNCHANGED events
     \/ events # <<>> /\ events' = <<>> /\ UNCHANGED <<audit, unread>>
  /\ UNCHANGED <<incidents, slot, sender, deliveries, Tenancy, kills>>

-----------------------------------------------------------------------------
(* Deliveries *)

\* require_role of the operators' routes; resolve_webhook_tenant; require_auth.
Admitted(a) ==
  /\ a.tenant \in AllowedTenants
  /\ a.route = "operator" => a.role \in {"operator", "incident_manager"}

\* A slip of the webhook: it wraps errors as the vendors' webhooks do.
AlwaysBadRequest(route) == 400

\* The vendors' webhooks turn every exception into a 400.
FailureStatus(route) == IF route = "vendor webhook" THEN 400 ELSE 500

\* A sender is told "its" alert is wrong, or that it should try again.
Learns(a, status) ==
  sender' = [sender EXCEPT ![a] = CASE status = 202 -> "accepted"
                                    [] status = 500 /\ @ # "accepted" -> "waiting"
                                    [] status # 500 /\ @ # "accepted" -> "refused"
                                    [] OTHER -> @]

Deliver(s, a) ==
  /\ slot[s] = Idle /\ sender[a] = "waiting"
  /\ deliveries[a] <= MaxFaults + MaxKills
  /\ deliveries' = [deliveries EXCEPT ![a] = @ + 1]
  /\ IF Admitted(a)
     THEN /\ slot' = [slot EXCEPT ![s] = [step |-> "admitted", alert |-> a, row |-> 0]]
          /\ sender' = [sender EXCEPT ![a] = "sent"]
     ELSE sender' = [sender EXCEPT ![a] = "refused"] /\ UNCHANGED slot
  /\ UNCHANGED <<incidents, Files, Tenancy, faults, kills>>

\* The sender has waited long enough; the delivery goes on.
SenderTimesOut(a) ==
  /\ sender[a] = "sent" /\ deliveries[a] <= MaxFaults + MaxKills /\ MayFail
  /\ Fault
  /\ sender' = [sender EXCEPT ![a] = "waiting"]
  /\ UNCHANGED <<incidents, Files, slot, deliveries, Tenancy, kills>>

\* A slip: the insert is repeated though it succeeded.
InsertTwice(s) ==
  /\ slot[s].step = "admitted"
  /\ incidents' = incidents \o <<slot[s].alert, slot[s].alert>>
  /\ slot' = [slot EXCEPT ![s] = [@ EXCEPT !.step = "stored", !.row = Len(incidents) + 2]]
  /\ UNCHANGED <<Files, sender, deliveries, Tenancy, faults, kills>>

\* create_incident: there is no look for an incident of the same external_id.
create_incident(s) ==
  /\ slot[s].step = "admitted"
  /\ LET a == slot[s].alert
     IN \/ /\ incidents' = Append(incidents, a)
           /\ slot' = [slot EXCEPT ![s] = [@ EXCEPT !.step = "stored", !.row = Len(incidents) + 1]]
           /\ UNCHANGED <<sender, faults>>
        \/ /\ MayFail /\ Fault
           /\ slot' = [slot EXCEPT ![s] = Idle]
           /\ Learns(a, FailureStatus(a.route))
           /\ UNCHANGED incidents
  /\ UNCHANGED <<Files, deliveries, Tenancy, kills>>

\* A slip of the routes: the entry is written on a best-effort basis.
AuditIfPossible(s) ==
  /\ slot[s].step = "stored"
  /\ slot' = [slot EXCEPT ![s] = Idle]
  /\ Learns(slot[s].alert, 202)
  /\ \/ write_audit_log(slot[s].row, FALSE)
     \/ MayFail /\ Fault /\ UNCHANGED Files
  /\ UNCHANGED <<incidents, deliveries, Tenancy, kills>>

\* The audit entry, and the answer: 202, unless the entry cannot be written.
audit_and_answer(s) ==
  /\ slot[s].step = "stored"
  /\ slot' = [slot EXCEPT ![s] = Idle]
  /\ LET a == slot[s].alert
     IN \/ write_audit_log(slot[s].row, FALSE) /\ Learns(a, 202)
        \/ MayFail /\ Fault /\ Learns(a, FailureStatus(a.route)) /\ UNCHANGED Files
  /\ UNCHANGED <<incidents, deliveries, Tenancy, kills>>

-----------------------------------------------------------------------------
(* Configurations *)

\* What a read may make of the file: what it holds, or, with an error, nothing.
load_bootstrap_configs == IF MayFail THEN {configs, Torn} ELSE {configs}

\* A slip of the service: only the tenant at hand is written.
SavedAlone(read, t, version) == [x \in {t} |-> version]

\* The configurations that were read, with that of one tenant updated.
Saved(read, t, version) ==
  [x \in DOMAIN read \cup {t} |-> IF x = t THEN version ELSE read[x]]

\* PUT bootstrap-config, by an admin.  The file is written in place.
update_bootstrap_config(t) ==
  /\ saves < MaxSaves /\ t \in AllowedTenants
  /\ saves' = saves + 1
  /\ \/ \E read \in load_bootstrap_configs :
           /\ configs' = Saved(read, t, saves + 1)
           /\ IF read = configs THEN UNCHANGED faults ELSE Fault
        /\ saved' = [x \in DOMAIN saved \cup {t} |-> IF x = t THEN saves + 1 ELSE saved[x]]
     \/ MayFail /\ Fault /\ configs' = Torn /\ UNCHANGED saved
  /\ UNCHANGED <<incidents, Files, slot, sender, deliveries, kills>>

-----------------------------------------------------------------------------
(* Kills of the process *)

Ended == slot' = [s \in Slots |-> Idle]

Unanswered(s) == slot[s] # Idle

\* Senders whose delivery was under way get no answer.
Disconnected ==
  sender' = [a \in Alerts |->
               IF sender[a] = "sent" /\ \E s \in Slots : Unanswered(s) /\ slot[s].alert = a
               THEN "waiting" ELSE sender[a]]

\* The process is killed while nothing, the audit of a delivery, or the saving
\* of a configuration is being written.
Kill ==
  /\ kills < MaxKills
  /\ kills' = kills + 1
  /\ Ended /\ Disconnected
  /\ \/ UNCHANGED <<Files, configs, faults>>
     \/ \E s \in Slots : slot[s].step = "stored" /\ write_audit_log(slot[s].row, TRUE) /\ UNCHANGED configs
     \/ saves < MaxSaves /\ configs' = Torn /\ UNCHANGED <<Files, faults>>
  /\ UNCHANGED <<incidents, deliveries, saved, saves>>

Handle(s) == create_incident(s) \/ audit_and_answer(s)

Next == \/ \E s \in Slots : Handle(s)
        \/ \E a \in Alerts : SenderTimesOut(a) \/ \E s \in Slots : Deliver(s, a)
        \/ \E t \in Tenants : update_bootstrap_config(t)
        \/ OtherEntry \/ Kill

Spec == Init /\ [][Next]_vars

\* Handlers run to their end; senders deliver again while they have no answer.
FairSpec == /\ Spec
            /\ \A s \in Slots : WF_vars(Handle(s))
            /\ \A a \in Alerts : WF_vars(\E s \in Slots : Deliver(s, a))

-----------------------------------------------------------------------------
(* Properties *)

RowsOf(a) == {i \in 1 .. Len(incidents) : incidents[i] = a}
InFlight == {s \in Slots : slot[s].step = "stored"}

\* Every variable has its type, and no incident is of a foreign tenant or came
\* by the operators' routes from one who only reviews or administers.
TypeOK ==
  /\ \A i \in 1 .. Len(incidents) : Admitted(incidents[i])
  /\ \A s \in Slots : slot[s].step \in {"idle", "admitted", "stored"}
  /\ \A a \in Alerts : sender[a] \in {"waiting", "sent", "accepted", "refused"}
  /\ DOMAIN configs \subseteq Tenants /\ DOMAIN saved \subseteq Tenants
  /\ saves \in 0 .. MaxSaves /\ faults \in 0 .. MaxFaults /\ kills \in 0 .. MaxKills

\* What a sender was told is accepted is stored for its tenant and has an entry
\* in the audit log, whatever fails, is killed or is delivered twice; only a log
\* that once could not be read may have lost it.
AcceptedIsOnRecord ==
  \A a \in Alerts : sender[a] = "accepted" =>
     RowsOf(a) # {} /\ (unread \/ \E i \in RowsOf(a) : Contains(audit, i))

\* The copy holds entries of the log, in the order of the log.
CopyFollowsLog ==
  \A j \in 1 .. Len(events) : \A i \in 1 .. j :
     \E n \in 1 .. Len(audit) : \E m \in 1 .. n : audit[m] = events[i] /\ audit[n] = events[j]

\* The log and its copy agree: an entry names a row that was stored before, no
\* row has two entries, and the copy holds entries of the log in their order.
RecordsAgree ==
  /\ \A i \in 1 .. Len(audit) : audit[i] \in 1 .. Len(incidents)
  /\ IsInjective(audit) /\ IsInjective(events)
  /\ unread \/ CopyFollowsLog

\* An alert is stored more than once only if it was delivered more than once,
\* and a row without an entry is under way or the trace of a fault or a kill.
StraysAreExplained ==
  /\ \A a \in Alerts : Cardinality(RowsOf(a)) <= deliveries[a]
  /\ unread \/ Len(incidents) - Len(audit) - Cardinality(InFlight) <= faults + kills * Cardinality(Slots)

\* No step changes or drops an incident or an entry of the audit log, as long
\* as the log can be read.
AuditOnlyGrows ==
  [][/\ IsPrefix(incidents, incidents')
     /\ IsPrefix(audit, audit') \/ unread']_vars

\* "Audit entries immutable (append-only)" (docs/security-review-checklist.md:764).
AuditIsAppendOnly == [][IsPrefix(audit, audit')]_vars

\* A save of one tenant leaves the others theirs, and its own is never an older
\* one: what the file held of a tenant is gone only after a step in which the
\* file could not be read, or not be written to its end.  What is there after
\* such a step is what was there before, or was saved in it.
OthersKeepTheirs ==
  [][/\ faults' = faults /\ kills' = kills =>
          \A t \in DOMAIN configs : t \in DOMAIN configs' /\ configs'[t] >= configs[t]
     /\ \A t \in DOMAIN configs' :
          \/ t \in DOMAIN configs /\ configs'[t] = configs[t]
          \/ saves' > saves /\ configs'[t] = saves']_vars

\* "Data either fully persisted or not at all", "No partial/corrupted records
\* after hard shutdown" (docs/security-review-checklist.md:331): a configuration
\* whose saving was confirmed is still there.
SavedConfigsSurvive ==
  \A t \in DOMAIN saved : t \in DOMAIN configs /\ configs[t] >= saved[t]

\* What an admitted sender of the native routes tells is accepted in the end.  (A
\* vendor that is answered 400 for a fault of the server does not come back.)
NativeAlertsArrive ==
  \A a \in Alerts : Admitted(a) /\ a.route # "vendor webhook" => <>(sender[a] = "accepted")
=============================================================================
