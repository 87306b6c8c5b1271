----------------------------- MODULE IntakeProofs -----------------------------
(***************************************************************************)
(* What is accepted is on record, for any alerts, any number of deliveries *)
(* at a time and any number of faults and kills.                           *)
(*                                                                         *)
(* The argument: a delivery that has stored its alert names the row that   *)
(* holds it, no row ever changes, and a sender learns 202 in the step that *)
(* adds the entry of that row to the log.  The log loses entries in one    *)
(* step only, and `unread` says so ever after.                             *)
(*                                                                         *)
(* Log and copy: a row enters either with the one delivery that names it,  *)
(* so never twice, and the copy is written right after the log, so what it *)
(* lists is listed there in the same order.  Strays are counted: a row     *)
(* without an entry belongs to a delivery under way, or a fault was spent  *)
(* on it, or a kill on all that were under way.                            *)
(***************************************************************************)
EXTENDS Intake, FiniteSetTheorems, TLAPS

Deliveries == [step: {"admitted", "stored"}, alert: Alerts, row: Nat]

\* The row that a delivery names holds its alert.
StoredIsThere(d) == d.step = "stored" => d.row \in 1 .. Len(incidents) /\ incidents[d.row] = d.alert

Entered(i) == \E n \in 1 .. Len(audit) : audit[n] = i

OnRecord(a) == /\ \E i \in 1 .. Len(incidents) : incidents[i] = a
               /\ unread \/ \E i \in 1 .. Len(incidents) : incidents[i] = a /\ Entered(i)

Shapes ==
  /\ incidents \in Seq(Alerts) /\ audit \in Seq(Nat)
  /\ slot \in [Slots -> {Idle} \cup Deliveries]
  /\ sender \in [Alerts -> {"waiting", "sent", "accepted", "refused"}]
  /\ unread \in BOOLEAN

\* Every alert that was let in is one that may be.
OnlyAdmitted ==
  /\ \A i \in 1 .. Len(incidents) : Admitted(incidents[i])
  /\ \A s \in Slots : slot[s] # Idle => Admitted(slot[s].alert)

SlotsNameTheirRows == \A s \in Slots : slot[s] # Idle => StoredIsThere(slot[s])

AcceptedAreOnRecord == \A a \in Alerts : sender[a] = "accepted" => OnRecord(a)

IntakeInv == Shapes /\ OnlyAdmitted /\ SlotsNameTheirRows /\ AcceptedAreOnRecord

\* A step adds to the table and to the log, or the log could not be read.
RecordsGrow ==
  /\ Len(incidents) <= Len(incidents')
  /\ \A i \in 1 .. Len(incidents) : incidents'[i] = incidents[i]
  /\ unread => unread'
  /\ \/ unread'
     \/ /\ Len(audit) <= Len(audit')
        /\ \A i \in 1 .. Len(audit) : audit'[i] = audit[i]

-----------------------------------------------------------------------------
(* Steps that add *)

LEMMA SlotOf ==
  ASSUME Shapes, NEW s \in Slots
  PROVE  /\ slot[s].step = "idle" \/ slot[s] = Idle => slot[s] = Idle
         /\ slot[s].step \in {"admitted", "stored"} => slot[s] \in Deliveries /\ slot[s] # Idle
BY DEF Shapes, Deliveries, Idle

LEMMA StoredDelivery ==
  ASSUME NEW e \in Deliveries, NEW n \in Nat
  PROVE  LET d == [e EXCEPT !.step = "stored", !.row = n]
         IN d \in Deliveries /\ d.row = n /\ d.alert = e.alert
BY DEF Deliveries

\* What is on record stays there.
LEMMA OnRecordStays ==
  ASSUME Shapes, Shapes', RecordsGrow, NEW a \in Alerts, OnRecord(a)
  PROVE  OnRecord(a)'
<1>1. /\ Len(incidents) \in Nat /\ Len(incidents') \in Nat /\ Len(audit) \in Nat /\ Len(audit') \in Nat
      /\ unread \in BOOLEAN /\ unread' \in BOOLEAN
  BY DEF Shapes
<1>2. \A i \in 1 .. Len(incidents) : i \in 1 .. Len(incidents') /\ incidents'[i] = incidents[i]
  BY <1>1 DEF RecordsGrow
<1>3. ~unread' => \A i : Entered(i) => Entered(i)'
  <2>. SUFFICES ASSUME ~unread', NEW i, Entered(i) PROVE Entered(i)'
    OBVIOUS
  <2>1. PICK n \in 1 .. Len(audit) : audit[n] = i
    BY DEF Entered
  <2>2. n \in 1 .. Len(audit') /\ audit'[n] = i
    BY <1>1, <2>1 DEF RecordsGrow
  <2>. QED BY <2>2 DEF Entered
<1>4. (\E i \in 1 .. Len(incidents) : incidents[i] = a)
        => \E i \in 1 .. Len(incidents') : incidents'[i] = a
  BY <1>2
<1>5. unread' \/ ((\E i \in 1 .. Len(incidents) : incidents[i] = a /\ Entered(i))
                    => \E i \in 1 .. Len(incidents') : incidents'[i] = a /\ Entered(i)')
  BY <1>2, <1>3
<1>6. unread' \/ ~unread
  BY <1>1 DEF RecordsGrow
<1>. QED BY <1>4, <1>5, <1>6 DEF OnRecord

\* With senders that learn nothing good and slots that stay or become free.
LEMMA NothingAccepted ==
  ASSUME IntakeInv, Shapes', RecordsGrow, UNCHANGED incidents,
         \A a \in Alerts : sender'[a] = "accepted" => sender[a] = "accepted",
         \A s \in Slots : slot'[s] = Idle \/ slot'[s] = slot[s]
  PROVE  IntakeInv'
<1>1. OnlyAdmitted'
  BY DEF IntakeInv, OnlyAdmitted, Admitted
<1>2. SlotsNameTheirRows'
  BY DEF IntakeInv, SlotsNameTheirRows, StoredIsThere
<1>3. AcceptedAreOnRecord'
  BY OnRecordStays DEF IntakeInv, AcceptedAreOnRecord
<1>. QED BY <1>1, <1>2, <1>3 DEF IntakeInv

\* The log after an entry, whatever fails on the way.
LEMMA LogGrows ==
  ASSUME Shapes, NEW entry \in Nat, NEW last \in BOOLEAN, write_audit_log(entry, last)
  PROVE  /\ audit' \in Seq(Nat) /\ unread' \in BOOLEAN /\ (unread => unread')
         /\ \/ unread'
            \/ /\ Len(audit) <= Len(audit')
               /\ \A i \in 1 .. Len(audit) : audit'[i] = audit[i]
         /\ Entered(entry)'
<1>1. audit \in Seq(Nat) /\ Len(audit) \in Nat /\ unread \in BOOLEAN
  BY DEF Shapes
<1>2. CASE audit' = Append(audit, entry) /\ UNCHANGED unread
  <2>1. /\ audit' \in Seq(Nat) /\ Len(audit') = Len(audit) + 1
        /\ audit'[Len(audit) + 1] = entry
        /\ \A i \in 1 .. Len(audit) : audit'[i] = audit[i]
    BY <1>1, <1>2
  <2>2. Len(audit) + 1 \in 1 .. Len(audit')
    BY <1>1, <2>1
  <2>. QED BY <1>1, <1>2, <2>1, <2>2 DEF Entered
<1>3. CASE audit' = <<entry>> /\ unread' = TRUE
  <2>1. audit' \in Seq(Nat) /\ Len(audit') = 1 /\ audit'[1] = entry
    BY <1>3
  <2>. QED BY <1>1, <1>3, <2>1 DEF Entered
<1>. QED BY <1>2, <1>3 DEF write_audit_log, Appended

\* A sender learns that it was accepted from a 202 only.
LEMMA LearnsKeeps ==
  ASSUME Shapes, NEW b \in Alerts, NEW status \in {202, 400, 500}, Learns(b, status)
  PROVE  /\ sender' \in [Alerts -> {"waiting", "sent", "accepted", "refused"}]
         /\ \A a \in Alerts : sender'[a] = "accepted" => sender[a] = "accepted" \/ (a = b /\ status = 202)
<1> DEFINE told == CASE status = 202 -> "accepted"
                     [] status = 500 /\ sender[b] # "accepted" -> "waiting"
                     [] status # 500 /\ sender[b] # "accepted" -> "refused"
                     [] OTHER -> sender[b]
<1>1. sender' = [sender EXCEPT ![b] = told]
  BY DEF Learns
<1>2. /\ told \in {"waiting", "sent", "accepted", "refused"}
      /\ told = "accepted" => sender[b] = "accepted" \/ status = 202
  BY DEF Shapes
<1>. HIDE DEF told
<1>3. \A a \in Alerts : sender'[a] = IF a = b THEN told ELSE sender[a]
  BY <1>1 DEF Shapes
<1>. QED BY <1>1, <1>2, <1>3 DEF Shapes

LEMMA FailureIsNot202 == ASSUME NEW route PROVE FailureStatus(route) \in {400, 500}
BY DEF FailureStatus

-----------------------------------------------------------------------------
(* The actions *)

LEMMA InitIntake == Init => IntakeInv
<1>. SUFFICES ASSUME Init PROVE IntakeInv
  OBVIOUS
<1>1. incidents = <<>> /\ audit = <<>> /\ unread = FALSE
  BY DEF Init
<1>2. Shapes
  <2>1. incidents \in Seq(Alerts) /\ audit \in Seq(Nat)
    BY <1>1
  <2>2. /\ slot \in [Slots -> {Idle} \cup Deliveries]
        /\ sender \in [Alerts -> {"waiting", "sent", "accepted", "refused"}]
    BY DEF Init
  <2>. QED BY <1>1, <2>1, <2>2 DEF Shapes
<1>3. Len(incidents) = 0
  BY <1>1
<1>. QED BY <1>2, <1>3 DEF Init, IntakeInv, OnlyAdmitted, SlotsNameTheirRows, AcceptedAreOnRecord

\* A step that leaves the records alone adds to them in the empty way.
LEMMA RecordsStay ==
  ASSUME Shapes, UNCHANGED <<incidents, audit, unread>>
  PROVE  RecordsGrow
BY DEF RecordsGrow, Shapes

LEMMA DeliverKeeps ==
  ASSUME IntakeInv, NEW s \in Slots, NEW a \in Alerts, Deliver(s, a)
  PROVE  IntakeInv' /\ RecordsGrow
<1>1. /\ slot[s] = Idle /\ sender[a] = "waiting"
      /\ UNCHANGED <<incidents, audit, unread>>
  BY DEF Deliver, Files
<1>2. RecordsGrow
  BY <1>1, RecordsStay DEF IntakeInv
<1>3. CASE Admitted(a)
  <2> DEFINE d == [step |-> "admitted", alert |-> a, row |-> 0]
  <2>1. slot' = [slot EXCEPT ![s] = d] /\ sender' = [sender EXCEPT ![a] = "sent"]
    BY <1>3 DEF Deliver
  <2>2. d \in Deliveries /\ d.step # "stored" /\ d.alert = a
    BY DEF Deliveries
  <2>. HIDE DEF d
  <2>3. Shapes'
    BY <1>1, <2>1, <2>2 DEF IntakeInv, Shapes
  <2>4. \A t \in Slots : slot'[t] = IF t = s THEN d ELSE slot[t]
    BY <2>1 DEF IntakeInv, Shapes
  <2>5. \A b \in Alerts : sender'[b] = "accepted" => sender[b] = "accepted"
    BY <2>1 DEF IntakeInv, Shapes
  <2>6. OnlyAdmitted'
    BY <1>1, <1>3, <2>2, <2>4 DEF IntakeInv, OnlyAdmitted, Admitted
  <2>7. SlotsNameTheirRows'
    BY <1>1, <2>2, <2>4 DEF IntakeInv, SlotsNameTheirRows, StoredIsThere
  <2>8. AcceptedAreOnRecord'
    BY <1>2, <2>3, <2>5, OnRecordStays DEF IntakeInv, AcceptedAreOnRecord
  <2>. QED BY <1>2, <2>3, <2>6, <2>7, <2>8 DEF IntakeInv
<1>4. CASE ~Admitted(a)
  <2>1. sender' = [sender EXCEPT ![a] = "refused"] /\ UNCHANGED slot
    BY <1>4 DEF Deliver
  <2>2. Shapes' /\ \A b \in Alerts : sender'[b] = "accepted" => sender[b] = "accepted"
    BY <1>1, <2>1 DEF IntakeInv, Shapes
  <2>. QED BY <1>1, <1>2, <2>1, <2>2, NothingAccepted
<1>. QED BY <1>3, <1>4

LEMMA SenderTimesOutKeeps ==
  ASSUME IntakeInv, NEW a \in Alerts, SenderTimesOut(a)
  PROVE  IntakeInv' /\ RecordsGrow
<1>1. UNCHANGED <<incidents, audit, unread, slot>> /\ sender' = [sender EXCEPT ![a] = "waiting"]
  BY DEF SenderTimesOut, Files
<1>2. Shapes' /\ \A b \in Alerts : sender'[b] = "accepted" => sender[b] = "accepted"
  BY <1>1 DEF IntakeInv, Shapes
<1>. QED BY <1>1, <1>2, RecordsStay, NothingAccepted DEF IntakeInv

LEMMA CreateKeeps ==
  ASSUME IntakeInv, NEW s \in Slots, create_incident(s)
  PROVE  IntakeInv' /\ RecordsGrow
<1> DEFINE a == slot[s].alert
<1>1. /\ slot[s] \in Deliveries /\ slot[s] # Idle /\ a \in Alerts /\ Admitted(a)
      /\ UNCHANGED <<audit, unread>>
  BY SlotOf DEF create_incident, IntakeInv, OnlyAdmitted, Deliveries, Files
<1>2. CASE /\ incidents' = Append(incidents, a)
           /\ slot' = [slot EXCEPT ![s] = [@ EXCEPT !.step = "stored", !.row = Len(incidents) + 1]]
           /\ UNCHANGED sender
  <2> DEFINE d == [slot[s] EXCEPT !.step = "stored", !.row = Len(incidents) + 1]
  <2>1. incidents \in Seq(Alerts) /\ Len(incidents) \in Nat
    BY DEF IntakeInv, Shapes
  <2>2. d \in Deliveries /\ d.row = Len(incidents) + 1 /\ d.alert = a
    <3>1. Len(incidents) + 1 \in Nat
      BY <2>1
    <3>2. slot[s] \in Deliveries
      BY <1>1
    <3>. QED BY <3>1, <3>2, StoredDelivery, Zenon
  <2>3. slot' = [slot EXCEPT ![s] = d]
    BY <1>2
  <2>. HIDE DEF d
  <2>4. /\ incidents' \in Seq(Alerts) /\ Len(incidents') = Len(incidents) + 1
        /\ incidents'[Len(incidents) + 1] = a
        /\ \A i \in 1 .. Len(incidents) : incidents'[i] = incidents[i]
    BY <1>1, <1>2, <2>1
  <2>5. \A i \in 1 .. Len(incidents') : i \in 1 .. Len(incidents) \/ i = Len(incidents) + 1
    BY <2>1, <2>4
  <2>6. Shapes'
    BY <1>1, <1>2, <2>2, <2>3, <2>4 DEF IntakeInv, Shapes
  <2>7. RecordsGrow
    BY <1>1, <2>1, <2>4 DEF RecordsGrow, IntakeInv, Shapes
  <2>8. \A t \in Slots : slot'[t] = IF t = s THEN d ELSE slot[t]
    BY <2>3 DEF IntakeInv, Shapes
  <2>9. OnlyAdmitted'
    BY <1>1, <2>2, <2>4, <2>5, <2>8 DEF IntakeInv, OnlyAdmitted, Admitted
  <2>10. SlotsNameTheirRows'
    BY <2>1, <2>2, <2>4, <2>8 DEF IntakeInv, SlotsNameTheirRows, StoredIsThere
  <2>11. AcceptedAreOnRecord'
    BY <1>2, <2>6, <2>7, OnRecordStays DEF IntakeInv, AcceptedAreOnRecord
  <2>. QED BY <2>6, <2>7, <2>9, <2>10, <2>11 DEF IntakeInv
<1>3. CASE /\ slot' = [slot EXCEPT ![s] = Idle]
           /\ Learns(a, FailureStatus(a.route))
           /\ UNCHANGED incidents
  <2>1. /\ sender' \in [Alerts -> {"waiting", "sent", "accepted", "refused"}]
        /\ \A b \in Alerts : sender'[b] = "accepted" => sender[b] = "accepted"
    BY <1>1, <1>3, LearnsKeeps, FailureIsNot202 DEF IntakeInv
  <2>2. Shapes' /\ \A t \in Slots : slot'[t] = Idle \/ slot'[t] = slot[t]
    BY <1>1, <1>3, <2>1 DEF IntakeInv, Shapes
  <2>. QED BY <1>1, <1>3, <2>1, <2>2, RecordsStay, NothingAccepted DEF IntakeInv
<1>. QED BY <1>2, <1>3 DEF create_incident

LEMMA AnswerKeeps ==
  ASSUME IntakeInv, NEW s \in Slots, audit_and_answer(s)
  PROVE  IntakeInv' /\ RecordsGrow
<1> DEFINE a == slot[s].alert
<1>1. /\ slot[s] \in Deliveries /\ slot[s] # Idle /\ a \in Alerts /\ slot[s].row \in Nat
      /\ slot' = [slot EXCEPT ![s] = Idle] /\ UNCHANGED incidents
  BY SlotOf DEF audit_and_answer, IntakeInv, Deliveries
<1>2. PICK named \in 1 .. Len(incidents) : named = slot[s].row /\ incidents[named] = a
  BY <1>1 DEF audit_and_answer, IntakeInv, SlotsNameTheirRows, StoredIsThere
<1>3. \A t \in Slots : slot'[t] = Idle \/ slot'[t] = slot[t]
  BY <1>1 DEF IntakeInv, Shapes
<1>4. CASE write_audit_log(slot[s].row, FALSE) /\ Learns(a, 202)
  <2>1. /\ audit' \in Seq(Nat) /\ unread' \in BOOLEAN /\ (unread => unread')
        /\ \/ unread'
           \/ /\ Len(audit) <= Len(audit')
              /\ \A i \in 1 .. Len(audit) : audit'[i] = audit[i]
        /\ Entered(named)'
    BY <1>1, <1>2, <1>4, LogGrows DEF IntakeInv
  <2>2. /\ sender' \in [Alerts -> {"waiting", "sent", "accepted", "refused"}]
        /\ \A b \in Alerts : sender'[b] = "accepted" => sender[b] = "accepted" \/ b = a
    BY <1>1, <1>4, LearnsKeeps DEF IntakeInv
  <2>3. Shapes'
    BY <1>1, <2>1, <2>2 DEF IntakeInv, Shapes
  <2>4. RecordsGrow
    BY <1>1, <2>1 DEF RecordsGrow, IntakeInv, Shapes
  <2>5. OnlyAdmitted'
    BY <1>1, <1>3 DEF IntakeInv, OnlyAdmitted, Admitted
  <2>6. SlotsNameTheirRows'
    BY <1>1, <1>3 DEF IntakeInv, SlotsNameTheirRows, StoredIsThere
  <2>7. AcceptedAreOnRecord'
    <3>. SUFFICES ASSUME NEW b \in Alerts, sender'[b] = "accepted" PROVE OnRecord(b)'
      BY DEF AcceptedAreOnRecord
    <3>1. CASE b = a
      BY <1>1, <1>2, <2>1, <3>1 DEF OnRecord
    <3>2. CASE b # a
      BY <2>2, <2>3, <2>4, <3>2, OnRecordStays DEF IntakeInv, AcceptedAreOnRecord
    <3>. QED BY <3>1, <3>2
  <2>. QED BY <2>3, <2>4, <2>5, <2>6, <2>7 DEF IntakeInv
<1>5. CASE Learns(a, FailureStatus(a.route)) /\ UNCHANGED Files
  <2>1. /\ sender' \in [Alerts -> {"waiting", "sent", "accepted", "refused"}]
        /\ \A b \in Alerts : sender'[b] = "accepted" => sender[b] = "accepted"
    BY <1>1, <1>5, LearnsKeeps, FailureIsNot202 DEF IntakeInv
  <2>2. UNCHANGED <<audit, unread>>
    BY <1>5 DEF Files
  <2>3. Shapes'
    BY <1>1, <2>1, <2>2 DEF IntakeInv, Shapes
  <2>. QED BY <1>1, <1>3, <2>1, <2>2, <2>3, RecordsStay, NothingAccepted DEF IntakeInv
<1>. QED BY <1>4, <1>5 DEF audit_and_answer

LEMMA SaveKeeps ==
  ASSUME IntakeInv, NEW t, update_bootstrap_config(t)
  PROVE  IntakeInv' /\ RecordsGrow
<1>1. UNCHANGED <<incidents, audit, unread, slot, sender>>
  BY DEF update_bootstrap_config, Files
<1>2. Shapes'
  BY <1>1 DEF IntakeInv, Shapes
<1>. QED BY <1>1, <1>2, RecordsStay, NothingAccepted DEF IntakeInv

LEMMA KillKeeps ==
  ASSUME IntakeInv, Kill
  PROVE  IntakeInv' /\ RecordsGrow
<1>1. UNCHANGED incidents /\ slot' = [s \in Slots |-> Idle]
  BY DEF Kill, Ended
<1>2. /\ sender' \in [Alerts -> {"waiting", "sent", "accepted", "refused"}]
      /\ \A b \in Alerts : sender'[b] = "accepted" => sender[b] = "accepted"
  BY DEF Kill, Disconnected, IntakeInv, Shapes
<1>3. /\ audit' \in Seq(Nat) /\ unread' \in BOOLEAN /\ (unread => unread')
      /\ \/ unread'
         \/ /\ Len(audit) <= Len(audit')
            /\ \A i \in 1 .. Len(audit) : audit'[i] = audit[i]
  <2>1. CASE UNCHANGED Files
    BY <2>1 DEF Files, IntakeInv, Shapes
  <2>2. CASE \E s \in Slots : slot[s].step = "stored" /\ write_audit_log(slot[s].row, TRUE)
    <3>1. PICK s \in Slots : slot[s].step = "stored" /\ write_audit_log(slot[s].row, TRUE)
      BY <2>2
    <3>2. slot[s].row \in Nat
      BY <3>1, SlotOf DEF IntakeInv, Deliveries
    <3>. QED BY <3>1, <3>2, LogGrows DEF IntakeInv
  <2>. QED BY <2>1, <2>2 DEF Kill
<1>4. Shapes'
  BY <1>1, <1>2, <1>3 DEF IntakeInv, Shapes
<1>5. RecordsGrow
  BY <1>1, <1>3 DEF RecordsGrow, IntakeInv, Shapes
<1>6. \A s \in Slots : slot'[s] = Idle
  BY <1>1
<1>. QED BY <1>1, <1>2, <1>4, <1>5, <1>6, NothingAccepted

LEMMA OtherKeeps ==
  ASSUME IntakeInv, OtherEntry
  PROVE  IntakeInv' /\ RecordsGrow
<1>1. /\ UNCHANGED <<incidents, slot, sender>>
      /\ UNCHANGED <<audit, unread>> \/ (audit' = <<>> /\ unread' = TRUE)
  BY DEF OtherEntry
<1>2. audit' \in Seq(Nat) /\ unread' \in BOOLEAN
  <2>1. <<>> \in Seq(Nat)
    OBVIOUS
  <2>. QED BY <1>1, <2>1 DEF IntakeInv, Shapes
<1>3. Shapes'
  BY <1>1, <1>2 DEF IntakeInv, Shapes
<1>4. RecordsGrow
  BY <1>1 DEF RecordsGrow, IntakeInv, Shapes
<1>. QED BY <1>1, <1>3, <1>4, NothingAccepted

LEMMA NextIntake == IntakeInv /\ [Next]_vars => IntakeInv' /\ RecordsGrow
<1>. SUFFICES ASSUME IntakeInv, [Next]_vars PROVE IntakeInv' /\ RecordsGrow
  OBVIOUS
<1>1. CASE UNCHANGED vars
  <2>1. UNCHANGED <<incidents, audit, unread, slot, sender>>
    BY <1>1 DEF vars
  <2>2. Shapes'
    BY <2>1 DEF IntakeInv, Shapes
  <2>. QED BY <2>1, <2>2, RecordsStay, NothingAccepted DEF IntakeInv
<1>. QED BY <1>1, DeliverKeeps, SenderTimesOutKeeps, CreateKeeps, AnswerKeeps, SaveKeeps, KillKeeps, OtherKeeps
         DEF Next, Handle

LEMMA IntakeInvariance == Spec => []IntakeInv
<1>. QED BY InitIntake, NextIntake, PTL DEF Spec

-----------------------------------------------------------------------------
(* What follows *)

\* A sender that was told 202 has its alert in the table and, unless the log
\* once could not be read, an entry about it in the audit log, through any
\* interleaving of deliveries, failed writes and kills (app.py:803, audit.py:71).
THEOREM AcceptedIsRecorded == Spec => []AcceptedIsOnRecord
<1>1. ASSUME IntakeInv PROVE AcceptedIsOnRecord
  <2>. SUFFICES ASSUME NEW a \in Alerts, sender[a] = "accepted"
                PROVE  RowsOf(a) # {} /\ (unread \/ \E i \in RowsOf(a) : Contains(audit, i))
    BY DEF AcceptedIsOnRecord
  <2>1. OnRecord(a)
    BY <1>1 DEF IntakeInv, AcceptedAreOnRecord
  <2>2. \A i : Entered(i) => Contains(audit, i)
    BY DEF Entered, Contains
  <2>. QED BY <2>1, <2>2 DEF OnRecord, RowsOf
<1>. QED BY <1>1, IntakeInvariance, PTL

\* No incident is of a tenant that is not allowed, and those that came through
\* the operators' routes were reported by one who may (app.py:803, auth.py).
THEOREM OnlyAdmittedAreStored ==
  Spec => [](\A i \in 1 .. Len(incidents) : Admitted(incidents[i]))
<1>1. IntakeInv => \A i \in 1 .. Len(incidents) : Admitted(incidents[i])
  BY DEF IntakeInv, OnlyAdmitted
<1>. QED BY <1>1, IntakeInvariance, PTL

\* Incidents and audit entries are only added, as long as the log can be read
\* (audit.py:71, repositories.py).
THEOREM RecordsOnlyGrow == Spec => AuditOnlyGrows
<1>1. IntakeInv /\ [Next]_vars
        => [IsPrefix(incidents, incidents') /\ (IsPrefix(audit, audit') \/ unread')]_vars
  <2>. SUFFICES ASSUME IntakeInv, [Next]_vars
                PROVE  IsPrefix(incidents, incidents') /\ (IsPrefix(audit, audit') \/ unread')
    OBVIOUS
  <2>1. RecordsGrow
    BY NextIntake
  <2>2. /\ Len(incidents) \in Nat /\ Len(audit) \in Nat
        /\ DOMAIN incidents = 1 .. Len(incidents) /\ DOMAIN audit = 1 .. Len(audit)
    BY DEF IntakeInv, Shapes
  <2>. QED BY <2>1, <2>2 DEF RecordsGrow, IsPrefix
<1>. QED BY <1>1, IntakeInvariance, PTL DEF Spec, AuditOnlyGrows

-----------------------------------------------------------------------------
(* The counters and the configurations *)

\* A configuration was saved, and not after the newest one.
Versions == /\ \A t \in DOMAIN configs : t \in Tenants /\ configs[t] \in 0 .. saves
            /\ DOMAIN saved \subseteq Tenants

Counters == /\ saves \in 0 .. MaxSaves /\ faults \in 0 .. MaxFaults /\ kills \in 0 .. MaxKills
            /\ deliveries \in [Alerts -> Nat]

\* What a step does to the configurations.
Kept ==
  /\ faults' = faults /\ kills' = kills =>
        \A t \in DOMAIN configs : t \in DOMAIN configs' /\ configs'[t] >= configs[t]
  /\ \A t \in DOMAIN configs' :
        \/ t \in DOMAIN configs /\ configs'[t] = configs[t]
        \/ saves' > saves /\ configs'[t] = saves'

CountersInv == Counters /\ Versions

LEMMA CountersFromFault ==
  ASSUME CountersInv, UNCHANGED <<deliveries, configs, saved, saves, kills>>,
         UNCHANGED faults \/ (MayFail /\ Fault)
  PROVE  CountersInv' /\ Kept
BY IntakeAssumption DEF CountersInv, Counters, Versions, Kept, MayFail, Fault

\* Writing the log costs a fault at most.
LEMMA LogMayFail ==
  ASSUME NEW entry, NEW last, write_audit_log(entry, last)
  PROVE  UNCHANGED faults \/ (MayFail /\ Fault)
BY DEF write_audit_log

LEMMA SaveCounts ==
  ASSUME CountersInv, NEW t \in Tenants, update_bootstrap_config(t)
  PROVE  CountersInv' /\ Kept
<1>1. /\ saves < MaxSaves /\ saves' = saves + 1
      /\ UNCHANGED <<deliveries, kills>>
  BY DEF update_bootstrap_config
<1>2. saves \in Nat /\ faults \in Nat /\ \A x \in DOMAIN configs : x \in Tenants /\ configs[x] \in 0 .. saves
  BY IntakeAssumption DEF CountersInv, Counters, Versions
<1>3. CASE /\ \E read \in load_bootstrap_configs :
                /\ configs' = Saved(read, t, saves + 1)
                /\ IF read = configs THEN UNCHANGED faults ELSE Fault
           /\ saved' = [x \in DOMAIN saved \cup {t} |-> IF x = t THEN saves + 1 ELSE saved[x]]
  <2>1. PICK read \in load_bootstrap_configs :
               /\ configs' = Saved(read, t, saves + 1)
               /\ IF read = configs THEN UNCHANGED faults ELSE Fault
    BY <1>3
  <2>2. read = configs \/ (MayFail /\ read = Torn)
    BY DEF load_bootstrap_configs
  <2>3. DOMAIN read \subseteq DOMAIN configs /\ \A x \in DOMAIN read : read[x] = configs[x]
    BY <2>2 DEF Torn
  <2>4. /\ DOMAIN configs' = DOMAIN read \cup {t}
        /\ \A x \in DOMAIN configs' : configs'[x] = IF x = t THEN saves + 1 ELSE read[x]
    BY <2>1 DEF Saved
  <2>5. DOMAIN saved' = DOMAIN saved \cup {t}
    BY <1>3
  <2>6. Counters'
    BY <1>1, <2>1, <2>2, IntakeAssumption DEF CountersInv, Counters, MayFail, Fault
  <2>7. \A x \in DOMAIN configs' : x \in Tenants /\ configs'[x] \in 0 .. saves'
    BY <1>1, <1>2, <2>3, <2>4
  <2>8. Versions'
    BY <2>5, <2>7 DEF Versions, CountersInv
  <2>9. \A x \in DOMAIN configs' :
           \/ x \in DOMAIN configs /\ configs'[x] = configs[x]
           \/ saves' > saves /\ configs'[x] = saves'
    BY <1>1, <1>2, <2>3, <2>4
  <2>10. faults' = faults => \A x \in DOMAIN configs : x \in DOMAIN configs' /\ configs'[x] >= configs[x]
    <3>1. faults' = faults => read = configs
      BY <1>2, <2>1 DEF Fault
    <3>. QED BY <1>2, <2>4, <3>1
  <2>. QED BY <2>6, <2>8, <2>9, <2>10 DEF CountersInv, Kept
<1>4. CASE MayFail /\ Fault /\ configs' = Torn /\ UNCHANGED saved
  <2>1. DOMAIN configs' = {} /\ faults' # faults
    BY <1>2, <1>4 DEF Torn, Fault
  <2>2. Counters'
    BY <1>1, <1>4, IntakeAssumption DEF CountersInv, Counters, MayFail, Fault
  <2>. QED BY <1>4, <2>1, <2>2 DEF CountersInv, Versions, Kept
<1>. QED BY <1>3, <1>4 DEF update_bootstrap_config

LEMMA KillCounts ==
  ASSUME CountersInv, Kill
  PROVE  CountersInv' /\ Kept
<1>1. /\ kills < MaxKills /\ kills' = kills + 1
      /\ UNCHANGED <<deliveries, saved, saves>>
  BY DEF Kill
<1>2. UNCHANGED faults \/ (MayFail /\ Fault)
  BY LogMayFail DEF Kill
<1>3. UNCHANGED configs \/ configs' = Torn
  BY DEF Kill
<1>4. Counters'
  BY <1>1, <1>2, IntakeAssumption DEF CountersInv, Counters, MayFail, Fault
<1>5. Versions'
  BY <1>1, <1>3 DEF CountersInv, Versions, Torn
<1>6. Kept
  <2>1. kills \in Nat
    BY IntakeAssumption DEF CountersInv, Counters
  <2>. QED BY <1>1, <1>3, <2>1 DEF Kept, Torn
<1>. QED BY <1>4, <1>5, <1>6 DEF CountersInv

LEMMA NextCounts ==
  ASSUME CountersInv, [Next]_vars
  PROVE  CountersInv' /\ Kept
<1>1. ASSUME NEW s \in Slots, Handle(s) PROVE CountersInv' /\ Kept
  <2>1. UNCHANGED <<deliveries, configs, saved, saves, kills>>
    BY <1>1 DEF Handle, create_incident, audit_and_answer, Tenancy
  <2>2. UNCHANGED faults \/ (MayFail /\ Fault)
    BY <1>1, LogMayFail DEF Handle, create_incident, audit_and_answer
  <2>. QED BY <2>1, <2>2, CountersFromFault
<1>2. ASSUME NEW a \in Alerts, SenderTimesOut(a)
      PROVE  CountersInv' /\ Kept
  BY <1>2, CountersFromFault DEF SenderTimesOut, Tenancy
<1>3. ASSUME NEW a \in Alerts, NEW s \in Slots, Deliver(s, a)
      PROVE  CountersInv' /\ Kept
  <2>1. /\ UNCHANGED <<configs, saved, saves, kills, faults>>
        /\ deliveries' = [deliveries EXCEPT ![a] = @ + 1]
    BY <1>3 DEF Deliver, Tenancy
  <2>. QED BY <2>1, IntakeAssumption DEF CountersInv, Counters, Versions, Kept
<1>4. CASE UNCHANGED vars
  BY <1>4, CountersFromFault DEF vars
<1>5. CASE OtherEntry
  BY <1>5, CountersFromFault DEF OtherEntry, Tenancy
<1>. QED BY <1>1, <1>2, <1>3, <1>4, <1>5, SaveCounts, KillCounts DEF Next

LEMMA CountersInvariance == Spec => []CountersInv
<1>1. Init => CountersInv
  BY IntakeAssumption DEF Init, Torn, CountersInv, Counters, Versions
<1>2. CountersInv /\ [Next]_vars => CountersInv'
  BY NextCounts
<1>. QED BY <1>1, <1>2, PTL DEF Spec

\* Variables keep their types, counters stay in their bounds and every row is
\* of an alert that was admitted (app.py:803, auth.py).
THEOREM IntakeTypes == Spec => []TypeOK
<1>1. IntakeInv /\ CountersInv => TypeOK
  <2>. SUFFICES ASSUME IntakeInv, CountersInv PROVE TypeOK
    OBVIOUS
  <2>1. \A s \in Slots : slot[s].step \in {"idle", "admitted", "stored"}
    BY DEF IntakeInv, Shapes, Idle, Deliveries
  <2>2. \A a \in Alerts : sender[a] \in {"waiting", "sent", "accepted", "refused"}
    BY DEF IntakeInv, Shapes
  <2>3. \A i \in 1 .. Len(incidents) : Admitted(incidents[i])
    BY DEF IntakeInv, OnlyAdmitted
  <2>. QED BY <2>1, <2>2, <2>3 DEF TypeOK, CountersInv, Counters, Versions
<1>. QED BY <1>1, IntakeInvariance, CountersInvariance, PTL

\* Saving the configuration of a tenant leaves those of the others as they are,
\* and its own does not fall back; a step that loses any is one in which the
\* file could not be read or written, or the process was killed, and it puts
\* nothing there but what was saved in it (tenancy.py:37, :112).
THEOREM ConfigsAreKept == Spec => OthersKeepTheirs
<1>1. CountersInv /\ [Next]_vars
        => [/\ faults' = faults /\ kills' = kills =>
                  \A t \in DOMAIN configs : t \in DOMAIN configs' /\ configs'[t] >= configs[t]
            /\ \A t \in DOMAIN configs' :
                  \/ t \in DOMAIN configs /\ configs'[t] = configs[t]
                  \/ saves' > saves /\ configs'[t] = saves']_vars
  BY NextCounts DEF Kept
<1>. QED BY <1>1, CountersInvariance, PTL DEF Spec, OthersKeepTheirs

-----------------------------------------------------------------------------
(* The log, its copy and the rows without an entry *)

Once(file) == \A m, n \in 1 .. Len(file) : file[m] = file[n] => m = n
Lists(file, i) == \E n \in 1 .. Len(file) : file[n] = i
Stored(s) == slot[s].step = "stored"

\* A row has one entry, written when its delivery, the only one to name it, ends.
RowsOnce ==
  /\ \A n \in 1 .. Len(audit) : audit[n] \in 1 .. Len(incidents)
  /\ \A n \in 1 .. Len(events) : events[n] \in 1 .. Len(incidents)
  /\ Once(audit) /\ Once(events)
  /\ \A s \in Slots : Stored(s) => ~Lists(audit, slot[s].row) /\ ~Lists(events, slot[s].row)
  /\ \A s, t \in Slots : Stored(s) /\ Stored(t) /\ slot[s].row = slot[t].row => s = t

LedgerInv == events \in Seq(Nat) /\ RowsOnce /\ (unread \/ CopyFollowsLog)

\* The deliveries that go on name the rows they named before.
SlotsLeave == \A t \in Slots : Stored(t)' => Stored(t) /\ slot'[t].row = slot[t].row

LEMMA LedgerStays ==
  ASSUME LedgerInv, IntakeInv, UNCHANGED Files, RecordsGrow, Shapes', SlotsLeave
  PROVE  LedgerInv'
<1>1. UNCHANGED <<audit, events, unread>> /\ Len(incidents) \in Nat /\ Len(incidents') \in Nat
      /\ Len(incidents) <= Len(incidents')
  BY DEF Files, RecordsGrow, IntakeInv, Shapes
<1>2. \A i \in 1 .. Len(incidents) : i \in 1 .. Len(incidents')
  BY <1>1
<1>3. RowsOnce'
  <2>1. /\ \A n \in 1 .. Len(audit') : audit'[n] \in 1 .. Len(incidents')
        /\ \A n \in 1 .. Len(events') : events'[n] \in 1 .. Len(incidents')
    BY <1>1, <1>2 DEF LedgerInv, RowsOnce
  <2>2. Once(audit)' /\ Once(events)'
    BY <1>1 DEF LedgerInv, RowsOnce, Once
  <2>3. \A s \in Slots : Stored(s)' => ~Lists(audit, slot[s].row)' /\ ~Lists(events, slot[s].row)'
    BY <1>1 DEF LedgerInv, RowsOnce, Lists, SlotsLeave
  <2>4. \A s, t \in Slots : Stored(s)' /\ Stored(t)' /\ slot'[s].row = slot'[t].row => s = t
    BY DEF LedgerInv, RowsOnce, SlotsLeave
  <2>. QED BY <2>1, <2>2, <2>3, <2>4 DEF RowsOnce
<1>4. (unread \/ CopyFollowsLog)'
  BY <1>1 DEF LedgerInv, CopyFollowsLog
<1>. QED BY <1>1, <1>3, <1>4 DEF LedgerInv

\* A file of which no entry is e keeps its entries apart when e is added.
LEMMA OnceMore ==
  ASSUME NEW file \in Seq(Nat), NEW e \in Nat, Once(file), ~Lists(file, e)
  PROVE  /\ Once(Append(file, e))
         /\ \A i : Lists(Append(file, e), i) => Lists(file, i) \/ i = e
<1> DEFINE longer == Append(file, e)
<1>1. /\ Len(file) \in Nat /\ Len(longer) = Len(file) + 1 /\ longer[Len(file) + 1] = e
      /\ \A n \in 1 .. Len(file) : longer[n] = file[n]
  OBVIOUS
<1>2. \A n \in 1 .. Len(longer) : n \in 1 .. Len(file) \/ n = Len(file) + 1
  BY <1>1
<1>. HIDE DEF longer
<1>3. Once(longer)
  BY <1>1, <1>2 DEF Once, Lists
<1>4. \A i : Lists(longer, i) => Lists(file, i) \/ i = e
  BY <1>1, <1>2 DEF Lists
<1>. QED BY <1>3, <1>4 DEF longer

LEMMA OnlyOne ==
  ASSUME NEW e \in Nat
  PROVE  Once(<<e>>) /\ \A i : Lists(<<e>>, i) => i = e
BY DEF Once, Lists

\* The four ways the log can end.
LEMMA LogEnds ==
  ASSUME NEW e, NEW last, write_audit_log(e, last)
  PROVE  \/ audit' = Append(audit, e) /\ events' = Append(events, e) /\ unread' = unread
         \/ audit' = Append(audit, e) /\ events' = events /\ unread' = unread
         \/ audit' = Append(audit, e) /\ events' = <<e>> /\ unread' = unread
         \/ audit' = <<e>> /\ events' = Append(events, e) /\ unread' = TRUE
BY DEF write_audit_log, Appended

\* The copy follows the log when the log is longer or both have a new last entry.
LEMMA FollowsOn ==
  ASSUME audit \in Seq(Nat), events \in Seq(Nat), CopyFollowsLog, NEW e \in Nat,
         audit' = Append(audit, e),
         events' = events \/ events' = Append(events, e) \/ events' = <<e>>
  PROVE  CopyFollowsLog'
<1>1. /\ Len(audit) \in Nat /\ Len(audit') = Len(audit) + 1 /\ audit'[Len(audit) + 1] = e
      /\ \A n \in 1 .. Len(audit) : audit'[n] = audit[n]
      /\ Len(events) \in Nat
  OBVIOUS
<1> DEFINE After(x, y) == \E n \in 1 .. Len(audit') : \E m \in 1 .. n : audit'[m] = x /\ audit'[n] = y
<1>2. \A j \in 1 .. Len(events) : \A i \in 1 .. j : After(events[i], events[j])
  <2>. SUFFICES ASSUME NEW j \in 1 .. Len(events), NEW i \in 1 .. j
                PROVE  After(events[i], events[j])
    OBVIOUS
  <2>1. PICK n \in 1 .. Len(audit) : \E m \in 1 .. n : audit[m] = events[i] /\ audit[n] = events[j]
    BY DEF CopyFollowsLog
  <2>2. PICK m \in 1 .. n : audit[m] = events[i] /\ audit[n] = events[j]
    BY <2>1
  <2>3. n \in 1 .. Len(audit') /\ m \in 1 .. Len(audit)
    BY <1>1
  <2>. QED BY <1>1, <2>2, <2>3
<1>3. CASE events' = events
  <2>1. \A j \in 1 .. Len(events') : \A i \in 1 .. j : After(events'[i], events'[j])
    BY <1>2, <1>3
  <2>. QED BY <2>1 DEF CopyFollowsLog
<1>4. CASE events' = Append(events, e)
  <2>1. /\ Len(events') = Len(events) + 1 /\ events'[Len(events) + 1] = e
        /\ \A n \in 1 .. Len(events) : events'[n] = events[n]
    BY <1>4
  <2>. SUFFICES ASSUME NEW j \in 1 .. Len(events'), NEW i \in 1 .. j
                PROVE  After(events'[i], events'[j])
    BY DEF CopyFollowsLog
  <2>2. CASE j \in 1 .. Len(events)
    <3>1. i \in 1 .. Len(events)
      BY <1>1, <2>2
    <3>2. After(events[i], events[j])
      BY <1>2, <2>2
    <3>. QED BY <2>1, <2>2, <3>1, <3>2
  <2>3. CASE j = Len(events) + 1
    <3>1. Len(audit) + 1 \in 1 .. Len(audit') /\ audit'[Len(audit) + 1] = events'[j]
      BY <1>1, <2>1, <2>3
    <3>2. CASE i \in 1 .. Len(events)
      <4>1. PICK n \in 1 .. Len(audit) : \E m \in 1 .. n : audit[m] = events[i]
        <5>1. i \in 1 .. i
          BY <3>2, <1>1
        <5>. QED BY <3>2, <5>1 DEF CopyFollowsLog
      <4>2. PICK m \in 1 .. n : audit[m] = events[i]
        BY <4>1
      <4>3. m \in 1 .. Len(audit) /\ m \in 1 .. Len(audit) + 1
        BY <1>1
      <4>4. audit'[m] = events'[i]
        BY <1>1, <2>1, <3>2, <4>2, <4>3
      <4>. QED BY <3>1, <4>3, <4>4
    <3>3. CASE i = Len(events) + 1
      <4>1. Len(audit) + 1 \in 1 .. Len(audit) + 1
        BY <1>1
      <4>. QED BY <2>3, <3>1, <3>3, <4>1
    <3>4. i \in 1 .. Len(events) \/ i = Len(events) + 1
      BY <1>1, <2>3
    <3>. HIDE DEF After
    <3>. QED BY <3>2, <3>3, <3>4
  <2>4. j \in 1 .. Len(events) \/ j = Len(events) + 1
    BY <1>1, <2>1
  <2>. HIDE DEF After
  <2>. QED BY <2>2, <2>3, <2>4
<1>5. CASE events' = <<e>>
  <2>1. Len(events') = 1 /\ events'[1] = e /\ Len(audit) + 1 \in 1 .. Len(audit')
        /\ Len(audit) + 1 \in 1 .. Len(audit) + 1
    BY <1>1, <1>5
  <2>2. After(e, e)
    BY <1>1, <2>1
  <2>. HIDE DEF After
  <2>3. \A j \in 1 .. Len(events') : \A i \in 1 .. j : After(events'[i], events'[j])
    <3>1. \A j \in 1 .. Len(events') : \A i \in 1 .. j : i = 1 /\ j = 1
      BY <2>1
    <3>. QED BY <2>1, <2>2, <3>1
  <2>. USE DEF After
  <2>. QED BY <2>3 DEF CopyFollowsLog
<1>. QED BY <1>3, <1>4, <1>5

\* An entry is written for a delivery that ends with it.
LEMMA LedgerWritten ==
  ASSUME LedgerInv, IntakeInv, NEW s \in Slots, Stored(s), NEW last \in BOOLEAN,
         write_audit_log(slot[s].row, last), UNCHANGED incidents, SlotsLeave, ~Stored(s)'
  PROVE  LedgerInv'
<1>1. PICK e \in Nat : e = slot[s].row /\ e \in 1 .. Len(incidents)
  <2>1. slot[s] \in Deliveries /\ slot[s] # Idle
    BY SlotOf DEF IntakeInv, Stored
  <2>. QED BY <2>1 DEF IntakeInv, SlotsNameTheirRows, StoredIsThere, Stored, Deliveries
<1>2. /\ audit \in Seq(Nat) /\ events \in Seq(Nat)
      /\ Once(audit) /\ Once(events) /\ ~Lists(audit, e) /\ ~Lists(events, e)
  BY <1>1 DEF IntakeInv, Shapes, LedgerInv, RowsOnce
<1>3. \/ audit' = Append(audit, e) /\ events' = Append(events, e) /\ unread' = unread
      \/ audit' = Append(audit, e) /\ events' = events /\ unread' = unread
      \/ audit' = Append(audit, e) /\ events' = <<e>> /\ unread' = unread
      \/ audit' = <<e>> /\ events' = Append(events, e) /\ unread' = TRUE
  BY <1>1, LogEnds
<1>4. /\ audit' \in Seq(Nat) /\ Once(audit)' /\ \A i : Lists(audit, i)' => Lists(audit, i) \/ i = e
  <2>1. CASE audit' = Append(audit, e)
    BY <1>2, <2>1, OnceMore DEF Once, Lists
  <2>2. CASE audit' = <<e>>
    BY <1>2, <2>2, OnlyOne DEF Once, Lists
  <2>. QED BY <1>3, <2>1, <2>2
<1>5. /\ events' \in Seq(Nat) /\ Once(events)' /\ \A i : Lists(events, i)' => Lists(events, i) \/ i = e
  <2>1. CASE events' = Append(events, e)
    BY <1>2, <2>1, OnceMore DEF Once, Lists
  <2>2. CASE events' = events
    BY <1>2, <2>2 DEF Once, Lists
  <2>3. CASE events' = <<e>>
    BY <1>2, <2>3, OnlyOne DEF Once, Lists
  <2>. QED BY <1>3, <2>1, <2>2, <2>3
<1>6. \A i : Lists(audit, i) \/ Lists(events, i) => i \in 1 .. Len(incidents)
  BY DEF LedgerInv, RowsOnce, Lists
<1>7. /\ \A n \in 1 .. Len(audit') : Lists(audit, audit[n])'
      /\ \A n \in 1 .. Len(events') : Lists(events, events[n])'
  BY DEF Lists
<1>8. RowsOnce'
  <2>1. /\ \A n \in 1 .. Len(audit') : audit'[n] \in 1 .. Len(incidents')
        /\ \A n \in 1 .. Len(events') : events'[n] \in 1 .. Len(incidents')
    BY <1>1, <1>4, <1>5, <1>6, <1>7
  <2>2. \A t \in Slots : Stored(t)' => Stored(t) /\ slot'[t].row = slot[t].row /\ slot[t].row # e
    BY <1>1 DEF SlotsLeave, LedgerInv, RowsOnce
  <2>3. \A t \in Slots : Stored(t)' => ~Lists(audit, slot[t].row)' /\ ~Lists(events, slot[t].row)'
    <3>. SUFFICES ASSUME NEW t \in Slots, Stored(t)'
                  PROVE  ~Lists(audit, slot[t].row)' /\ ~Lists(events, slot[t].row)'
      OBVIOUS
    <3>1. ~Lists(audit, slot[t].row) /\ ~Lists(events, slot[t].row)
      BY <2>2 DEF LedgerInv, RowsOnce
    <3>2. ~Lists(audit, slot[t].row)' <=> ~Lists(audit', slot[t].row)
      BY <2>2 DEF Lists
    <3>3. ~Lists(events, slot[t].row)' <=> ~Lists(events', slot[t].row)
      BY <2>2 DEF Lists
    <3>4. (\A i : Lists(audit', i) => Lists(audit, i) \/ i = e) /\ \A i : Lists(events', i) => Lists(events, i) \/ i = e
      BY <1>4, <1>5 DEF Lists
    <3>. QED BY <2>2, <3>1, <3>2, <3>3, <3>4
  <2>4. \A t, u \in Slots : Stored(t)' /\ Stored(u)' /\ slot'[t].row = slot'[u].row => t = u
    BY <2>2 DEF LedgerInv, RowsOnce
  <2>. QED BY <1>4, <1>5, <2>1, <2>3, <2>4 DEF RowsOnce
<1>9. (unread \/ CopyFollowsLog)'
  BY <1>2, <1>3, FollowsOn DEF LedgerInv
<1>. QED BY <1>5, <1>8, <1>9 DEF LedgerInv

\* Deliveries that were let in and have not stored their alert.
Pending(a) == {s \in Slots : slot[s].step = "admitted" /\ slot[s].alert = a}

StraysInv ==
  /\ \A a \in Alerts : Cardinality(RowsOf(a)) + Cardinality(Pending(a)) <= deliveries[a]
  /\ unread \/ Len(incidents) - Len(audit) - Cardinality(InFlight) <= faults + kills * Cardinality(Slots)

LEMMA Finite ==
  ASSUME IntakeInv
  PROVE  /\ IsFiniteSet(InFlight) /\ Cardinality(InFlight) \in 0 .. Cardinality(Slots)
         /\ Cardinality(Slots) \in Nat
         /\ \A a : /\ IsFiniteSet(RowsOf(a)) /\ Cardinality(RowsOf(a)) \in Nat
                   /\ IsFiniteSet(Pending(a)) /\ Cardinality(Pending(a)) \in Nat
<1>1. IsFiniteSet(Slots) /\ Cardinality(Slots) \in Nat
  BY IntakeAssumption, FS_CardinalityType
<1>2. IsFiniteSet(InFlight) /\ Cardinality(InFlight) <= Cardinality(Slots)
  BY <1>1, FS_Subset DEF InFlight
<1>3. Cardinality(InFlight) \in Nat
  BY <1>2, FS_CardinalityType
<1>4. Len(incidents) \in Nat
  BY DEF IntakeInv, Shapes
<1>5. IsFiniteSet(1 .. Len(incidents))
  BY <1>4, FS_Interval
<1>6. ASSUME NEW a
      PROVE  /\ IsFiniteSet(RowsOf(a)) /\ Cardinality(RowsOf(a)) \in Nat
             /\ IsFiniteSet(Pending(a)) /\ Cardinality(Pending(a)) \in Nat
  <2>1. RowsOf(a) \in SUBSET (1 .. Len(incidents)) /\ Pending(a) \in SUBSET Slots
    BY DEF RowsOf, Pending
  <2>2. IsFiniteSet(RowsOf(a)) /\ IsFiniteSet(Pending(a))
    BY <1>1, <1>5, <2>1, FS_Subset
  <2>. QED BY <2>2, FS_CardinalityType
<1>. QED BY <1>1, <1>2, <1>3, <1>6

\* Deliveries that end before they stored their alert leave no stray.
LEMMA StraysStay ==
  ASSUME StraysInv, IntakeInv, CountersInv, UNCHANGED <<incidents, audit, unread, kills, deliveries>>,
         faults' \in {faults, faults + 1},
         \A t \in Slots : Stored(t)' <=> Stored(t),
         \A t \in Slots : slot'[t].step = "admitted" => slot'[t] = slot[t]
  PROVE  StraysInv'
<1>1. InFlight' = InFlight
  BY DEF InFlight, Stored
<1>2. ASSUME NEW a \in Alerts
      PROVE  Cardinality(RowsOf(a)') + Cardinality(Pending(a)') <= deliveries'[a]
  <2>1. RowsOf(a)' = RowsOf(a)
    BY DEF RowsOf
  <2>2. Pending(a)' \in SUBSET Pending(a)
    BY DEF Pending
  <2>3. /\ Cardinality(Pending(a)') <= Cardinality(Pending(a))
        /\ Cardinality(Pending(a)') \in Nat
    BY <2>2, Finite, FS_Subset, FS_CardinalityType
  <2>4. Cardinality(RowsOf(a)) + Cardinality(Pending(a)) <= deliveries[a] /\ deliveries[a] \in Nat
    BY DEF StraysInv, CountersInv, Counters
  <2>. QED BY <2>1, <2>3, <2>4, Finite
<1>3. unread' \/ Len(incidents') - Len(audit') - Cardinality(InFlight') <= faults' + kills' * Cardinality(Slots)
  <2>1. PICK product : product = kills * Cardinality(Slots)
    OBVIOUS
  <2>2. product \in Nat /\ faults \in Nat /\ Cardinality(InFlight) \in Nat
    BY <2>1, Finite, IntakeAssumption DEF CountersInv, Counters
  <2>3. Len(incidents) \in Nat /\ Len(audit) \in Nat
    BY DEF IntakeInv, Shapes
  <2>4. unread \/ Len(incidents) - Len(audit) - Cardinality(InFlight) <= faults + product
    BY <2>1 DEF StraysInv
  <2>5. unread' \/ Len(incidents) - Len(audit) - Cardinality(InFlight) <= faults' + product
    BY <2>2, <2>3, <2>4
  <2>. QED BY <1>1, <2>1, <2>5
<1>. QED BY <1>2, <1>3 DEF StraysInv

\* What the ledger and the strays need to know of a step.
Ledgers == LedgerInv' /\ StraysInv'

LEMMA QuietStep ==
  ASSUME LedgerInv, StraysInv, IntakeInv, CountersInv, IntakeInv', RecordsGrow, UNCHANGED Files,
         UNCHANGED <<incidents, kills, deliveries>>, faults' \in {faults, faults + 1},
         \A t \in Slots : Stored(t)' <=> Stored(t),
         \A t \in Slots : slot'[t] = slot[t] \/ slot'[t] = Idle
  PROVE  Ledgers
<1>1. Idle.step = "idle" /\ \A t \in Slots : Stored(t)' \/ slot'[t].step = "admitted" => slot'[t] = slot[t]
  BY DEF Stored, Idle
<1>2. SlotsLeave
  BY <1>1 DEF SlotsLeave
<1>3. UNCHANGED <<audit, unread>>
  BY DEF Files
<1>4. LedgerInv'
  BY <1>2, LedgerStays DEF IntakeInv
<1>5. StraysInv'
  BY <1>1, <1>3, StraysStay
<1>. QED BY <1>4, <1>5 DEF Ledgers

LEMMA DeliverLedger ==
  ASSUME LedgerInv, StraysInv, IntakeInv, CountersInv, IntakeInv', RecordsGrow,
         NEW s \in Slots, NEW a \in Alerts, Deliver(s, a)
  PROVE  Ledgers
<1>1. /\ slot[s] = Idle /\ Idle.step = "idle"
      /\ deliveries' = [deliveries EXCEPT ![a] = @ + 1] /\ deliveries \in [Alerts -> Nat]
      /\ UNCHANGED <<incidents, audit, events, unread, faults, kills>> /\ UNCHANGED Files
  BY DEF Deliver, Files, Idle, CountersInv, Counters
<1>2. /\ \A t \in Slots : t # s => slot'[t] = slot[t]
      /\ slot'[s] = Idle \/ (slot'[s].step = "admitted" /\ slot'[s].alert = a)
  <2>1. CASE slot' = [slot EXCEPT ![s] = [step |-> "admitted", alert |-> a, row |-> 0]]
    BY <2>1 DEF IntakeInv, Shapes
  <2>. QED BY <1>1, <2>1 DEF Deliver
<1>3. \A t \in Slots : Stored(t)' => t # s /\ Stored(t)
  BY <1>1, <1>2 DEF Stored
<1>4. SlotsLeave
  BY <1>2, <1>3 DEF SlotsLeave
<1>5. LedgerInv'
  BY <1>1, <1>4, LedgerStays DEF IntakeInv
<1>6. InFlight' = InFlight
  BY <1>1, <1>2 DEF InFlight
<1>7. ASSUME NEW b \in Alerts
      PROVE  Cardinality(RowsOf(b)') + Cardinality(Pending(b)') <= deliveries'[b]
  <2>1. RowsOf(b)' = RowsOf(b)
    BY <1>1 DEF RowsOf
  <2>2. Cardinality(RowsOf(b)) + Cardinality(Pending(b)) <= deliveries[b]
    BY DEF StraysInv
  <2>3. CASE b = a
    <3>1. Pending(b)' \in SUBSET (Pending(b) \cup {s})
      BY <1>2 DEF Pending
    <3>2. IsFiniteSet(Pending(b)) /\ Cardinality(Pending(b)) \in Nat
      BY Finite
    <3> DEFINE more == Pending(b) \cup {s}
    <3>3. IsFiniteSet(more) /\ Cardinality(more) <= Cardinality(Pending(b)) + 1 /\ Cardinality(more) \in Nat
      <4>1. /\ IsFiniteSet(more)
            /\ Cardinality(more) = IF s \in Pending(b) THEN Cardinality(Pending(b)) ELSE Cardinality(Pending(b)) + 1
        BY <3>2, FS_AddElement
      <4>. HIDE DEF more
      <4>. QED BY <3>2, <4>1
    <3>4. /\ IsFiniteSet(Pending(b)') /\ Cardinality(Pending(b)') <= Cardinality(more)
          /\ Cardinality(Pending(b)') \in Nat
      BY <3>1, <3>3, FS_Subset, FS_CardinalityType
    <3>. HIDE DEF more
    <3>. QED BY <1>1, <2>1, <2>2, <2>3, <3>2, <3>3, <3>4, Finite
  <2>4. CASE b # a
    <3>1. Pending(b)' \in SUBSET Pending(b)
      BY <1>1, <1>2, <2>4 DEF Pending
    <3>2. Cardinality(Pending(b)') <= Cardinality(Pending(b)) /\ Cardinality(Pending(b)') \in Nat
      BY <3>1, Finite, FS_Subset, FS_CardinalityType
    <3>. QED BY <1>1, <2>1, <2>2, <2>4, <3>2, Finite
  <2>. QED BY <2>3, <2>4
<1>8. StraysInv'
  BY <1>1, <1>6, <1>7 DEF StraysInv
<1>. QED BY <1>5, <1>8 DEF Ledgers

LEMMA CreateLedger ==
  ASSUME LedgerInv, StraysInv, IntakeInv, CountersInv, IntakeInv', RecordsGrow,
         NEW s \in Slots, create_incident(s)
  PROVE  Ledgers
<1>1. /\ slot[s].step = "admitted" /\ slot[s] \in Deliveries
      /\ UNCHANGED <<audit, events, unread, deliveries, kills>> /\ UNCHANGED Files
  BY SlotOf DEF create_incident, IntakeInv, Files
<1> DEFINE a == slot[s].alert
           row == Len(incidents) + 1
<1>2. CASE /\ incidents' = Append(incidents, a)
           /\ slot' = [slot EXCEPT ![s] = [@ EXCEPT !.step = "stored", !.row = row]]
           /\ UNCHANGED faults
  <2>1. /\ incidents \in Seq(Alerts) /\ Len(incidents) \in Nat /\ row \in Nat /\ Len(audit) \in Nat
        /\ a \in Alerts
    BY <1>1 DEF IntakeInv, Shapes, Deliveries
  <2>2. /\ Len(incidents') = row /\ incidents'[row] = a
        /\ \A i \in 1 .. Len(incidents) : incidents'[i] = incidents[i]
    BY <1>2, <2>1
  <2>3. /\ slot'[s].step = "stored" /\ slot'[s].row = row
        /\ \A t \in Slots : t # s => slot'[t] = slot[t]
    <3> DEFINE d == [slot[s] EXCEPT !.step = "stored", !.row = row]
    <3>1. slot' = [slot EXCEPT ![s] = d]
      BY <1>2
    <3>2. d.row = row /\ d.step = "stored"
      BY <1>1 DEF Deliveries
    <3>. HIDE DEF d
    <3>. QED BY <3>1, <3>2 DEF IntakeInv, Shapes
  <2>4. \A t \in Slots : Stored(t) => slot[t].row \in 1 .. Len(incidents) /\ slot[t].row # row
    <3>. SUFFICES ASSUME NEW t \in Slots, Stored(t)
                  PROVE  slot[t].row \in 1 .. Len(incidents) /\ slot[t].row # row
      OBVIOUS
    <3>1. slot[t] # Idle
      BY SlotOf DEF Stored, IntakeInv
    <3>2. slot[t].row \in 1 .. Len(incidents)
      BY <3>1 DEF Stored, IntakeInv, SlotsNameTheirRows, StoredIsThere
    <3>. QED BY <2>1, <3>2
  <2>5. \A i : Lists(audit, i) \/ Lists(events, i) => i \in 1 .. Len(incidents) /\ i # row
    <3>1. \A i : Lists(audit, i) \/ Lists(events, i) => i \in 1 .. Len(incidents)
      BY DEF LedgerInv, RowsOnce, Lists
    <3>2. \A i \in 1 .. Len(incidents) : i # row
      BY <2>1
    <3>. QED BY <3>1, <3>2
  <2>6. RowsOnce'
    <3>1. \A i \in 1 .. Len(incidents) : i \in 1 .. Len(incidents')
      BY <2>1, <2>2
    <3>2. /\ \A n \in 1 .. Len(audit') : audit'[n] \in 1 .. Len(incidents')
          /\ \A n \in 1 .. Len(events') : events'[n] \in 1 .. Len(incidents')
      BY <1>1, <3>1 DEF LedgerInv, RowsOnce
    <3>3. Once(audit)' /\ Once(events)'
      BY <1>1 DEF LedgerInv, RowsOnce, Once
    <3>4. \A t \in Slots : Stored(t)' => ~Lists(audit, slot'[t].row) /\ ~Lists(events, slot'[t].row)
      BY <2>3, <2>5 DEF LedgerInv, RowsOnce, Stored
    <3>5. \A t \in Slots : ~Lists(audit, slot[t].row)' /\ ~Lists(events, slot[t].row)'
                              <=> ~Lists(audit, slot'[t].row) /\ ~Lists(events, slot'[t].row)
      BY <1>1 DEF Lists
    <3>6. \A t, u \in Slots : Stored(t)' /\ Stored(u)' /\ slot'[t].row = slot'[u].row => t = u
      BY <2>3, <2>4 DEF LedgerInv, RowsOnce, Stored
    <3>. QED BY <3>2, <3>3, <3>4, <3>5, <3>6 DEF RowsOnce
  <2>7. LedgerInv'
    <3>1. UNCHANGED <<audit, events, unread>>
      BY <1>1
    <3>2. CopyFollowsLog' = CopyFollowsLog
      BY ONLY <3>1 DEF CopyFollowsLog
    <3>. QED BY <2>6, <3>1, <3>2 DEF LedgerInv
  <2>8. InFlight' = InFlight \cup {s} /\ s \notin InFlight
    BY <1>1, <2>3 DEF InFlight
  <2>9. Cardinality(InFlight') = Cardinality(InFlight) + 1
    BY <2>8, Finite, FS_AddElement
  <2>10. ASSUME NEW b \in Alerts
         PROVE  Cardinality(RowsOf(b)') + Cardinality(Pending(b)') <= deliveries'[b]
    <3>1. Cardinality(RowsOf(b)) + Cardinality(Pending(b)) <= deliveries[b] /\ deliveries[b] \in Nat
      BY DEF StraysInv, CountersInv, Counters
    <3>2. CASE b = a
      <4>1. RowsOf(b)' = RowsOf(b) \cup {row} /\ row \notin RowsOf(b)
        BY <2>1, <2>2, <3>2 DEF RowsOf
      <4>2. Pending(b)' = Pending(b) \ {s} /\ s \in Pending(b)
        BY <1>1, <2>3, <3>2 DEF Pending
      <4>3. Cardinality(RowsOf(b) \cup {row}) = Cardinality(RowsOf(b)) + 1
        <5>1. IsFiniteSet(RowsOf(b))
          BY Finite
        <5>. HIDE DEF row
        <5>. QED BY <4>1, <5>1, FS_AddElement
      <4>4. Cardinality(Pending(b) \ {s}) = Cardinality(Pending(b)) - 1
        <5>1. IsFiniteSet(Pending(b))
          BY Finite
        <5>. QED BY <4>2, <5>1, FS_RemoveElement
      <4>5. Cardinality(RowsOf(b)) \in Nat /\ Cardinality(Pending(b)) \in Nat
        BY Finite
      <4>. QED BY <1>1, <3>1, <4>1, <4>2, <4>3, <4>4, <4>5
    <3>3. CASE b # a
      <4>1. RowsOf(b)' = RowsOf(b)
        BY <2>1, <2>2, <3>3 DEF RowsOf
      <4>2. Pending(b)' = Pending(b)
        BY <1>1, <2>3, <3>3 DEF Pending
      <4>. QED BY <1>1, <3>1, <4>1, <4>2
    <3>. QED BY <3>2, <3>3
  <2>11. unread' \/ Len(incidents') - Len(audit') - Cardinality(InFlight') <= faults' + kills' * Cardinality(Slots)
    <3>1. /\ unread \/ Len(incidents) - Len(audit) - Cardinality(InFlight) <= faults + kills * Cardinality(Slots)
          /\ Cardinality(InFlight) \in Nat
      BY Finite DEF StraysInv
    <3>2. Len(incidents') - Len(audit') - Cardinality(InFlight') = Len(incidents) - Len(audit) - Cardinality(InFlight)
      BY <1>1, <2>1, <2>2, <2>9, <3>1
    <3>. QED BY <1>1, <1>2, <3>1, <3>2
  <2>12. StraysInv'
    BY <2>10, <2>11 DEF StraysInv
  <2>. QED BY <2>7, <2>12 DEF Ledgers
<1>3. CASE MayFail /\ Fault /\ slot' = [slot EXCEPT ![s] = Idle] /\ UNCHANGED incidents
  <2>1. \A t \in Slots : slot'[t] = IF t = s THEN Idle ELSE slot[t]
    BY <1>3 DEF IntakeInv, Shapes
  <2>2. \A t \in Slots : Stored(t)' <=> Stored(t)
    BY <1>1, <2>1 DEF Stored, Idle
  <2>. QED BY <1>1, <1>3, <2>1, <2>2, QuietStep DEF Fault
<1>. QED BY <1>2, <1>3 DEF create_incident

\* A log that could be read is longer by the entry.
LEMMA EntryIsOneMore ==
  ASSUME IntakeInv, NEW s \in Slots, Stored(s), NEW last, write_audit_log(slot[s].row, last)
  PROVE  unread' \/ (UNCHANGED unread /\ Len(audit') = Len(audit) + 1)
<1>1. slot[s].row \in Nat /\ audit \in Seq(Nat)
  BY SlotOf DEF IntakeInv, Stored, Deliveries, Shapes
<1>2. PICK e \in Nat : e = slot[s].row
  BY <1>1
<1>3. Len(Append(audit, e)) = Len(audit) + 1
  BY <1>1
<1>. QED BY <1>2, <1>3, LogEnds

LEMMA AnswerLedger ==
  ASSUME LedgerInv, StraysInv, IntakeInv, CountersInv, IntakeInv', RecordsGrow,
         NEW s \in Slots, audit_and_answer(s)
  PROVE  Ledgers
<1>1. /\ Stored(s) /\ slot' = [slot EXCEPT ![s] = Idle]
      /\ UNCHANGED <<incidents, deliveries, kills>>
  BY DEF audit_and_answer, Stored
<1>2. \A t \in Slots : slot'[t] = IF t = s THEN Idle ELSE slot[t]
  BY <1>1 DEF IntakeInv, Shapes
<1>3. /\ \A t \in Slots : Stored(t)' => Stored(t) /\ slot'[t] = slot[t] /\ t # s
      /\ \A t \in Slots : slot'[t].step = "admitted" => slot'[t] = slot[t]
      /\ \A t \in Slots : t # s => slot'[t] = slot[t]
  BY <1>2 DEF Stored, Idle
<1>4. SlotsLeave
  BY <1>3 DEF SlotsLeave
<1>5. InFlight' = InFlight \ {s} /\ s \in InFlight
  BY <1>1, <1>3 DEF InFlight, Stored
<1>6. Cardinality(InFlight') = Cardinality(InFlight) - 1 /\ Cardinality(InFlight) \in Nat
  BY <1>5, Finite, FS_RemoveElement
<1>7. PICK product : product = kills * Cardinality(Slots)
  OBVIOUS
<1>8. /\ product \in Nat /\ faults \in Nat /\ Len(incidents) \in Nat /\ Len(audit) \in Nat
      /\ unread \/ Len(incidents) - Len(audit) - Cardinality(InFlight) <= faults + product
  <2>1. kills \in Nat /\ faults \in Nat /\ Cardinality(Slots) \in Nat
    BY Finite, IntakeAssumption DEF CountersInv, Counters
  <2>2. product \in Nat
    BY <1>7, <2>1
  <2>3. Len(incidents) \in Nat /\ Len(audit) \in Nat
    BY DEF IntakeInv, Shapes
  <2>4. unread \/ Len(incidents) - Len(audit) - Cardinality(InFlight) <= faults + product
    BY <1>7 DEF StraysInv
  <2>. QED BY <2>1, <2>2, <2>3, <2>4
<1>9. \A b \in Alerts : Cardinality(RowsOf(b)') + Cardinality(Pending(b)') <= deliveries'[b]
  <2>. SUFFICES ASSUME NEW b \in Alerts
                PROVE  Cardinality(RowsOf(b)') + Cardinality(Pending(b)') <= deliveries'[b]
    OBVIOUS
  <2>1. RowsOf(b)' = RowsOf(b)
    BY <1>1 DEF RowsOf
  <2>2. Pending(b)' = Pending(b)
    BY <1>1, <1>3 DEF Pending, Stored
  <2>. QED BY <1>1, <2>1, <2>2 DEF StraysInv
<1>10. CASE write_audit_log(slot[s].row, FALSE)
  <2>1. ~Stored(s)'
    BY <1>3
  <2>2. LedgerInv'
    <3>1. FALSE \in BOOLEAN
      OBVIOUS
    <3>. QED BY <1>1, <1>4, <1>10, <2>1, <3>1, LedgerWritten
  <2>3. faults' \in {faults, faults + 1}
    BY <1>10, LogMayFail DEF Fault
  <2>4. unread' \/ (UNCHANGED unread /\ Len(audit') = Len(audit) + 1)
    BY <1>1, <1>10, EntryIsOneMore
  <2>5. unread' \/ Len(incidents') - Len(audit') - Cardinality(InFlight') <= faults' + product
    BY <1>1, <1>6, <1>8, <2>3, <2>4
  <2>6. StraysInv'
    BY <1>1, <1>7, <1>9, <2>5 DEF StraysInv
  <2>. QED BY <2>2, <2>6 DEF Ledgers
<1>11. CASE MayFail /\ Fault /\ UNCHANGED Files
  <2>1. UNCHANGED <<audit, unread>> /\ faults' = faults + 1
    BY <1>11 DEF Files, Fault
  <2>2. LedgerInv'
    BY <1>4, <1>11, LedgerStays DEF IntakeInv
  <2>3. unread' \/ Len(incidents') - Len(audit') - Cardinality(InFlight') <= faults' + product
    BY <1>1, <1>6, <1>8, <2>1
  <2>4. StraysInv'
    BY <1>1, <1>7, <1>9, <2>3 DEF StraysInv
  <2>. QED BY <2>2, <2>4 DEF Ledgers
<1>. QED BY <1>10, <1>11 DEF audit_and_answer

LEMMA KillLedger ==
  ASSUME LedgerInv, StraysInv, IntakeInv, CountersInv, IntakeInv', RecordsGrow, Kill
  PROVE  Ledgers
<1>1. /\ kills' = kills + 1 /\ slot' = [s \in Slots |-> Idle]
      /\ UNCHANGED <<incidents, deliveries>>
  BY DEF Kill, Ended
<1>2. \A t \in Slots : slot'[t] = Idle /\ ~Stored(t)' /\ slot'[t].step # "admitted"
  BY <1>1 DEF Stored, Idle
<1>3. SlotsLeave
  BY <1>2 DEF SlotsLeave
<1>4. UNCHANGED Files \/ \E s \in Slots : Stored(s) /\ write_audit_log(slot[s].row, TRUE)
  BY DEF Kill, Stored
<1>5. LedgerInv'
  <2>1. CASE UNCHANGED Files
    BY <1>3, <2>1, LedgerStays DEF IntakeInv
  <2>2. ASSUME NEW s \in Slots, Stored(s), write_audit_log(slot[s].row, TRUE)
        PROVE  LedgerInv'
    <3>1. TRUE \in BOOLEAN
      OBVIOUS
    <3>. QED BY <1>1, <1>2, <1>3, <2>2, <3>1, LedgerWritten
  <2>. QED BY <1>4, <2>1, <2>2
<1>6. faults' \in {faults, faults + 1}
  BY LogMayFail DEF Kill, Fault
<1>7. unread' \/ (UNCHANGED unread /\ Len(audit') >= Len(audit))
  <2>1. CASE UNCHANGED Files
    BY <2>1 DEF IntakeInv, Shapes, Files
  <2>2. CASE \E s \in Slots : Stored(s) /\ write_audit_log(slot[s].row, TRUE)
    <3>1. PICK s \in Slots : Stored(s) /\ write_audit_log(slot[s].row, TRUE)
      BY <2>2
    <3>2. unread' \/ (UNCHANGED unread /\ Len(audit') = Len(audit) + 1)
      BY <3>1, EntryIsOneMore
    <3>3. Len(audit) \in Nat
      BY DEF IntakeInv, Shapes
    <3>. QED BY <3>2, <3>3
  <2>. QED BY <1>4, <2>1, <2>2
<1>8. InFlight' = {} /\ \A b : Pending(b)' = {}
  BY <1>2 DEF InFlight, Pending, Stored
<1>9. Cardinality({}) = 0
  BY FS_EmptySet
<1>10. ASSUME NEW b \in Alerts
       PROVE  Cardinality(RowsOf(b)') + Cardinality(Pending(b)') <= deliveries'[b]
  <2>1. RowsOf(b)' = RowsOf(b)
    BY <1>1 DEF RowsOf
  <2>2. Cardinality(RowsOf(b)) + Cardinality(Pending(b)) <= deliveries[b] /\ deliveries[b] \in Nat
    BY DEF StraysInv, CountersInv, Counters
  <2>3. Cardinality(RowsOf(b)) \in Nat /\ Cardinality(Pending(b)) \in Nat
    BY Finite
  <2>4. Cardinality(Pending(b)') = 0
    BY <1>8, <1>9
  <2>. QED BY <1>1, <2>1, <2>2, <2>3, <2>4
<1>11. unread' \/ Len(incidents') - Len(audit') - Cardinality(InFlight') <= faults' + kills' * Cardinality(Slots)
  <2> DEFINE n == Cardinality(Slots)
  <2>1. PICK product : product = kills * n
    OBVIOUS
  <2>2. /\ n \in Nat /\ kills \in Nat /\ faults \in Nat /\ Cardinality(InFlight) \in 0 .. n
        /\ Len(incidents) \in Nat /\ Len(audit) \in Nat /\ Len(audit') \in Nat
        /\ unread \/ Len(incidents) - Len(audit) - Cardinality(InFlight) <= faults + product
    BY <2>1, Finite, IntakeAssumption DEF CountersInv, Counters, IntakeInv, Shapes, StraysInv
  <2>. HIDE DEF n
  <2>3. product \in Nat /\ kills' * n = product + n
    BY <1>1, <2>1, <2>2
  <2>4. unread' \/ Len(incidents) - Len(audit') <= faults' + product + n
    BY <1>6, <1>7, <2>2, <2>3
  <2>5. Cardinality(InFlight') = 0 /\ faults' \in Nat
    BY <1>6, <1>8, <1>9, <2>2
  <2>6. unread' \/ Len(incidents') - Len(audit') - Cardinality(InFlight') <= faults' + kills' * n
    BY <1>1, <2>2, <2>3, <2>4, <2>5
  <2>. QED BY <2>6 DEF n
<1>12. StraysInv'
  BY <1>10, <1>11 DEF StraysInv
<1>. QED BY <1>5, <1>12 DEF Ledgers

\* An entry that is about no incident, to a file that could not be read.
LEMMA OtherLedger ==
  ASSUME LedgerInv, StraysInv, IntakeInv, CountersInv, IntakeInv', OtherEntry
  PROVE  Ledgers
<1>1. /\ UNCHANGED <<incidents, slot, deliveries, kills>> /\ faults' = faults + 1
      /\ \/ audit' = <<>> /\ unread' = TRUE /\ events' = events
         \/ events' = <<>> /\ UNCHANGED <<audit, unread>>
  BY DEF OtherEntry, Fault
<1>2. Len(<<>>) = 0 /\ <<>> \in Seq(Nat)
  OBVIOUS
<1>3. Once(audit)' /\ Once(events)' /\ events' \in Seq(Nat)
  <2>1. Once(audit) /\ Once(events) /\ events \in Seq(Nat)
    BY DEF LedgerInv, RowsOnce
  <2>2. Once(<<>>)
    BY <1>2 DEF Once
  <2>3. Once(audit)' /\ Once(events)'
    <3>1. audit' = audit => Once(audit)'
      BY <2>1 DEF Once
    <3>2. events' = events => Once(events)'
      BY <2>1 DEF Once
    <3>3. audit' = <<>> => Once(audit)'
      BY <2>2 DEF Once
    <3>4. events' = <<>> => Once(events)'
      BY <2>2 DEF Once
    <3>. QED BY <1>1, <3>1, <3>2, <3>3, <3>4
  <2>. QED BY <1>1, <1>2, <2>1, <2>3
<1>4. \A i : (Lists(audit, i)' => Lists(audit, i)) /\ (Lists(events, i)' => Lists(events, i))
  BY <1>1, <1>2 DEF Lists
<1>5. RowsOnce'
  <2>1. /\ \A n \in 1 .. Len(audit') : audit'[n] \in 1 .. Len(incidents')
        /\ \A n \in 1 .. Len(events') : events'[n] \in 1 .. Len(incidents')
    BY <1>1, <1>2 DEF LedgerInv, RowsOnce
  <2>2. \A s \in Slots : Stored(s)' => ~Lists(audit, slot[s].row)' /\ ~Lists(events, slot[s].row)'
    <3>. SUFFICES ASSUME NEW s \in Slots, Stored(s)'
                  PROVE  ~Lists(audit, slot[s].row)' /\ ~Lists(events, slot[s].row)'
      OBVIOUS
    <3>1. Stored(s) /\ slot'[s].row = slot[s].row
      BY <1>1 DEF Stored
    <3>2. ~Lists(audit, slot[s].row) /\ ~Lists(events, slot[s].row)
      BY <3>1 DEF LedgerInv, RowsOnce
    <3>. QED BY <1>1, <1>2, <3>2 DEF Lists
  <2>3. \A s, t \in Slots : Stored(s)' /\ Stored(t)' /\ slot'[s].row = slot'[t].row => s = t
    BY <1>1 DEF LedgerInv, RowsOnce, Stored
  <2>. QED BY <1>3, <2>1, <2>2, <2>3 DEF RowsOnce
<1>6. (unread \/ CopyFollowsLog)'
  BY <1>1, <1>2 DEF LedgerInv, CopyFollowsLog
<1>7. LedgerInv'
  BY <1>3, <1>5, <1>6 DEF LedgerInv
<1>8. StraysInv'
  <2>1. CASE UNCHANGED <<audit, unread>>
    BY <1>1, <2>1, StraysStay DEF Stored
  <2>2. CASE unread'
    <3>1. \A a : RowsOf(a)' = RowsOf(a) /\ Pending(a)' = Pending(a)
      BY <1>1 DEF RowsOf, Pending
    <3>. QED BY <1>1, <2>2, <3>1 DEF StraysInv
  <2>. QED BY <1>1, <2>1, <2>2
<1>. QED BY <1>7, <1>8 DEF Ledgers

LEMMA NextLedger ==
  IntakeInv /\ IntakeInv' /\ CountersInv /\ LedgerInv /\ StraysInv /\ [Next]_vars => Ledgers
<1>. SUFFICES ASSUME IntakeInv, IntakeInv', CountersInv, LedgerInv, StraysInv, [Next]_vars
              PROVE  Ledgers
  OBVIOUS
<1>1. RecordsGrow
  BY NextIntake
<1>2. ASSUME NEW a \in Alerts, SenderTimesOut(a) PROVE Ledgers
  <2>1. UNCHANGED <<incidents, slot, kills, deliveries>> /\ UNCHANGED Files /\ faults' = faults + 1
    BY <1>2 DEF SenderTimesOut, Fault
  <2>. QED BY <1>1, <2>1, QuietStep DEF Stored
<1>3. ASSUME NEW t, update_bootstrap_config(t) PROVE Ledgers
  <2>1. /\ UNCHANGED <<incidents, slot, kills, deliveries>> /\ UNCHANGED Files
        /\ faults' \in {faults, faults + 1}
    BY <1>3 DEF update_bootstrap_config, Fault
  <2>. QED BY <1>1, <2>1, QuietStep DEF Stored
<1>4. CASE UNCHANGED vars
  <2>1. UNCHANGED <<incidents, slot, kills, deliveries, faults>> /\ UNCHANGED Files
    BY <1>4 DEF vars, Files
  <2>. QED BY <1>1, <2>1, QuietStep DEF Stored
<1>. QED BY <1>1, <1>2, <1>3, <1>4, DeliverLedger, CreateLedger, AnswerLedger, KillLedger, OtherLedger
         DEF Next, Handle

LEMMA InitLedger == Init => LedgerInv /\ StraysInv
<1>. SUFFICES ASSUME Init PROVE LedgerInv /\ StraysInv
  OBVIOUS
<1>1. /\ incidents = <<>> /\ audit = <<>> /\ events = <<>> /\ faults = 0 /\ kills = 0
      /\ deliveries = [a \in Alerts |-> 0] /\ slot = [s \in Slots |-> Idle]
      /\ IntakeInv
  BY InitIntake DEF Init
<1>2. Len(incidents) = 0 /\ Len(audit) = 0 /\ Len(events) = 0 /\ \A s \in Slots : slot[s].step = "idle"
  BY <1>1 DEF Idle
<1>3. LedgerInv
  BY <1>1, <1>2 DEF LedgerInv, RowsOnce, Once, Stored, CopyFollowsLog
<1>4. InFlight = {} /\ \A a : RowsOf(a) = {} /\ Pending(a) = {}
  BY <1>2 DEF InFlight, RowsOf, Pending
<1>5. Cardinality({}) = 0 /\ Cardinality(Slots) \in Nat
  BY <1>1, FS_EmptySet, Finite
<1>6. \A a \in Alerts : Cardinality(RowsOf(a)) + Cardinality(Pending(a)) <= deliveries[a]
  <2>. SUFFICES ASSUME NEW a \in Alerts
                PROVE  Cardinality(RowsOf(a)) + Cardinality(Pending(a)) <= deliveries[a]
    OBVIOUS
  <2>1. Cardinality(RowsOf(a)) = 0 /\ Cardinality(Pending(a)) = 0
    BY <1>4, <1>5
  <2>. QED BY <1>1, <2>1
<1>7. kills * Cardinality(Slots) = 0
  BY <1>1, <1>5
<1>8. Cardinality(InFlight) = 0
  BY <1>4, <1>5
<1>9. Len(incidents) - Len(audit) - Cardinality(InFlight) <= faults + kills * Cardinality(Slots)
  BY <1>1, <1>2, <1>7, <1>8
<1>. QED BY <1>3, <1>6, <1>9 DEF StraysInv

LEMMA LedgerInvariance == Spec => [](LedgerInv /\ StraysInv)
<1>1. Ledgers => (LedgerInv /\ StraysInv)'
  BY DEF Ledgers
<1>. QED BY <1>1, InitLedger, NextLedger, IntakeInvariance, CountersInvariance, PTL DEF Spec

\* Each entry of the audit log is of a stored incident, no incident has two, and
\* the copy in the artifact file has no other entries and no other order,
\* whatever write fails or is cut off (audit.py:71, artifacts.py:60).
THEOREM LogAndCopyAgree == Spec => []RecordsAgree
<1>1. IntakeInv /\ LedgerInv => RecordsAgree
  <2>. SUFFICES ASSUME IntakeInv, LedgerInv PROVE RecordsAgree
    OBVIOUS
  <2>1. DOMAIN audit = 1 .. Len(audit) /\ DOMAIN events = 1 .. Len(events)
    BY DEF IntakeInv, Shapes, LedgerInv
  <2>2. IsInjective(audit) /\ IsInjective(events)
    BY <2>1 DEF IsInjective, LedgerInv, RowsOnce, Once
  <2>. QED BY <2>2 DEF RecordsAgree, LedgerInv, RowsOnce
<1>. QED BY <1>1, IntakeInvariance, LedgerInvariance, PTL

\* An alert has no more incidents than deliveries, and the incidents without an
\* audit entry are those under way and at most one for each fault and each
\* delivery cut off by a kill (app.py:803, app.py:1260).
THEOREM EveryStrayHasItsFault == Spec => []StraysAreExplained
<1>1. IntakeInv /\ CountersInv /\ StraysInv => StraysAreExplained
  <2>. SUFFICES ASSUME IntakeInv, CountersInv, StraysInv PROVE StraysAreExplained
    OBVIOUS
  <2>1. \A a \in Alerts : Cardinality(RowsOf(a)) <= deliveries[a]
    <3>. SUFFICES ASSUME NEW a \in Alerts PROVE Cardinality(RowsOf(a)) <= deliveries[a]
      OBVIOUS
    <3>1. Cardinality(RowsOf(a)) + Cardinality(Pending(a)) <= deliveries[a] /\ deliveries[a] \in Nat
      BY DEF StraysInv, CountersInv, Counters
    <3>. QED BY <3>1, Finite
  <2>. QED BY <2>1 DEF StraysInv, StraysAreExplained
<1>. QED BY <1>1, IntakeInvariance, CountersInvariance, LedgerInvariance, PTL
=============================================================================
