------------------------------- MODULE MCIntake -------------------------------
(* Constants for model checking the intake. *)
EXTENDS Intake

\* An alert whose sender takes 400 for an answer, one whose sender comes back,
\* and a report by a role that may not.
SomeAlerts ==
  {[name |-> "a1", tenant |-> "tenant-a", route |-> "operator", role |-> "incident_manager"],
   [name |-> "a2", tenant |-> "tenant-system", route |-> "vendor webhook", role |-> "none"],
   [name |-> "a3", tenant |-> "tenant-a", route |-> "operator", role |-> "admin"]}
=============================================================================
