------------------------------ MODULE MCEvidence ------------------------------
(* Constants for model checking the pages of an incident. *)
EXTENDS Evidence

Incident(family, clues, timeout, severity, posture) ==
  [family |-> family, clues |-> clues, timeout |-> timeout, severity |-> severity, posture |-> posture]

SomeIncidents ==
  {Incident("timeout cascade", {}, FALSE, "P1", "partial"),
   Incident("timeout cascade", {"pool words"}, FALSE, "P2", "weak"),
   Incident("pool exhaustion", {}, TRUE, "P2", "none"),
   Incident("deploy regression", {"catalog words"}, FALSE, "P1", "strong"),
   Incident("auth dependency", {}, FALSE, "P3", "none"),
   Incident("other", {}, FALSE, "P2", "strong"),
   Incident("queue backlog", {}, FALSE, "P2", "partial"),
   Incident("other", {}, TRUE, "P2", "manual")}
=============================================================================
