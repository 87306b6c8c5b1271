------------------------------- MODULE Priority -------------------------------
(***************************************************************************)
(* Severity labels (server/services/priority.py) and what is decided from  *)
(* their rank: the threshold of the GUARDIAN agent, the risk class of a    *)
(* change and the penalty of a wrong classification.  Fractions are        *)
(* counted in hundredths.                                                  *)
(***************************************************************************)
EXTENDS Integers, FiniteSetsExt

Digits == 0..9
DigitLabels == {"P0", "P1", "P2", "P3", "P4", "P5", "P6", "P7", "P8", "P9"}
Aliases == {"CRITICAL", "URGENT", "HIGH", "MEDIUM", "NORMAL", "LOW", "INFO"}

DigitLabel(n) ==
  CASE n = 0 -> "P0" [] n = 1 -> "P1" [] n = 2 -> "P2" [] n = 3 -> "P3" [] n = 4 -> "P4"
    [] n = 5 -> "P5" [] n = 6 -> "P6" [] n = 7 -> "P7" [] n = 8 -> "P8" [] OTHER -> "P9"

\* Of a label without its surrounding blanks, in upper case; "" is none at all
\* and "P12" stands for a P with several digits.  Other words are kept.
normalize_priority_label(label) ==
  CASE label \in {"", "P12"} -> "P3"
    [] label \in {"CRITICAL", "URGENT"} -> "P1"
    [] label = "HIGH" -> "P2"
    [] label \in {"MEDIUM", "NORMAL"} -> "P3"
    [] label = "LOW" -> "P4"
    [] label = "INFO" -> "P5"
    [] OTHER -> label

\* An unknown word ranks as P3.
priority_rank(label) ==
  LET normal == normalize_priority_label(label)
  IN IF normal \in DigitLabels THEN CHOOSE n \in Digits : DigitLabel(n) = normal ELSE 3

-----------------------------------------------------------------------------

\* GuardianAgent._threshold_for_severity.
ThresholdForSeverity(severity) ==
  Max({55, 105 - 10 * Max({1, priority_rank(severity)})})

\* A slip of the risk: an improvement counts as much as a resolution.
RiskOfAnyGain(severity, outcome) ==
  LET serious == priority_rank(severity) <= 2
  IN IF outcome \in {"resolved", "improved"} THEN (IF serious THEN "medium" ELSE "low")
     ELSE IF serious THEN "high" ELSE "medium"

\* The risk class of a change, from the severity and the best outcome that
\* REPLICA measured.
RiskClass(severity, outcome) ==
  LET rank == priority_rank(severity)
  IN CASE outcome = "resolved" -> IF rank <= 2 THEN "medium" ELSE "low"
       [] outcome = "improved" -> IF rank <= 1 THEN "high" ELSE "medium"
       [] OTHER -> IF rank <= 2 THEN "high" ELSE "medium"

ApprovalLevel(risk) == IF risk = "high" THEN "incident_manager" ELSE "operator"

\* _severity_penalty of the grader: the expected severity is one step below
\* that of the catalogue.  Calling it too low costs twice as much.
SeverityPenalty(predicted, catalogued) ==
  LET expected == priority_rank(catalogued) + 1
      given == priority_rank(predicted)
  IN IF given < expected THEN 10 * (expected - given) ELSE 20 * (given - expected)
=============================================================================
