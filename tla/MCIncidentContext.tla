--------------------------- MODULE MCIncidentContext ---------------------------
(* Constants for model checking the page of an incident. *)
EXTENDS IncidentContext, TLC

CONSTANTS q1, q2
TwoReaders == {q1, q2}
ReaderSymmetry == Permutations(TwoReaders)
OneReader == {q1}
NoFault == {}
AnyFault == {"sentinel", "replay", "restart"}
=============================================================================
