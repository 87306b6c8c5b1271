------------------------- MODULE MCIncidentHandlers -------------------------
(* Constants for model checking the handlers of one incident. *)
EXTENDS IncidentHandlers, TLC

CONSTANTS s1, s2

OneSlot  == {s1}
TwoSlots == {s1, s2}
SlotSymmetry == Permutations(TwoSlots)

AllOperations     == {"review", "execute", "replay", "send", "retry", "feedback"}
HandoffOperations == {"send", "retry", "feedback"}
GateOperations    == {"review", "execute"}
ExecuteOnly       == {"execute"}
=============================================================================
