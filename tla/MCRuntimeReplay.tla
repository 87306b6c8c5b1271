--------------------------- MODULE MCRuntimeReplay ---------------------------
(* Constants for model checking replica replays. *)
EXTENDS RuntimeReplay, TLC

CONSTANTS s1, s2

OneSlot  == {s1}
TwoSlots == {s1, s2}
SlotSymmetry == Permutations(TwoSlots)

AnyFault == {"exception", "hang", "restart", "unwritable", "unreadable"}
Exceptions == {"exception"}
NoRestart == {"exception", "hang", "unreadable"}
=============================================================================
