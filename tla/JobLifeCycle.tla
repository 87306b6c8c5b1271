---------------------------- MODULE JobLifeCycle ----------------------------
(***************************************************************************)
(* What the runtime queue promises about its jobs: a job moves forward     *)
(* from queued over running to a closed state, may skip a state whose      *)
(* record was not written, and leaves a closed state only with the whole   *)
(* list.  The list may be lost, where MayLoseList says so: then no job in  *)
(* it survives, and none of them comes back.                               *)
(***************************************************************************)
EXTENDS Integers

CONSTANTS JobIds, MayLoseList

VARIABLE state    \* the recorded state of each job, "none" before it is queued

JobStates == {"none", "queued", "running", "completed", "recovered", "lost"}

Closed == {"completed", "recovered"}

Init == state = [j \in JobIds |-> "none"]

\* A job is queued; when its record is not written it is lost from the start.
Queue(j) ==
    /\ state[j] = "none"
    /\ \E recorded \in {"queued", "lost"} : state' = [state EXCEPT ![j] = recorded]

Run(j) == state[j] = "queued" /\ state' = [state EXCEPT ![j] = "running"]

Close(j) ==
    /\ state[j] \in {"queued", "running"}
    /\ \E outcome \in Closed : state' = [state EXCEPT ![j] = outcome]

Forgotten == [j \in JobIds |-> IF state[j] = "none" THEN "none" ELSE "lost"]

LoseList == MayLoseList /\ state' = Forgotten

\* A job that is queued when the list is lost is the first of a new list.
BeginList(j) ==
    /\ MayLoseList
    /\ state[j] = "none"
    /\ state' = [Forgotten EXCEPT ![j] = "queued"]

Next == \/ LoseList
        \/ \E j \in JobIds : Queue(j) \/ Run(j) \/ Close(j) \/ BeginList(j)

Spec == Init /\ [][Next]_state
=============================================================================
