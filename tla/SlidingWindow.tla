---------------------------- MODULE SlidingWindow ----------------------------
(***************************************************************************)
(* What a sliding-window limiter promises to one key: a request is served  *)
(* if fewer than Limit requests of the key were made within the window     *)
(* before it.  Requests that are refused count as well.                    *)
(***************************************************************************)
EXTENDS Integers, FiniteSets

CONSTANTS Limit, Window, MaxTime, MaxRequests

VARIABLES clock,    \* time
          asked,    \* the time of each request, -1 for those still to come
          answer    \* what each request was answered

vars == <<clock, asked, answer>>

Requests == 1..MaxRequests

Made == {i \in Requests : asked[i] >= 0}

\* The requests made before request i and within the window that ends with it.
Before(i) == {j \in Made : j < i /\ asked[i] - asked[j] <= Window}

Init == /\ clock = 0
        /\ asked = [i \in Requests |-> -1]
        /\ answer = [i \in Requests |-> "none"]

Tick == /\ clock < MaxTime
        /\ clock' = clock + 1
        /\ UNCHANGED <<asked, answer>>

\* The requests of a key are answered one after the other.
Ask(i) == /\ Made = 1..(i - 1)
          /\ \A j \in Made : answer[j] # "none"
          /\ asked' = [asked EXCEPT ![i] = clock]
          /\ UNCHANGED <<clock, answer>>

Answer(i) == /\ i \in Made
             /\ answer[i] = "none"
             /\ answer' = [answer EXCEPT ![i] = IF Cardinality(Before(i)) < Limit
                                                THEN "served" ELSE "refused"]
             /\ UNCHANGED <<clock, asked>>

Next == Tick \/ \E i \in Requests : Ask(i) \/ Answer(i)

Spec == Init /\ [][Next]_vars
=============================================================================
