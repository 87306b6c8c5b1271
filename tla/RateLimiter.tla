----------------------------- MODULE RateLimiter -----------------------------
(***************************************************************************)
(* RateLimiter.check for one key (tenant, user and route): two counters of *)
(* the same requests, a deque in memory and a table in SQLite, under a     *)
(* lock of the key.  Keys share nothing but the database file, so one key  *)
(* is enough.                                                              *)
(*                                                                         *)
(* A request is in the model from the moment it holds the lock; those that *)
(* wait for it are not seen.  Time stamps are those of monotonic(), which  *)
(* counts from the start of the host, while `clock` is the time that a     *)
(* client sees.  A stamp in memory or in the database is the one of the    *)
(* request that is there.                                                  *)
(***************************************************************************)
EXTENDS Integers, FiniteSets

CONSTANTS MaxLimit,      \* max_requests
          Window,        \* window_seconds, in ticks
          Faults,        \* what may go wrong: "database", "restart", "reboot"
          MaxTime,       \* bound on the clock
          MaxRequests    \* bound on the requests of a behaviour

ASSUME LimiterAssumption ==
    /\ MaxLimit \in Nat
    /\ Window \in Nat
    /\ MaxTime \in Nat
    /\ MaxRequests \in Nat
    /\ Faults \subseteq {"database", "restart", "reboot"}

VARIABLES clock,     \* time
          boot,      \* when the host was started
          pc,        \* how far the request that holds the lock has come
          cur,       \* number of the latest request
          asked,     \* when each request took the lock, -1 for those still to come
          stamp,     \* what monotonic() returned to each request
          memory,    \* requests in the deque
          database,  \* requests in rate_limit_events
          total,     \* total_count of the request that holds the lock
          answer     \* what each request was answered

vars == <<clock, boot, pc, cur, asked, stamp, memory, database, total, answer>>

Requests == 1..MaxRequests

monotonic == clock - boot

Init == /\ clock = 0
        /\ boot = 0
        /\ pc = "free"
        /\ cur = 0
        /\ asked = [i \in Requests |-> -1]
        /\ stamp = [i \in Requests |-> -1]
        /\ memory = {}
        /\ database = {}
        /\ total = 0
        /\ answer = [i \in Requests |-> "none"]

-----------------------------------------------------------------------------

\* The entries of a store that are not older than the window at time now.
Fresh(store, now) == {i \in store : now - stamp[i] <= Window}

Tick ==
    /\ clock < MaxTime
    /\ clock' = clock + 1
    /\ UNCHANGED <<boot, pc, cur, asked, stamp, memory, database, total, answer>>

\* A request takes the lock, reads the clock and removes what has expired from
\* the deque.  The stamps in the deque are in order, so that removing from its
\* front removes all that has expired.
Acquire ==
    /\ pc = "free"
    /\ cur < MaxRequests
    /\ pc' = "acquired"
    /\ cur' = cur + 1
    /\ asked' = [asked EXCEPT ![cur + 1] = clock]
    /\ stamp' = [stamp EXCEPT ![cur + 1] = monotonic]
    /\ memory' = Fresh(memory, monotonic)
    /\ UNCHANGED <<clock, boot, database, total, answer>>

\* Slips of Count: the cleanup keeps less than the window; the request counts
\* itself.
CountTooFew ==
    /\ pc = "acquired"
    /\ database' = {i \in database : stamp[cur] - stamp[i] < Window}
    /\ total' = Cardinality(memory) + Cardinality(database')
    /\ memory' = memory \cup {cur}
    /\ pc' = "counted"
    /\ UNCHANGED <<clock, boot, cur, asked, stamp, answer>>
CountWithCurrent ==
    /\ pc = "acquired"
    /\ database' = Fresh(database, stamp[cur])
    /\ memory' = memory \cup {cur}
    /\ total' = Cardinality(memory') + Cardinality(database')
    /\ pc' = "counted"
    /\ UNCHANGED <<clock, boot, cur, asked, stamp, answer>>
\* _get_and_cleanup_db_events in a thread, 0 if the database fails; then the
\* deque takes the request.  The query uses the time read by Acquire.
Count ==
    /\ pc = "acquired"
    /\ \/ /\ database' = Fresh(database, stamp[cur])
          /\ total' = Cardinality(memory) + Cardinality(database')
       \/ /\ "database" \in Faults
          /\ database' = database
          /\ total' = Cardinality(memory)
    /\ memory' = memory \cup {cur}
    /\ pc' = "counted"
    /\ UNCHANGED <<clock, boot, cur, asked, stamp, answer>>

\* _add_db_event in a thread; a failure is logged and ignored.
Insert ==
    /\ pc = "counted"
    /\ \/ database' = database \cup {cur}
       \/ "database" \in Faults /\ database' = database
    /\ pc' = "inserted"
    /\ UNCHANGED <<clock, boot, cur, asked, stamp, memory, total, answer>>

\* A slip of Answer: the limit itself is still served.
AnswerOffByOne ==
    /\ pc = "inserted"
    /\ answer' = [answer EXCEPT ![cur] = IF total > MaxLimit THEN "refused" ELSE "served"]
    /\ pc' = "free"
    /\ UNCHANGED <<clock, boot, cur, asked, stamp, memory, database, total>>

\* The request goes on to its route or is refused, and the lock is released.
Answer ==
    /\ pc = "inserted"
    /\ answer' = [answer EXCEPT ![cur] = IF total >= MaxLimit THEN "refused" ELSE "served"]
    /\ pc' = "free"
    /\ UNCHANGED <<clock, boot, cur, asked, stamp, memory, database, total>>

\* The process is started again: the deque and the request under way are lost.
Restart ==
    /\ \/ "restart" \in Faults /\ boot' = boot
       \/ "reboot" \in Faults /\ boot' = clock      \* and the host with it
    /\ memory' = {}
    /\ answer' = IF pc = "free" THEN answer ELSE [answer EXCEPT ![cur] = "lost"]
    /\ pc' = "free"
    /\ UNCHANGED <<clock, cur, asked, stamp, database, total>>

Next == Tick \/ Acquire \/ Count \/ Insert \/ Answer \/ Restart

Spec == Init /\ [][Next]_vars

-----------------------------------------------------------------------------
(* Properties *)

Answers == {"none", "served", "refused", "lost"}

TypeOK ==
    /\ clock \in 0..MaxTime
    /\ boot \in 0..MaxTime
    /\ pc \in {"free", "acquired", "counted", "inserted"}
    /\ cur \in 0..MaxRequests
    /\ asked \in [Requests -> -1..MaxTime]
    /\ stamp \in [Requests -> -1..MaxTime]
    /\ memory \subseteq 1..cur
    /\ database \subseteq 1..cur
    /\ total \in 0..(2 * MaxRequests)
    /\ answer \in [Requests -> Answers]

\* The requests before i within the window that ends when i is made.
Before(i) == {j \in 1..(i - 1) : asked[i] - asked[j] <= Window}

Served == {i \in Requests : answer[i] = "served"}

\* No window holds more served requests than the limit: not with a database that
\* fails, nor with restarts, since one of the two counters survives either.
AtMostLimit ==
    \A i \in Served : Cardinality(Before(i) \cap Served) < MaxLimit

\* A request is refused only if the requests within the window before it, both
\* counters taken together, reach the limit: a client that slows down is served
\* again, unless the host was started again and its clock with it.
RefusedWhenBusy ==
    \A i \in Requests : answer[i] = "refused" => 2 * Cardinality(Before(i)) >= MaxLimit

\* Without faults the limiter is a sliding window for half its limit.
Sliding == INSTANCE SlidingWindow
               WITH Limit <- (MaxLimit + 1) \div 2
IsSlidingWindow == Sliding!Spec

\* "First 3 requests should succeed": below max_requests a request is served.
ServedBelowLimit ==
    \A i \in Requests : answer[i] = "refused" => Cardinality(Before(i)) >= MaxLimit
=============================================================================
