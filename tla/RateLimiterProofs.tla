-------------------------- MODULE RateLimiterProofs --------------------------
(***************************************************************************)
(* The bounds of the rate limiter for every limit, window and number of    *)
(* requests, and that without faults it is a sliding window.               *)
(*                                                                         *)
(* The argument: the counter that the faults leave whole (the deque, or    *)
(* the table) holds every request served within the window, so that the    *)
(* total is not less than their number; and neither counter holds what is  *)
(* older than the window, so that the total is not more than twice the     *)
(* number of requests made within it.                                      *)
(***************************************************************************)
EXTENDS RateLimiter, FiniteSetTheorems, TLAPS

UnderWay == pc # "free"

\* Requests are made in the order of their numbers, one at a time.
InOrder ==
    /\ boot <= clock
    /\ \A i \in Requests : i > cur => asked[i] = -1 /\ answer[i] = "none"
    /\ \A i \in 1..cur : /\ asked[i] \in 0..clock
                         /\ stamp[i] <= asked[i]
                         /\ asked[i] - boot <= stamp[i]
    /\ \A i, j \in 1..cur : i <= j => asked[i] <= asked[j]
    /\ \A i \in 1..cur : answer[i] = "none" <=> i = cur /\ UnderWay

\* What the request under way has done so far.
SoFar ==
    /\ UnderWay => cur >= 1
    /\ pc = "acquired" => cur \notin memory /\ cur \notin database
    /\ pc \in {"acquired", "counted"} => stamp[cur] = asked[cur] - boot

BaseInv == TypeOK /\ InOrder /\ SoFar

-----------------------------------------------------------------------------

LEMMA Counting ==
  ASSUME NEW n \in Nat, NEW T \in SUBSET (1..n)
  PROVE  IsFiniteSet(T) /\ Cardinality(T) \in Nat /\ Cardinality(T) <= n
<1>1. IsFiniteSet(1..n) /\ Cardinality(1..n) = n
  BY FS_Interval
<1>2. IsFiniteSet(T) /\ Cardinality(T) <= n
  BY <1>1, FS_Subset
<1>. QED BY <1>2, FS_CardinalityType

LEMMA Smaller ==
  ASSUME NEW n \in Nat, NEW T \in SUBSET (1..n), NEW S \in SUBSET T
  PROVE  Cardinality(S) <= Cardinality(T)
BY Counting, FS_Subset

LEMMA FreshSubset ==
  ASSUME NEW S, NEW now
  PROVE  Fresh(S, now) \subseteq S
BY DEF Fresh

LEMMA InitBase == Init => BaseInv
<1>. SUFFICES ASSUME Init PROVE BaseInv
  OBVIOUS
<1>1. TypeOK
  BY LimiterAssumption DEF Init, TypeOK, Answers
<1>2. InOrder /\ SoFar
  BY DEF Init, InOrder, SoFar, UnderWay, Requests
<1>. QED BY <1>1, <1>2 DEF BaseInv

LEMMA TickBase == BaseInv /\ Tick => BaseInv'
<1>. SUFFICES ASSUME BaseInv, Tick PROVE BaseInv'
  OBVIOUS
<1>. USE DEF BaseInv
<1>1. /\ clock' = clock + 1 /\ clock \in Nat /\ clock' \in 0..MaxTime
      /\ UNCHANGED <<boot, pc, cur, asked, stamp, memory, database, total, answer>>
  BY LimiterAssumption DEF Tick, TypeOK
<1>2. TypeOK' /\ SoFar'
  BY <1>1 DEF TypeOK, SoFar, UnderWay
<1>3. InOrder'
  <2>1. boot' <= clock'
    BY <1>1, LimiterAssumption DEF InOrder, TypeOK
  <2>. QED BY <1>1, <2>1 DEF InOrder, UnderWay
<1>. QED BY <1>2, <1>3

LEMMA AcquireBase == BaseInv /\ Acquire => BaseInv'
<1>. SUFFICES ASSUME BaseInv, Acquire PROVE BaseInv'
  OBVIOUS
<1>. USE DEF BaseInv
<1>1. /\ pc = "free" /\ pc' = "acquired" /\ cur' = cur + 1 /\ cur \in Nat
      /\ cur' \in Requests /\ cur' \in 1..MaxRequests
      /\ asked' = [asked EXCEPT ![cur'] = clock]
      /\ stamp' = [stamp EXCEPT ![cur'] = clock - boot]
      /\ memory' \subseteq memory
      /\ UNCHANGED <<clock, boot, database, total, answer>>
  BY LimiterAssumption, FreshSubset DEF Acquire, TypeOK, Requests, monotonic
<1>2. clock \in Nat /\ boot \in Nat /\ boot <= clock /\ clock <= MaxTime
  BY LimiterAssumption DEF TypeOK, InOrder
<1>3. /\ asked'[cur'] = clock /\ stamp'[cur'] = clock - boot
      /\ \A i \in Requests : i # cur' => asked'[i] = asked[i] /\ stamp'[i] = stamp[i]
  BY <1>1 DEF TypeOK
<1>4. 1..cur' = 1..cur \cup {cur'} /\ 1..cur' \subseteq Requests /\ cur' \notin 1..cur
  BY <1>1, LimiterAssumption DEF Requests
<1>5. TypeOK'
  BY <1>1, <1>2, <1>4, LimiterAssumption DEF TypeOK
<1>6. InOrder'
  <2>1. \A i \in Requests : i > cur' => asked'[i] = -1 /\ answer'[i] = "none"
    BY <1>1, <1>3 DEF InOrder, Requests
  <2>2. \A i \in 1..cur' : asked'[i] \in 0..clock' /\ stamp'[i] <= asked'[i]
                             /\ asked'[i] - boot' <= stamp'[i]
    BY <1>1, <1>2, <1>3, <1>4 DEF InOrder
  <2>3. \A i, j \in 1..cur' : i <= j => asked'[i] <= asked'[j]
    <3>. SUFFICES ASSUME NEW i \in 1..cur', NEW j \in 1..cur', i <= j
                  PROVE  asked'[i] <= asked'[j]
      OBVIOUS
    <3>1. CASE j = cur'
      BY <1>1, <1>2, <1>3, <2>2, <3>1
    <3>2. CASE j # cur'
      <4>1. i \in 1..cur /\ j \in 1..cur
        BY <1>1, <1>4, <3>2
      <4>. QED BY <1>3, <1>4, <4>1 DEF InOrder
    <3>. QED BY <3>1, <3>2
  <2>4. \A i \in 1..cur' : answer'[i] = "none" <=> i = cur' /\ UnderWay'
    BY <1>1, <1>4 DEF InOrder, UnderWay, Requests
  <2>. QED BY <1>1, <1>2, <2>1, <2>2, <2>3, <2>4 DEF InOrder
<1>7. SoFar'
  BY <1>1, <1>2, <1>3, <1>4 DEF SoFar, UnderWay, TypeOK
<1>. QED BY <1>5, <1>6, <1>7

\* What a total of both counters can be.
LEMMA TotalType ==
  ASSUME BaseInv, Count
  PROVE  /\ total' \in Nat /\ total' <= 2 * MaxRequests
         /\ database' \subseteq database
         /\ Cardinality(memory) \in Nat /\ Cardinality(database') \in Nat
         /\ total' = Cardinality(memory) + Cardinality(database') \/ total' = Cardinality(memory)
<1>1. cur \in Nat /\ cur <= MaxRequests /\ MaxRequests \in Nat
  BY LimiterAssumption DEF BaseInv, TypeOK
<1>2. database' \subseteq database
  BY FreshSubset DEF Count
<1>3. memory \in SUBSET (1..cur) /\ database' \in SUBSET (1..cur)
  BY <1>2 DEF BaseInv, TypeOK
<1>4. /\ Cardinality(memory) \in Nat /\ Cardinality(memory) <= cur
      /\ Cardinality(database') \in Nat /\ Cardinality(database') <= cur
  BY <1>1, <1>3, Counting
<1>5. total' = Cardinality(memory) + Cardinality(database') \/ total' = Cardinality(memory)
  BY DEF Count
<1>. QED BY <1>1, <1>2, <1>4, <1>5

LEMMA CountBase == BaseInv /\ Count => BaseInv'
<1>. SUFFICES ASSUME BaseInv, Count PROVE BaseInv'
  OBVIOUS
<1>1. /\ pc = "acquired" /\ pc' = "counted" /\ memory' = memory \cup {cur}
      /\ UNCHANGED <<clock, boot, cur, asked, stamp, answer>>
  BY DEF Count
<1>2. database' \subseteq database /\ total' \in 0..(2 * MaxRequests)
  BY TotalType, LimiterAssumption
<1>3. TypeOK'
  BY <1>1, <1>2 DEF BaseInv, TypeOK, SoFar, UnderWay
<1>. QED BY <1>1, <1>3 DEF BaseInv, InOrder, SoFar, UnderWay

LEMMA InsertBase == BaseInv /\ Insert => BaseInv'
<1>. SUFFICES ASSUME BaseInv, Insert PROVE BaseInv'
  OBVIOUS
<1>1. /\ pc = "counted" /\ pc' = "inserted"
      /\ database' \subseteq database \cup {cur}
      /\ UNCHANGED <<clock, boot, cur, asked, stamp, memory, total, answer>>
  BY DEF Insert
<1>2. TypeOK'
  BY <1>1 DEF BaseInv, TypeOK, SoFar, UnderWay
<1>. QED BY <1>1, <1>2 DEF BaseInv, InOrder, SoFar, UnderWay

LEMMA AnswerBase == BaseInv /\ Answer => BaseInv'
<1>. SUFFICES ASSUME BaseInv, Answer PROVE BaseInv'
  OBVIOUS
<1>1. /\ pc = "inserted" /\ pc' = "free" /\ cur \in Requests /\ cur \in 1..cur
      /\ UNCHANGED <<clock, boot, cur, asked, stamp, memory, database, total>>
  BY LimiterAssumption DEF BaseInv, SoFar, UnderWay, TypeOK, Answer, Requests
<1>2. PICK a \in {"served", "refused"} : answer' = [answer EXCEPT ![cur] = a]
  BY DEF Answer
<1>3. /\ answer'[cur] # "none"
      /\ \A i \in Requests : i # cur => answer'[i] = answer[i]
  BY <1>1, <1>2 DEF BaseInv, TypeOK
<1>4. TypeOK'
  BY <1>1, <1>2 DEF BaseInv, TypeOK, Answers
<1>5. InOrder'
  <2>1. 1..cur \subseteq Requests
    BY LimiterAssumption DEF BaseInv, TypeOK, Requests
  <2>. QED BY <1>1, <1>3, <2>1 DEF BaseInv, InOrder, UnderWay
<1>. QED BY <1>1, <1>4, <1>5 DEF BaseInv, SoFar, UnderWay

LEMMA RestartBase == BaseInv /\ Restart => BaseInv'
<1>. SUFFICES ASSUME BaseInv, Restart PROVE BaseInv'
  OBVIOUS
<1>1. /\ pc' = "free" /\ memory' = {} /\ (boot' = boot \/ boot' = clock)
      /\ UNCHANGED <<clock, cur, asked, stamp, database, total>>
  BY DEF Restart
<1>2. /\ clock \in Nat /\ boot \in Nat /\ boot <= clock
      /\ clock \in 0..MaxTime /\ 1..cur \subseteq Requests
  BY LimiterAssumption DEF BaseInv, TypeOK, InOrder, Requests
<1>3. /\ boot' \in 0..MaxTime /\ boot' \in Nat /\ boot <= boot' /\ boot' <= clock
  BY <1>1, <1>2 DEF BaseInv, TypeOK
<1>4. answer' \in [Requests -> Answers] /\ \A i \in Requests :
        /\ i \notin 1..cur => answer'[i] = answer[i]
        /\ i \in 1..cur => answer'[i] # "none"
  <2>1. CASE pc = "free"
    BY <2>1 DEF Restart, BaseInv, TypeOK, InOrder, UnderWay
  <2>2. CASE pc # "free"
    <3>1. answer' = [answer EXCEPT ![cur] = "lost"]
      BY <2>2 DEF Restart
    <3>2. cur \in 1..cur /\ cur \in Requests
      BY <1>2, <2>2, LimiterAssumption DEF BaseInv, SoFar, UnderWay, TypeOK
    <3>. QED BY <3>1, <3>2 DEF BaseInv, TypeOK, InOrder, UnderWay, Answers
  <2>. QED BY <2>1, <2>2
<1>5. TypeOK'
  BY <1>1, <1>3, <1>4 DEF BaseInv, TypeOK
<1>6. InOrder'
  <2>1. \A i \in Requests : i > cur' => asked'[i] = -1 /\ answer'[i] = "none"
    BY <1>1, <1>4 DEF BaseInv, InOrder, Requests
  <2>2. \A i \in 1..cur' : asked'[i] \in 0..clock' /\ stamp'[i] <= asked'[i]
                             /\ asked'[i] - boot' <= stamp'[i]
    <3>. SUFFICES ASSUME NEW i \in 1..cur
                  PROVE  /\ asked[i] \in 0..clock /\ stamp[i] <= asked[i]
                         /\ asked[i] - boot' <= stamp[i]
      BY <1>1
    <3>1. asked[i] \in Int /\ stamp[i] \in Int /\ asked[i] - boot <= stamp[i]
      BY <1>2, LimiterAssumption DEF BaseInv, TypeOK, InOrder
    <3>. QED BY <1>2, <1>3, <3>1 DEF BaseInv, InOrder
  <2>3. \A i \in 1..cur' : answer'[i] = "none" <=> i = cur' /\ UnderWay'
    BY <1>1, <1>2, <1>4 DEF UnderWay
  <2>. QED BY <1>1, <1>3, <2>1, <2>2, <2>3 DEF BaseInv, InOrder
<1>. QED BY <1>1, <1>5, <1>6 DEF BaseInv, SoFar, UnderWay

LEMMA BaseStep == BaseInv /\ [Next]_vars => BaseInv'
<1>. SUFFICES ASSUME BaseInv, [Next]_vars PROVE BaseInv'
  OBVIOUS
<1>1. CASE UNCHANGED vars
  BY <1>1 DEF vars, BaseInv, TypeOK, InOrder, SoFar, UnderWay
<1>. QED BY <1>1, TickBase, AcquireBase, CountBase, InsertBase, AnswerBase, RestartBase
        DEF Next

THEOREM BaseInvariance == Spec => []BaseInv
<1>. QED BY InitBase, BaseStep, PTL DEF Spec

\* Types.
THEOREM TypeCorrect == Spec => []TypeOK
<1>1. BaseInv => TypeOK
  BY DEF BaseInv
<1>. QED BY <1>1, BaseInvariance, PTL

-----------------------------------------------------------------------------
(* No window holds more served requests than the limit *)

\* At least one of the two counters survives the faults.
OneCounterSurvives == Faults \subseteq {"database"} \/ "database" \notin Faults

\* Every served request within the window of the latest request is in the store.
Kept(store) ==
    \A j \in 1..cur : answer[j] = "served" /\ asked[cur] - asked[j] <= Window => j \in store

LowerInv ==
    /\ Faults \subseteq {"database"} => Kept(memory)
    /\ "database" \notin Faults => Kept(database)
    /\ pc \in {"counted", "inserted"} =>
          /\ cur \in memory
          /\ total >= Cardinality(Before(cur) \cap Served)
    /\ pc = "inserted" /\ "database" \notin Faults => cur \in database
    /\ AtMostLimit

\* What is kept stays kept when only expired entries are removed.
LEMMA FreshKept ==
  ASSUME BaseInv, NEW store, Kept(store), NEW time \in Int, UnderWay \/ pc = "free",
         cur \in 1..cur => asked[cur] <= time,
         NEW j \in 1..cur, answer[j] = "served", time - asked[j] <= Window
  PROVE  j \in Fresh(store, time - boot)
<1>1. /\ cur \in Nat /\ cur \in 1..cur /\ boot \in Int /\ Window \in Int
      /\ asked[j] \in Int /\ asked[cur] \in Int /\ stamp[j] \in Int
      /\ asked[j] - boot <= stamp[j]
  BY LimiterAssumption DEF BaseInv, TypeOK, InOrder, Requests
<1>2. j \in store
  BY <1>1 DEF Kept
<1>3. (time - boot) - stamp[j] <= Window
  BY <1>1
<1>. QED BY <1>2, <1>3 DEF Fresh

LEMMA InitLower == Init => LowerInv
BY DEF Init, LowerInv, Kept, AtMostLimit, Served

LEMMA LowerUnchanged ==
  ASSUME BaseInv, LowerInv, UNCHANGED <<pc, cur, asked, memory, database, total, answer>>
  PROVE  LowerInv'
BY DEF LowerInv, Kept, AtMostLimit, Served, Before

LEMMA LowerAcquire ==
  ASSUME BaseInv, LowerInv, Acquire, BaseInv'
  PROVE  LowerInv'
<1>1. /\ pc = "free" /\ pc' = "acquired" /\ cur' = cur + 1 /\ cur \in Nat
      /\ cur' \in Requests /\ clock \in Int
      /\ asked' = [asked EXCEPT ![cur'] = clock]
      /\ memory' = Fresh(memory, clock - boot)
      /\ UNCHANGED <<clock, boot, database, total, answer>>
  BY LimiterAssumption DEF Acquire, BaseInv, TypeOK, Requests, monotonic
<1>2. /\ asked'[cur'] = clock
      /\ \A i \in Requests : i # cur' => asked'[i] = asked[i]
  BY <1>1 DEF BaseInv, TypeOK
<1>3. 1..cur' = 1..cur \cup {cur'} /\ 1..cur' \subseteq Requests /\ cur' \notin 1..cur
  BY <1>1, LimiterAssumption DEF Requests
<1>4. answer[cur'] = "none"
  BY <1>1 DEF BaseInv, InOrder, Requests
<1>5. cur \in 1..cur => asked[cur] <= clock /\ asked[cur] \in Int
  BY LimiterAssumption DEF BaseInv, InOrder, TypeOK
<1>6. ASSUME NEW j \in 1..cur', answer'[j] = "served", asked'[cur'] - asked'[j] <= Window
      PROVE  j \in 1..cur /\ answer[j] = "served" /\ clock - asked[j] <= Window
             /\ asked[cur] - asked[j] <= Window
  <2>1. j \in 1..cur /\ answer[j] = "served" /\ clock - asked[j] <= Window
    BY <1>1, <1>2, <1>3, <1>4, <1>6
  <2>2. asked[j] \in Int /\ asked[cur] \in Int /\ asked[cur] <= clock /\ Window \in Int
    BY <1>1, <2>1, <1>5, LimiterAssumption DEF BaseInv, InOrder, TypeOK, Requests
  <2>. QED BY <1>1, <2>1, <2>2
<1>7. Faults \subseteq {"database"} => Kept(memory)'
  <2>. SUFFICES ASSUME Faults \subseteq {"database"},
                       NEW j \in 1..cur', answer'[j] = "served",
                       asked'[cur'] - asked'[j] <= Window
                PROVE  j \in memory'
    BY DEF Kept
  <2>1. Kept(memory)
    BY DEF LowerInv
  <2>. QED BY <1>1, <1>5, <1>6, <2>1, FreshKept
<1>8. "database" \notin Faults => Kept(database)'
  BY <1>1, <1>6 DEF LowerInv, Kept
<1>9. AtMostLimit'
  <2>. SUFFICES ASSUME NEW i \in Served
                PROVE  Cardinality(Before(i)' \cap Served) < MaxLimit
    BY <1>1 DEF AtMostLimit, Served
  <2>1. i \in 1..cur
    BY <1>1 DEF Served, BaseInv, InOrder, Requests
  <2>2. \A j \in 1..(i - 1) : j \in 1..cur
    BY <1>1, <2>1
  <2>3. \A j \in 1..cur : asked'[j] = asked[j]
    BY <1>2, <1>3
  <2>4. Before(i)' = Before(i)
    BY <2>1, <2>2, <2>3 DEF Before
  <2>. QED BY <2>4 DEF LowerInv, AtMostLimit
<1>. QED BY <1>1, <1>7, <1>8, <1>9 DEF LowerInv

LEMMA LowerCount ==
  ASSUME OneCounterSurvives, BaseInv, LowerInv, Count
  PROVE  LowerInv'
<1>1. /\ pc = "acquired" /\ pc' = "counted" /\ memory' = memory \cup {cur}
      /\ UNCHANGED <<clock, boot, cur, asked, stamp, answer>>
  BY DEF Count
<1>2. /\ cur \in Nat /\ cur \in 1..cur /\ asked[cur] \in Int /\ Window \in Int
      /\ stamp[cur] = asked[cur] - boot /\ UnderWay
      /\ memory \in SUBSET (1..cur) /\ database' \in SUBSET (1..cur)
  <2>1. cur \in Nat /\ cur \in 1..cur /\ cur \in Requests /\ Window \in Int
    BY <1>1, LimiterAssumption DEF BaseInv, TypeOK, SoFar, UnderWay, Requests
  <2>2. stamp[cur] = asked[cur] - boot /\ UnderWay /\ asked[cur] \in Int
    BY <1>1, <2>1, LimiterAssumption DEF BaseInv, TypeOK, SoFar, UnderWay
  <2>3. memory \in SUBSET (1..cur) /\ database' \in SUBSET (1..cur)
    BY TotalType DEF BaseInv, TypeOK
  <2>. QED BY <2>1, <2>2, <2>3
<1>3. "database" \notin Faults => Kept(database)'
  <2>. SUFFICES ASSUME "database" \notin Faults,
                       NEW j \in 1..cur, answer[j] = "served", asked[cur] - asked[j] <= Window
                PROVE  j \in database'
    BY <1>1 DEF Kept
  <2>1. database' = Fresh(database, asked[cur] - boot)
    BY <1>2 DEF Count
  <2>2. Kept(database)
    BY DEF LowerInv
  <2>. QED BY <1>2, <2>1, <2>2, FreshKept
<1>. DEFINE recent == Before(cur) \cap Served
<1>4. \A j \in recent : j \in 1..cur /\ answer[j] = "served" /\ asked[cur] - asked[j] <= Window
  BY <1>2 DEF Before, Served
<1>5. recent \in SUBSET (1..cur)
  BY <1>4
<1>. HIDE DEF recent
<1>6. Cardinality(recent) \in Nat
  BY <1>2, <1>5, Counting
<1>7. total' >= Cardinality(recent)
  <2>1. CASE Faults \subseteq {"database"}
    <3>1. recent \subseteq memory
      BY <1>4, <2>1 DEF LowerInv, Kept
    <3>2. Cardinality(recent) <= Cardinality(memory)
      BY <1>2, <3>1, Smaller
    <3>. QED BY <1>6, <3>2, TotalType
  <2>2. CASE "database" \notin Faults
    <3>1. recent \subseteq database'
      BY <1>1, <1>3, <1>4, <2>2 DEF Kept
    <3>2. Cardinality(recent) <= Cardinality(database')
      BY <1>2, <3>1, Smaller
    <3>3. total' = Cardinality(memory) + Cardinality(database')
      BY <2>2 DEF Count
    <3>. QED BY <1>6, <3>2, <3>3, TotalType
  <2>. QED BY <2>1, <2>2 DEF OneCounterSurvives
<1>8. recent' = recent /\ AtMostLimit'
  BY <1>1 DEF recent, Before, Served, LowerInv, AtMostLimit
<1>9. Faults \subseteq {"database"} => Kept(memory)'
  BY <1>1 DEF LowerInv, Kept
<1>10. (Before(cur) \cap Served)' = recent
  BY <1>8 DEF recent
<1>. QED BY <1>1, <1>3, <1>7, <1>8, <1>9, <1>10 DEF LowerInv

LEMMA LowerInsert ==
  ASSUME BaseInv, LowerInv, Insert
  PROVE  LowerInv'
BY DEF Insert, LowerInv, Kept, AtMostLimit, Served, Before

LEMMA LowerAnswer ==
  ASSUME BaseInv, LowerInv, Answer
  PROVE  LowerInv'
<1>1. /\ pc = "inserted" /\ pc' = "free" /\ cur \in Nat /\ cur \in Requests
      /\ UNCHANGED <<clock, boot, cur, asked, stamp, memory, database, total>>
  BY LimiterAssumption DEF BaseInv, SoFar, UnderWay, TypeOK, Answer, Requests
<1>2. /\ answer'[cur] = IF total >= MaxLimit THEN "refused" ELSE "served"
      /\ \A i \in Requests : i # cur => answer'[i] = answer[i]
  BY <1>1 DEF Answer, BaseInv, TypeOK
<1>3. 1..cur \subseteq Requests
  BY <1>1, LimiterAssumption DEF Requests
<1>4. Faults \subseteq {"database"} => Kept(memory)'
  BY <1>1, <1>2, <1>3 DEF LowerInv, Kept
<1>5. "database" \notin Faults => Kept(database)'
  BY <1>1, <1>2, <1>3 DEF LowerInv, Kept
<1>6. \A i \in Requests : i \in Served' <=> (i \in Served /\ i # cur) \/ (i = cur /\ total < MaxLimit)
  BY <1>1, <1>2, LimiterAssumption DEF Served, BaseInv, TypeOK
<1>7. ASSUME NEW i \in Served'
      PROVE  Cardinality(Before(i)' \cap Served') < MaxLimit
  <2>1. i \in 1..cur /\ i \in Requests
    <3>1. i \in Requests /\ (i \in Served \/ i = cur)
      BY <1>6, <1>7 DEF Served
    <3>. QED BY <1>1, <3>1 DEF Served, BaseInv, InOrder, Requests
  <2>2. \A j \in Before(i) : j \in Requests /\ j # cur
    BY <1>1, <2>1, LimiterAssumption DEF Before, Requests
  <2>3. Before(i)' \cap Served' = Before(i) \cap Served
    <3>1. Before(i)' = Before(i)
      BY <1>1 DEF Before
    <3>. QED BY <1>6, <2>2, <3>1
  <2>4. CASE i = cur
    <3>1. total < MaxLimit /\ total \in Nat
      BY <1>6, <1>7, <2>1, <2>4, LimiterAssumption DEF BaseInv, TypeOK
    <3>2. total >= Cardinality(Before(cur) \cap Served)
      BY <1>1 DEF LowerInv
    <3>3. Before(cur) \cap Served \in SUBSET (1..cur)
      BY <1>1 DEF Before
    <3>4. Cardinality(Before(cur) \cap Served) \in Nat
      BY <1>1, <3>3, Counting
    <3>. QED BY <2>3, <2>4, <3>1, <3>2, <3>4, LimiterAssumption
  <2>5. CASE i # cur
    BY <1>6, <1>7, <2>1, <2>3, <2>5 DEF LowerInv, AtMostLimit
  <2>. QED BY <2>4, <2>5
<1>8. AtMostLimit'
  BY <1>7 DEF AtMostLimit
<1>. QED BY <1>1, <1>4, <1>5, <1>8 DEF LowerInv

LEMMA LowerRestart ==
  ASSUME BaseInv, LowerInv, Restart
  PROVE  LowerInv'
<1>1. /\ pc' = "free" /\ ~ (Faults \subseteq {"database"})
      /\ UNCHANGED <<clock, cur, asked, stamp, database, total>>
  BY DEF Restart
<1>2. \A i \in Requests : answer'[i] = "served" <=> answer[i] = "served"
  <2>1. CASE pc = "free"
    BY <2>1 DEF Restart
  <2>2. CASE pc # "free"
    <3>1. answer' = [answer EXCEPT ![cur] = "lost"]
      BY <2>2 DEF Restart
    <3>2. cur \in 1..cur /\ cur \in Requests /\ answer[cur] = "none"
      BY <2>2, LimiterAssumption DEF BaseInv, InOrder, SoFar, UnderWay, TypeOK, Requests
    <3>. QED BY <3>1, <3>2 DEF BaseInv, TypeOK
  <2>. QED BY <2>1, <2>2
<1>3. Served' = Served /\ \A i : Before(i)' = Before(i)
  BY <1>1, <1>2 DEF Served, Before
<1>4. 1..cur \subseteq Requests
  BY LimiterAssumption DEF BaseInv, TypeOK, Requests
<1>5. "database" \notin Faults => Kept(database)'
  BY <1>1, <1>2, <1>4 DEF LowerInv, Kept
<1>6. AtMostLimit'
  BY <1>3 DEF LowerInv, AtMostLimit
<1>. QED BY <1>1, <1>5, <1>6 DEF LowerInv

\* RateLimiter.check serves at most max_requests requests in any window, with a
\* database that fails or with restarts of process and host, for every limit
\* and window.
THEOREM AtMostLimitIsServed == OneCounterSurvives => (Spec => []AtMostLimit)
<1>. SUFFICES ASSUME OneCounterSurvives PROVE Spec => []AtMostLimit
  OBVIOUS
<1>1. BaseInv /\ BaseInv' /\ LowerInv /\ [Next]_vars => LowerInv'
  <2>. SUFFICES ASSUME BaseInv, BaseInv', LowerInv, [Next]_vars PROVE LowerInv'
    OBVIOUS
  <2>1. CASE UNCHANGED vars \/ Tick
    BY <2>1, LowerUnchanged DEF vars, Tick
  <2>. QED BY <2>1, LowerAcquire, LowerCount, LowerInsert, LowerAnswer, LowerRestart DEF Next
<1>2. LowerInv => AtMostLimit
  BY DEF LowerInv
<1>. QED BY <1>1, <1>2, InitLower, BaseInvariance, PTL DEF Spec

-----------------------------------------------------------------------------
(* A refusal needs requests within the window *)

UpperInv ==
    /\ boot = 0
    /\ pc = "acquired" => memory \subseteq Before(cur)
    /\ pc \in {"counted", "inserted"} => total <= 2 * Cardinality(Before(cur))
    /\ RefusedWhenBusy

\* Without a reboot stamps are the times a client sees, so that what is fresh for
\* the latest request is within the window before it.
LEMMA FreshIsRecent ==
  ASSUME BaseInv, boot = 0, cur \in 1..cur, NEW store \in SUBSET (1..cur), cur \notin store
  PROVE  Fresh(store, asked[cur]) \subseteq Before(cur)
<1>. SUFFICES ASSUME NEW j \in store, asked[cur] - stamp[j] <= Window
              PROVE  j \in Before(cur)
  BY DEF Fresh
<1>1. j \in 1..(cur - 1)
  OBVIOUS
<1>2. stamp[j] = asked[j]
  BY LimiterAssumption DEF BaseInv, InOrder, TypeOK, Requests
<1>. QED BY <1>1, <1>2 DEF Before

LEMMA InitUpper == Init => UpperInv
BY DEF Init, UpperInv, RefusedWhenBusy

LEMMA UpperUnchanged ==
  ASSUME UpperInv, UNCHANGED <<boot, pc, cur, asked, memory, total, answer>>
  PROVE  UpperInv'
BY DEF UpperInv, RefusedWhenBusy, Before

LEMMA UpperAcquire ==
  ASSUME BaseInv, UpperInv, Acquire, BaseInv'
  PROVE  UpperInv'
<1>1. /\ pc = "free" /\ pc' = "acquired" /\ cur' = cur + 1 /\ cur \in Nat
      /\ cur' \in Requests /\ cur' \in 1..cur' /\ clock \in Int
      /\ asked' = [asked EXCEPT ![cur'] = clock]
      /\ stamp' = [stamp EXCEPT ![cur'] = clock - boot]
      /\ memory' = Fresh(memory, clock - boot)
      /\ UNCHANGED <<clock, boot, database, total, answer>>
  BY LimiterAssumption DEF Acquire, BaseInv, TypeOK, Requests, monotonic
<1>2. /\ asked'[cur'] = clock
      /\ \A i \in Requests : i # cur' => asked'[i] = asked[i] /\ stamp'[i] = stamp[i]
  BY <1>1 DEF BaseInv, TypeOK
<1>3. memory' \subseteq Before(cur)'
  <2>. SUFFICES ASSUME NEW j \in memory, clock - stamp[j] <= Window
                PROVE  j \in Before(cur)'
    BY <1>1 DEF Fresh, UpperInv
  <2>1. j \in 1..cur /\ j \in Requests /\ j # cur' /\ j \in 1..(cur' - 1)
    BY <1>1, LimiterAssumption DEF BaseInv, TypeOK, Requests
  <2>2. stamp[j] = asked[j]
    BY <2>1, LimiterAssumption DEF BaseInv, InOrder, TypeOK, UpperInv
  <2>3. asked'[j] = asked[j]
    BY <1>2, <2>1
  <2>. QED BY <1>2, <2>1, <2>2, <2>3 DEF Before
<1>4. RefusedWhenBusy'
  <2>. SUFFICES ASSUME NEW i \in Requests, answer[i] = "refused"
                PROVE  2 * Cardinality(Before(i)') >= MaxLimit
    BY <1>1 DEF RefusedWhenBusy
  <2>1. i \in 1..cur
    BY <1>1 DEF BaseInv, InOrder, Requests
  <2>2. \A j \in 1..i : j \in Requests /\ j # cur'
    BY <1>1, <2>1, LimiterAssumption DEF Requests
  <2>3. \A j \in 1..i : asked'[j] = asked[j]
    BY <1>2, <2>2
  <2>4. Before(i)' = Before(i)
    BY <1>1, <2>1, <2>3 DEF Before
  <2>. QED BY <2>4 DEF UpperInv, RefusedWhenBusy
<1>. QED BY <1>1, <1>3, <1>4 DEF UpperInv

LEMMA UpperCount ==
  ASSUME BaseInv, UpperInv, Count
  PROVE  UpperInv'
<1>1. /\ pc = "acquired" /\ pc' = "counted" /\ memory' = memory \cup {cur}
      /\ UNCHANGED <<clock, boot, cur, asked, stamp, answer>>
  BY DEF Count
<1>2. /\ cur \in Nat /\ cur \in 1..cur /\ cur \in Requests /\ boot = 0
      /\ database \in SUBSET (1..cur) /\ cur \notin database /\ UnderWay
  BY <1>1, LimiterAssumption DEF BaseInv, TypeOK, SoFar, UnderWay, UpperInv, Requests
<1>3. stamp[cur] = asked[cur]
  BY <1>1, <1>2, LimiterAssumption DEF BaseInv, SoFar, TypeOK
<1>4. Before(cur) \in SUBSET (1..cur)
  BY <1>2 DEF Before
<1>5. /\ Cardinality(memory) \in Nat /\ Cardinality(Before(cur)) \in Nat
      /\ Cardinality(memory) <= Cardinality(Before(cur))
  BY <1>1, <1>2, <1>4, Smaller, Counting, TotalType DEF UpperInv
<1>6. total' <= 2 * Cardinality(Before(cur))
  <2>1. CASE total' = Cardinality(memory)
    BY <1>5, <2>1
  <2>2. CASE total' # Cardinality(memory)
    <3>1. database' = Fresh(database, asked[cur]) /\ total' = Cardinality(memory) + Cardinality(database')
      BY <1>3, <2>2 DEF Count
    <3>2. database' \subseteq Before(cur)
      BY <1>2, <3>1, FreshIsRecent
    <3>3. Cardinality(database') <= Cardinality(Before(cur)) /\ Cardinality(database') \in Nat
      BY <1>2, <1>4, <3>2, Smaller, TotalType
    <3>. QED BY <1>5, <3>1, <3>3
  <2>. QED BY <2>1, <2>2
<1>. QED BY <1>1, <1>6 DEF UpperInv, RefusedWhenBusy, Before

LEMMA UpperAnswer ==
  ASSUME BaseInv, UpperInv, Answer
  PROVE  UpperInv'
<1>1. /\ pc = "inserted" /\ pc' = "free" /\ cur \in Nat /\ cur \in Requests
      /\ UNCHANGED <<clock, boot, cur, asked, stamp, memory, database, total>>
  BY LimiterAssumption DEF BaseInv, SoFar, UnderWay, TypeOK, Answer, Requests
<1>2. /\ answer'[cur] = IF total >= MaxLimit THEN "refused" ELSE "served"
      /\ \A i \in Requests : i # cur => answer'[i] = answer[i]
  BY <1>1 DEF Answer, BaseInv, TypeOK
<1>3. total \in Nat /\ total <= 2 * Cardinality(Before(cur)) /\ Cardinality(Before(cur)) \in Nat
  <2>1. Before(cur) \in SUBSET (1..cur)
    BY <1>1 DEF Before
  <2>. QED BY <1>1, <2>1, Counting, LimiterAssumption DEF UpperInv, BaseInv, TypeOK
<1>4. RefusedWhenBusy'
  <2>. SUFFICES ASSUME NEW i \in Requests, answer'[i] = "refused"
                PROVE  2 * Cardinality(Before(i)) >= MaxLimit
    BY <1>1 DEF RefusedWhenBusy, Before
  <2>1. CASE i = cur
    BY <1>2, <1>3, <2>1, LimiterAssumption
  <2>2. CASE i # cur
    BY <1>2, <2>2 DEF UpperInv, RefusedWhenBusy
  <2>. QED BY <2>1, <2>2
<1>. QED BY <1>1, <1>4 DEF UpperInv

LEMMA UpperRestart ==
  ASSUME "reboot" \notin Faults, BaseInv, UpperInv, Restart
  PROVE  UpperInv'
<1>1. /\ pc' = "free" /\ boot' = boot
      /\ UNCHANGED <<clock, cur, asked, stamp, database, total>>
  BY DEF Restart
<1>2. \A i \in Requests : answer'[i] = "refused" => answer[i] = "refused"
  <2>1. CASE pc = "free"
    BY <2>1 DEF Restart
  <2>2. CASE pc # "free"
    BY <2>2 DEF Restart, BaseInv, TypeOK
  <2>. QED BY <2>1, <2>2
<1>. QED BY <1>1, <1>2 DEF UpperInv, RefusedWhenBusy, Before

LEMMA UpperStep ==
  ASSUME "reboot" \notin Faults, BaseInv, BaseInv', UpperInv, [Next]_vars
  PROVE  UpperInv'
<1>1. CASE UNCHANGED vars \/ Tick
  BY <1>1, UpperUnchanged DEF vars, Tick
<1>2. CASE Insert
  BY <1>2 DEF Insert, UpperInv, RefusedWhenBusy, Before
<1>. QED BY <1>1, <1>2, UpperAcquire, UpperCount, UpperAnswer, UpperRestart DEF Next

\* RateLimiter.check refuses nobody whose requests within the window, counted
\* twice, are below the limit, whatever fails, unless the host is restarted.
THEOREM RefusedOnlyWhenBusy == "reboot" \notin Faults => (Spec => []RefusedWhenBusy)
<1>. SUFFICES ASSUME "reboot" \notin Faults PROVE Spec => []RefusedWhenBusy
  OBVIOUS
<1>1. BaseInv /\ BaseInv' /\ UpperInv /\ [Next]_vars => UpperInv'
  BY UpperStep
<1>2. UpperInv => RefusedWhenBusy
  BY DEF UpperInv
<1>. QED BY <1>1, <1>2, InitUpper, BaseInvariance, PTL DEF Spec

-----------------------------------------------------------------------------
(* Without faults the limiter is a sliding window *)

\* Both counters hold the requests within the window of the latest one.
ExactInv ==
    /\ boot = 0
    /\ pc = "acquired" => Before(cur) \subseteq memory /\ Before(cur) \subseteq database
    /\ pc \in {"counted", "inserted"} => total = 2 * Cardinality(Before(cur))
    /\ pc # "acquired" /\ cur >= 1 => Before(cur) \cup {cur} \subseteq memory
    /\ pc = "counted" => Before(cur) \subseteq database
    /\ pc \in {"free", "inserted"} /\ cur >= 1 => Before(cur) \cup {cur} \subseteq database

LEMMA ExactAcquire ==
  ASSUME BaseInv, ExactInv, Acquire, BaseInv'
  PROVE  ExactInv'
<1>1. /\ pc = "free" /\ pc' = "acquired" /\ cur' = cur + 1 /\ cur \in Nat
      /\ cur' \in Requests /\ clock \in Int /\ boot = 0
      /\ asked' = [asked EXCEPT ![cur'] = clock]
      /\ memory' = Fresh(memory, clock)
      /\ UNCHANGED <<clock, boot, database, total, answer>>
  BY LimiterAssumption DEF Acquire, BaseInv, TypeOK, Requests, monotonic, ExactInv
<1>2. /\ asked'[cur'] = clock
      /\ \A i \in Requests : i # cur' => asked'[i] = asked[i]
  BY <1>1 DEF BaseInv, TypeOK
<1>3. ASSUME NEW j \in Before(cur)'
      PROVE  j \in database /\ j \in memory'
  <2>1. j \in 1..cur /\ j \in Requests /\ j # cur' /\ cur \in 1..cur /\ cur \in Requests
    BY <1>1, <1>3, LimiterAssumption DEF Before, Requests
  <2>2. clock - asked[j] <= Window
    BY <1>2, <1>3, <2>1 DEF Before
  <2>3. /\ asked[j] \in Int /\ asked[cur] \in Int /\ asked[cur] <= clock /\ Window \in Int
        /\ stamp[j] \in Int /\ asked[j] <= stamp[j]
    BY <1>1, <2>1, LimiterAssumption DEF BaseInv, InOrder, TypeOK
  <2>4. asked[cur] - asked[j] <= Window
    BY <1>1, <2>2, <2>3
  <2>5. j \in Before(cur) \cup {cur}
    BY <1>1, <2>1, <2>4 DEF Before
  <2>6. j \in memory /\ j \in database
    BY <1>1, <2>1, <2>5 DEF ExactInv
  <2>7. clock - stamp[j] <= Window
    BY <1>1, <2>2, <2>3
  <2>. QED BY <1>1, <2>6, <2>7 DEF Fresh
<1>. QED BY <1>1, <1>3 DEF ExactInv

LEMMA ExactCount ==
  ASSUME Faults = {}, BaseInv, ExactInv, UpperInv, Count
  PROVE  ExactInv'
<1>1. /\ pc = "acquired" /\ pc' = "counted" /\ memory' = memory \cup {cur}
      /\ database' = Fresh(database, stamp[cur])
      /\ total' = Cardinality(memory) + Cardinality(database')
      /\ UNCHANGED <<clock, boot, cur, asked, stamp, answer>>
  BY DEF Count
<1>2. /\ cur \in Nat /\ cur \in 1..cur /\ cur \in Requests /\ boot = 0
      /\ database \in SUBSET (1..cur) /\ cur \notin database /\ UnderWay
  BY <1>1, LimiterAssumption DEF BaseInv, TypeOK, SoFar, UnderWay, ExactInv, Requests
<1>3. stamp[cur] = asked[cur] /\ asked[cur] \in Int
  BY <1>1, <1>2, LimiterAssumption DEF BaseInv, SoFar, TypeOK
<1>4. database' \subseteq Before(cur)
  BY <1>1, <1>2, <1>3, FreshIsRecent
<1>5. Before(cur) \subseteq database'
  <2>. SUFFICES ASSUME NEW j \in Before(cur) PROVE j \in database'
    OBVIOUS
  <2>1. /\ j \in 1..cur /\ j \in Requests /\ j \in database
        /\ asked[cur] - asked[j] <= Window
    BY <1>1, <1>2, LimiterAssumption DEF Before, ExactInv, Requests
  <2>2. asked[j] \in Int /\ stamp[j] \in Int /\ asked[j] <= stamp[j] /\ Window \in Int
    BY <1>2, <2>1, LimiterAssumption DEF BaseInv, InOrder, TypeOK
  <2>3. stamp[cur] - stamp[j] <= Window
    BY <1>3, <2>1, <2>2
  <2>. QED BY <1>1, <2>1, <2>3 DEF Fresh
<1>6. database' = Before(cur) /\ memory = Before(cur)
  BY <1>1, <1>4, <1>5 DEF ExactInv, UpperInv
<1>7. Before(cur) \in SUBSET (1..cur)
  BY <1>2 DEF Before
<1>8. Cardinality(Before(cur)) \in Nat
  BY <1>2, <1>7, Counting
<1>9. total' = 2 * Cardinality(Before(cur))
  BY <1>1, <1>6, <1>8
<1>10. Before(cur)' = Before(cur)
  BY <1>1 DEF Before
<1>. QED BY <1>1, <1>2, <1>6, <1>9, <1>10 DEF ExactInv

LEMMA ExactInsert ==
  ASSUME Faults = {}, ExactInv, Insert
  PROVE  ExactInv'
<1>1. /\ pc = "counted" /\ pc' = "inserted" /\ database' = database \cup {cur}
      /\ UNCHANGED <<clock, boot, cur, asked, stamp, memory, total, answer>>
  BY DEF Insert
<1>2. Before(cur)' = Before(cur)
  BY <1>1 DEF Before
<1>. QED BY <1>1, <1>2 DEF ExactInv

LEMMA ExactStep ==
  Faults = {} /\ BaseInv /\ BaseInv' /\ UpperInv /\ ExactInv /\ [Next]_vars => ExactInv'
<1>. SUFFICES ASSUME Faults = {}, BaseInv, BaseInv', UpperInv, ExactInv, [Next]_vars
              PROVE  ExactInv'
  OBVIOUS
<1>1. CASE UNCHANGED vars \/ Tick
  BY <1>1 DEF vars, Tick, ExactInv, Before
<1>2. CASE Answer
  <2>1. Before(cur)' = Before(cur)
    BY <1>2 DEF Answer, Before
  <2>. QED BY <1>2, <2>1 DEF Answer, ExactInv
<1>3. ~Restart
  BY DEF Restart
<1>. QED BY <1>1, <1>2, <1>3, ExactAcquire, ExactCount, ExactInsert DEF Next

LEMMA StepSlides ==
  ASSUME Faults = {}, BaseInv, ExactInv, [Next]_vars
  PROVE  Sliding!Next \/ UNCHANGED <<clock, asked, answer>>
<1>1. ASSUME Tick PROVE Sliding!Next
  BY <1>1 DEF Tick, Sliding!Next, Sliding!Tick
<1>2. ASSUME Acquire PROVE Sliding!Next
  <2>1. /\ pc = "free" /\ cur \in Nat /\ cur + 1 \in Requests
        /\ asked' = [asked EXCEPT ![cur + 1] = clock]
        /\ UNCHANGED <<clock, answer>>
    BY <1>2, LimiterAssumption DEF Acquire, BaseInv, TypeOK, Requests
  <2>2. Sliding!Made = 1..cur
    BY <2>1, LimiterAssumption DEF Sliding!Made, Sliding!Requests, Requests, BaseInv, InOrder
  <2>3. \A j \in 1..cur : answer[j] # "none"
    BY <2>1 DEF BaseInv, InOrder, UnderWay
  <2>4. (cur + 1) - 1 = cur
    BY <2>1
  <2>5. Sliding!Ask(cur + 1)
    BY <2>1, <2>2, <2>3, <2>4 DEF Sliding!Ask
  <2>. QED BY <2>1, <2>5 DEF Sliding!Next, Sliding!Requests, Requests
<1>3. ASSUME Answer PROVE Sliding!Next
  <2>1. /\ pc = "inserted" /\ cur \in Nat /\ cur \in Requests /\ cur \in 1..cur
        /\ answer[cur] = "none" /\ asked[cur] >= 0
        /\ UNCHANGED <<clock, asked>>
    BY <1>3, LimiterAssumption
    DEF Answer, BaseInv, TypeOK, SoFar, InOrder, UnderWay, Requests
  <2>2. cur \in Sliding!Made
    BY <2>1 DEF Sliding!Made, Sliding!Requests, Requests
  <2>3. Sliding!Before(cur) = Before(cur)
    BY <2>1, LimiterAssumption
    DEF Sliding!Before, Sliding!Made, Sliding!Requests, Before, Requests, BaseInv, InOrder
  <2>4. Before(cur) \in SUBSET (1..cur)
    BY <2>1 DEF Before
  <2>5. Cardinality(Before(cur)) \in Nat /\ total = 2 * Cardinality(Before(cur))
    BY <2>1, <2>4, Counting DEF ExactInv
  <2>6. total >= MaxLimit <=> ~(Cardinality(Before(cur)) < (MaxLimit + 1) \div 2)
    BY <2>5, LimiterAssumption
  <2>7. Sliding!Cardinality(Before(cur)) = Cardinality(Before(cur))
    BY Zenon DEF Sliding!Cardinality, Cardinality
  <2>8. Sliding!Answer(cur)
    BY <1>3, <2>1, <2>2, <2>3, <2>6, <2>7 DEF Answer, Sliding!Answer
  <2>. QED BY <2>1, <2>8 DEF Sliding!Next, Sliding!Requests, Requests
<1>4. CASE UNCHANGED vars \/ Count \/ Insert
  BY <1>4 DEF vars, Count, Insert
<1>5. ~Restart
  BY DEF Restart
<1>. QED BY <1>1, <1>2, <1>3, <1>4, <1>5 DEF Next

\* Without faults RateLimiter.check is a sliding window that serves half of
\* max_requests, rounded up.
THEOREM SoundLimiterSlides == Faults = {} => (Spec => IsSlidingWindow)
<1>. SUFFICES ASSUME Faults = {} PROVE Spec => IsSlidingWindow
  OBVIOUS
<1>1. Init => Sliding!Init
  BY DEF Init, Sliding!Init, Sliding!Requests, Requests
<1>2. Init => ExactInv
  BY DEF Init, ExactInv
<1>3. BaseInv /\ BaseInv' /\ UpperInv /\ [Next]_vars => UpperInv'
  BY UpperStep
<1>4. BaseInv /\ BaseInv' /\ UpperInv /\ ExactInv /\ [Next]_vars => ExactInv'
  BY ExactStep
<1>5. BaseInv /\ ExactInv /\ [Next]_vars => [Sliding!Next]_(Sliding!vars)
  BY StepSlides DEF Sliding!vars
<1>. QED BY <1>1, <1>2, <1>3, <1>4, <1>5, InitUpper, BaseInvariance, PTL
        DEF Spec, IsSlidingWindow, Sliding!Spec
=============================================================================
