---------------------------- MODULE IncidentProofs ----------------------------
(***************************************************************************)
(* What holds of the stored incident, for any number of requests, slots,   *)
(* tenants and targets, in three parts: what the operators of IncidentRow  *)
(* preserve, what holds whatever the interleaving of the handlers, and     *)
(* what holds in addition when requests are handled one at a time.         *)
(*                                                                         *)
(* The argument of the last part: what the one handler under way holds is  *)
(* current, so that its write is an operation of the abstract store.  A    *)
(* retry remembers that the last delivery was not terminal, and what was   *)
(* acknowledged was written by such an operation.  That requests           *)
(* overlap is what breaks both.                                            *)
(***************************************************************************)
EXTENDS IncidentHandlers, FiniteSetTheorems, SequenceTheorems, WellFoundedInduction, TLAPS

(***************************************************************************)
(* What the operators of IncidentRow preserve.  Each lemma takes one piece *)
(* of evidence that is consistent and shows that the changed one is too.   *)
(***************************************************************************)

-----------------------------------------------------------------------------
(* Largest elements of finite sets of indices *)

LEMMA MinExists ==
  ASSUME NEW T \in SUBSET Nat, T # {}
  PROVE  \E x \in T : \A y \in T : x <= y
<1>1. \E x \in T : \A y \in T : ~ (<<y, x>> \in OpToRel(<, Nat))
  BY WFMin, NatLessThanWellFounded
<1>2. \A x \in T, y \in T : (~ (<<y, x>> \in OpToRel(<, Nat))) => x <= y
  BY DEF OpToRel
<1>. QED BY <1>1, <1>2

LEMMA MaxExists ==
  ASSUME NEW n \in Nat, NEW T \in SUBSET (1..n), T # {}
  PROVE  \E x \in T : \A y \in T : y <= x
<1>. DEFINE U == {n - i : i \in T}
<1>1. U \in SUBSET Nat
  <2>. SUFFICES ASSUME NEW i \in T PROVE n - i \in Nat OBVIOUS
  <2>. i \in 1..n OBVIOUS
  <2>. QED OBVIOUS
<1>2. U # {} OBVIOUS
<1>. HIDE DEF U
<1>3. PICK u \in U : \A v \in U : u <= v
  BY <1>1, <1>2, MinExists
<1>4. PICK x \in T : u = n - x
  BY <1>3 DEF U
<1>5. ASSUME NEW y \in T PROVE y <= x
  <2>1. n - y \in U BY DEF U
  <2>2. x \in 1..n /\ y \in 1..n OBVIOUS
  <2>. QED BY <2>1, <2>2, <1>3, <1>4
<1>. QED BY <1>5

-----------------------------------------------------------------------------
(* Deliveries *)

LEMMA AttemptsFinite ==
  ASSUME NEW d \in Seq(DeliveryEntries), NEW t
  PROVE  /\ Attempts(d, t) \subseteq 1..Len(d)
         /\ IsFiniteSet(Attempts(d, t))
         /\ Cardinality(Attempts(d, t)) \in Nat
         /\ Cardinality(Attempts(d, t)) = 0 <=> Attempts(d, t) = {}
<1>1. Attempts(d, t) \in SUBSET (1..Len(d))
  BY DEF Attempts
<1>2. IsFiniteSet(1..Len(d))
  BY FS_Interval
<1>. QED BY <1>1, <1>2, FS_Subset, FS_CardinalityType, FS_EmptySet

\* The last attempt of a target is one of its attempts.
LEMMA LastAttemptIsAttempt ==
  ASSUME NEW d \in Seq(DeliveryEntries), NEW t, Attempts(d, t) # {}
  PROVE  /\ LastAttempt(d, t) \in Attempts(d, t)
         /\ \A j \in Attempts(d, t) : j <= LastAttempt(d, t)
<1>1. \E i \in Attempts(d, t) : \A j \in Attempts(d, t) : j <= i
  <2>1. Attempts(d, t) \in SUBSET (1..Len(d)) /\ Len(d) \in Nat
    BY AttemptsFinite
  <2>. QED BY <2>1, MaxExists
<1>. QED BY <1>1 DEF LastAttempt

\* What makes a new entry fit at the end of a delivery history.
Fits(d, e) ==
    /\ e.attempt = Cardinality(Attempts(d, e.target)) + 1
    /\ e.duplicate = "first_send" <=> e.attempt = 1
    /\ e.duplicate = "repeat_send_after_delivery" =>
         LastStatus(d, e.target) = "delivered"
    /\ e.status = "retrying" => e.attempt < RetryLimit
    /\ e.feedback = "none"

LEMMA DeliveredEntryFits ==
  ASSUME NEW d \in Seq(DeliveryEntries), NEW t \in Targets, NEW id \in Nat
  PROVE  /\ DeliveredEntry(d, t, id) \in DeliveryEntries
         /\ Fits(d, DeliveredEntry(d, t, id))
<1>1. Cardinality(Attempts(d, t)) \in Nat
  BY AttemptsFinite
<1>2. LastStatus(d, t) = "none" <=> Attempts(d, t) = {}
  <2>1. CASE Attempts(d, t) # {}
    <3>1. LastAttempt(d, t) \in DOMAIN d
      BY <2>1, LastAttemptIsAttempt DEF Attempts
    <3>2. d[LastAttempt(d, t)] \in DeliveryEntries
      BY <3>1
    <3>3. d[LastAttempt(d, t)].status # "none"
      BY <3>2 DEF DeliveryEntries
    <3>. QED BY <2>1, <3>3 DEF LastStatus
  <2>. QED BY <2>1 DEF LastStatus
<1>3. Cardinality(Attempts(d, t)) = 0 <=> Attempts(d, t) = {}
  BY AttemptsFinite
<1>4. DeliveredEntry(d, t, id) \in DeliveryEntries
  BY <1>1 DEF DeliveredEntry, DeliveryEntries, OperatorGuidance
<1>. QED BY <1>1, <1>2, <1>3, <1>4 DEF DeliveredEntry, Fits

LEMMA FailedEntryFits ==
  ASSUME NEW d \in Seq(DeliveryEntries), NEW t \in Targets,
         NEW b \in BOOLEAN, NEW id \in Nat
  PROVE  /\ FailedEntry(d, t, b, id) \in DeliveryEntries
         /\ Fits(d, FailedEntry(d, t, b, id))
<1>1. Cardinality(Attempts(d, t)) \in Nat
  BY AttemptsFinite
<1>2. FailedEntry(d, t, b, id) \in DeliveryEntries
  BY <1>1 DEF FailedEntry, DeliveryEntries, OperatorGuidance
<1>. QED BY <1>1, <1>2 DEF FailedEntry, Fits, RetryLimit

\* A rank does not look past its entry.
LEMMA RankIsAttempts ==
  ASSUME NEW d \in Seq(DeliveryEntries), NEW e \in DeliveryEntries
  PROVE  /\ \A i \in DOMAIN d : Rank(Append(d, e), i) = Rank(d, i)
         /\ Rank(Append(d, e), Len(d) + 1) =
              Attempts(d, e.target) \cup {Len(d) + 1}
<1>. DEFINE n == Len(d)
            a == Append(d, e)
<1>1. n \in Nat /\ DOMAIN d = 1..n
  OBVIOUS
<1>2. /\ DOMAIN a = 1..(n + 1)
      /\ \A i \in 1..n : a[i] = d[i]
      /\ a[n + 1] = e
  BY AppendProperties
<1>. HIDE DEF n, a
<1>3. \A i \in 1..n : Rank(a, i) = Rank(d, i)
  <2>. TAKE i \in 1..n
  <2>1. \A j \in 1..i : j \in 1..n /\ i \in 1..n
    BY <1>1
  <2>. QED BY <2>1, <1>1, <1>2 DEF Rank
<1>4. Rank(a, n + 1) = Attempts(d, e.target) \cup {n + 1}
  <2>1. 1..(n + 1) = (1..n) \cup {n + 1} /\ n + 1 \notin 1..n
    BY <1>1
  <2>. QED BY <2>1, <1>1, <1>2 DEF Rank, Attempts
<1>. QED BY <1>1, <1>3, <1>4 DEF n, a

\* The parts of a delivery history that appending a fitting entry keeps.
RetryingBelowLimit(d) ==
    \A i \in DOMAIN d : d[i].status = "retrying" => d[i].attempt < RetryLimit

LEMMA AppendKeepsHistory ==
  ASSUME NEW d \in Seq(DeliveryEntries), NEW e \in DeliveryEntries, Fits(d, e),
         Numbered(d), ToldApart(d), RetryingBelowLimit(d)
  PROVE  /\ Append(d, e) \in Seq(DeliveryEntries)
         /\ Numbered(Append(d, e))
         /\ ToldApart(Append(d, e))
         /\ RetryingBelowLimit(Append(d, e))
<1>. DEFINE n == Len(d)
            a == Append(d, e)
<1>1. /\ n \in Nat /\ DOMAIN d = 1..n
      /\ a \in Seq(DeliveryEntries)
      /\ DOMAIN a = 1..(n + 1)
      /\ \A i \in 1..n : a[i] = d[i]
      /\ a[n + 1] = e
  BY AppendProperties
<1>2. /\ \A i \in 1..n : Rank(a, i) = Rank(d, i)
      /\ Rank(a, n + 1) = Attempts(d, e.target) \cup {n + 1}
  BY <1>1, RankIsAttempts
<1>3. Cardinality(Rank(a, n + 1)) = Cardinality(Attempts(d, e.target)) + 1
  <2>1. /\ IsFiniteSet(Attempts(d, e.target))
        /\ n + 1 \notin Attempts(d, e.target)
    BY <1>1, AttemptsFinite
  <2>. QED BY <2>1, <1>2, FS_AddElement
<1>. HIDE DEF n, a
<1>4. \A i \in DOMAIN a : i \in 1..n \/ i = n + 1
  BY <1>1
<1>5. Numbered(a)
  <2>. SUFFICES ASSUME NEW i \in DOMAIN a
                PROVE  a[i].attempt = Cardinality(Rank(a, i))
    BY DEF Numbered
  <2>1. CASE i \in 1..n
    BY <2>1, <1>1, <1>2 DEF Numbered
  <2>2. CASE i = n + 1
    BY <2>2, <1>1, <1>3 DEF Fits
  <2>. QED BY <2>1, <2>2, <1>4
<1>6. ToldApart(a)
  <2>. SUFFICES ASSUME NEW i \in DOMAIN a
                PROVE  /\ a[i].duplicate = "first_send" <=> a[i].attempt = 1
                       /\ a[i].duplicate = "repeat_send_after_delivery" =>
                            \E j \in 1..(i - 1) : /\ a[j].target = a[i].target
                                                  /\ a[j].status = "delivered"
    BY DEF ToldApart
  <2>1. CASE i \in 1..n
    <3>1. \A j \in 1..(i - 1) : j \in 1..n
      BY <2>1, <1>1
    <3>. QED BY <2>1, <3>1, <1>1 DEF ToldApart
  <2>2. CASE i = n + 1
    <3>1. e.duplicate = "first_send" <=> e.attempt = 1
      BY DEF Fits
    <3>2. ASSUME e.duplicate = "repeat_send_after_delivery"
          PROVE  \E j \in 1..n : a[j].target = e.target /\ a[j].status = "delivered"
      <4>1. LastStatus(d, e.target) = "delivered"
        BY <3>2 DEF Fits
      <4>2. Attempts(d, e.target) # {}
        BY <4>1 DEF LastStatus
      <4>3. LastAttempt(d, e.target) \in Attempts(d, e.target)
        BY <4>2, LastAttemptIsAttempt
      <4>4. d[LastAttempt(d, e.target)].status = "delivered"
        BY <4>1, <4>2 DEF LastStatus
      <4>. QED BY <4>3, <4>4, <1>1 DEF Attempts
    <3>. QED BY <2>2, <3>1, <3>2, <1>1
  <2>. QED BY <2>1, <2>2, <1>4
<1>7. RetryingBelowLimit(a)
  BY <1>1, <1>4 DEF RetryingBelowLimit, Fits
<1>. QED BY <1>1, <1>5, <1>6, <1>7 DEF a

LEMMA AnnotatedKeepsHistory ==
  ASSUME NEW d \in Seq(DeliveryEntries), NEW state \in FeedbackStates,
         Numbered(d), ToldApart(d), RetryingBelowLimit(d)
  PROVE  /\ Annotated(d, state) \in Seq(DeliveryEntries)
         /\ Numbered(Annotated(d, state))
         /\ ToldApart(Annotated(d, state))
         /\ RetryingBelowLimit(Annotated(d, state))
         /\ \A i \in DOMAIN Annotated(d, state) :
              Annotated(d, state)[i].feedback \in {d[i].feedback, DeliveryState(state)}
<1>. DEFINE a == Annotated(d, state)
<1>1. DOMAIN a = DOMAIN d
  BY DEF Annotated
<1>2. ASSUME NEW i \in DOMAIN d
      PROVE  /\ a[i] \in DeliveryEntries
             /\ a[i].target = d[i].target /\ a[i].status = d[i].status
             /\ a[i].attempt = d[i].attempt /\ a[i].duplicate = d[i].duplicate
             /\ a[i].feedback \in {d[i].feedback, DeliveryState(state)}
  <2>1. d[i] \in DeliveryEntries
    OBVIOUS
  <2>2. /\ FeedbackGuidance(state) \in {"capture_closure", "keep_open", "correct_packet"}
        /\ DeliveryState(state) \in DeliveryStates
    BY DEF FeedbackGuidance, DeliveryState, DeliveryStates
  <2>3. a[i] = IF i = Len(d)
               THEN [d[i] EXCEPT !.feedback = DeliveryState(state),
                                 !.guidance = FeedbackGuidance(state)]
               ELSE d[i]
    BY DEF Annotated
  <2>. HIDE DEF a
  <2>4. CASE a[i] = d[i]
    BY <2>1, <2>4 DEF DeliveryEntries
  <2>5. CASE a[i] = [d[i] EXCEPT !.feedback = DeliveryState(state),
                                 !.guidance = FeedbackGuidance(state)]
    BY <2>1, <2>2, <2>5 DEF DeliveryEntries
  <2>. QED BY <2>3, <2>4, <2>5
<1>3. a \in Seq(DeliveryEntries)
  <2>1. Len(d) \in Nat /\ DOMAIN d = 1..Len(d)
    OBVIOUS
  <2>2. a \in [1..Len(d) -> DeliveryEntries]
    BY <2>1, <1>2 DEF Annotated
  <2>. QED BY <2>1, <2>2
<1>. HIDE DEF a
<1>4. \A i \in DOMAIN d : Rank(a, i) = Rank(d, i)
  <2>. TAKE i \in DOMAIN d
  <2>1. \A j \in 1..i : j \in DOMAIN d
    OBVIOUS
  <2>. QED BY <2>1, <1>2 DEF Rank
<1>5. Numbered(a)
  BY <1>1, <1>2, <1>4 DEF Numbered
<1>6. ToldApart(a)
  <2>. SUFFICES ASSUME NEW i \in DOMAIN d
                PROVE  /\ a[i].duplicate = "first_send" <=> a[i].attempt = 1
                       /\ a[i].duplicate = "repeat_send_after_delivery" =>
                            \E j \in 1..(i - 1) : /\ a[j].target = a[i].target
                                                  /\ a[j].status = "delivered"
    BY <1>1 DEF ToldApart
  <2>1. \A j \in 1..(i - 1) : j \in DOMAIN d
    OBVIOUS
  <2>. QED BY <2>1, <1>2 DEF ToldApart
<1>7. RetryingBelowLimit(a)
  BY <1>1, <1>2 DEF RetryingBelowLimit
<1>8. \A i \in DOMAIN a : a[i].feedback \in {d[i].feedback, DeliveryState(state)}
  BY <1>1, <1>2
<1>. QED BY <1>3, <1>5, <1>6, <1>7, <1>8 DEF a

LEMMA RankFinite ==
  ASSUME NEW d \in Seq(DeliveryEntries), NEW k \in DOMAIN d
  PROVE  /\ k \in Rank(d, k)
         /\ IsFiniteSet(Rank(d, k))
         /\ Cardinality(Rank(d, k)) \in Nat \ {0}
<1>1. Rank(d, k) \in SUBSET (1..k) /\ k \in Rank(d, k)
  BY DEF Rank
<1>2. IsFiniteSet(1..k)
  BY FS_Interval
<1>. QED BY <1>1, <1>2, FS_Subset, FS_CardinalityType, FS_EmptySet

\* Two attempts of one target have different numbers.
LEMMA AttemptsDiffer ==
  ASSUME NEW d \in Seq(DeliveryEntries), Numbered(d),
         NEW i \in DOMAIN d, NEW j \in DOMAIN d, i < j, d[i].target = d[j].target
  PROVE  1 <= d[i].attempt /\ d[i].attempt < d[j].attempt
<1>1. \A k \in DOMAIN d : /\ k \in Rank(d, k)
                            /\ IsFiniteSet(Rank(d, k))
                            /\ Cardinality(Rank(d, k)) \in Nat \ {0}
  BY RankFinite
<1>2. Rank(d, i) \in SUBSET (Rank(d, j) \ {j})
  BY DEF Rank
<1>3. /\ IsFiniteSet(Rank(d, j) \ {j})
      /\ Cardinality(Rank(d, j) \ {j}) = Cardinality(Rank(d, j)) - 1
  BY <1>1, FS_RemoveElement
<1>4. Cardinality(Rank(d, i)) <= Cardinality(Rank(d, j)) - 1
  BY <1>2, <1>3, FS_Subset
<1>. QED BY <1>1, <1>4 DEF Numbered

\* A target is left in "retrying" fewer times than the retry limit.
LEMMA RetryingIsBounded ==
  ASSUME NEW d \in Seq(DeliveryEntries), Numbered(d), RetryingBelowLimit(d), NEW t
  PROVE  Cardinality(Retrying(d, t)) < RetryLimit
<1>. DEFINE R == Retrying(d, t)
            f == [i \in R |-> d[i].attempt]
<1>1. \A i \in R : i \in DOMAIN d /\ d[i].target = t /\ d[i].status = "retrying"
  BY DEF Retrying
<1>2. \A i \in R : d[i].attempt \in Nat \ {0}
  BY <1>1, RankFinite DEF Numbered
<1>3. f \in [R -> 1..(RetryLimit - 1)]
  BY <1>1, <1>2 DEF RetryingBelowLimit, RetryLimit
<1>4. \A i \in R, j \in R : f[i] = f[j] => i = j
  <2>1. \A i \in R, j \in R : i < j => d[i].attempt < d[j].attempt
    BY <1>1, AttemptsDiffer
  <2>. QED BY <2>1, <1>1, <1>2
<1>5. f \in Injection(R, 1..(RetryLimit - 1))
  BY <1>3, <1>4 DEF Injection, IsInjective
<1>6. IsFiniteSet(1..(RetryLimit - 1)) /\ Cardinality(1..(RetryLimit - 1)) = 2
  <2>1. RetryLimit - 1 = 2
    BY DEF RetryLimit
  <2>2. IsFiniteSet(1..2) /\ Cardinality(1..2) = IF 1 > 2 THEN 0 ELSE 2 - 1 + 1
    <3>1. 1 \in Int /\ 2 \in Int
      OBVIOUS
    <3>. QED BY <3>1, FS_Interval, Zenon
  <2>. QED BY <2>1, <2>2
<1>7. IsFiniteSet(R) /\ Cardinality(R) <= 2
  BY <1>5, <1>6, FS_Injection
<1>. QED BY <1>7, FS_CardinalityType DEF RetryLimit

-----------------------------------------------------------------------------
(* Evidence *)

Consistent(e) ==
    /\ ReplaysAgree(e)
    /\ Numbered(e.delivery)
    /\ ToldApart(e.delivery)
    /\ RetryingBelowLimit(e.delivery)
    /\ OnRecord(e)

LEMMA EmptyIsConsistent == EmptyEvidence \in Evidence /\ Consistent(EmptyEvidence)
BY ReplayLimitAssumption
   DEF EmptyEvidence, Evidence, NoOutcome, NoReplay, Consistent, ReplaysAgree,
       Numbered, ToldApart, RetryingBelowLimit, OnRecord

LEMMA WithOutcomeConsistent ==
  ASSUME NEW e \in Evidence, Consistent(e), NEW decision \in {"pending", "approve"}
  PROVE  WithOutcome(e, decision) \in Evidence /\ Consistent(WithOutcome(e, decision))
BY DEF WithOutcome, Evidence, Consistent, ReplaysAgree, OnRecord

LEMMA CutKeepsHead ==
  ASSUME NEW h \in Seq(Nat), NEW id \in Nat
  PROVE  /\ Cut(<<id>> \o h) \in Seq(Nat)
         /\ Len(Cut(<<id>> \o h)) <= ReplayLimit
         /\ Cut(<<id>> \o h) # <<>>
         /\ Head(Cut(<<id>> \o h)) = id
<1>. DEFINE c == <<id>> \o h
            m == IF Len(c) < ReplayLimit THEN Len(c) ELSE ReplayLimit
<1>1. c \in Seq(Nat) /\ Len(c) = 1 + Len(h) /\ c[1] = id
  OBVIOUS
<1>2. m \in 1..Len(c) /\ m <= ReplayLimit
  BY <1>1, ReplayLimitAssumption
<1>. HIDE DEF c, m
<1>3. /\ SubSeq(c, 1, m) \in Seq(Nat) /\ Len(SubSeq(c, 1, m)) = m
      /\ SubSeq(c, 1, m)[1] = c[1]
  <2>1. SubSeq(c, 1, m) = [i \in 1..m |-> c[i]]
    BY <1>1, <1>2
  <2>2. m \in Nat /\ \A i \in 1..m : c[i] \in Nat
    BY <1>1, <1>2
  <2>. QED BY <1>2, <2>1, <2>2
<1>4. SubSeq(c, 1, m) # <<>> /\ Head(SubSeq(c, 1, m)) = id
  <2>1. ASSUME NEW z \in Seq(Nat), Len(z) = m, z[1] = id
        PROVE  z # <<>> /\ Head(z) = id
    BY <1>1, <1>2, <2>1
  <2>. QED BY <1>1, <1>3, <2>1
<1>. QED BY <1>2, <1>3, <1>4 DEF c, m, Cut

LEMMA WithReplayConsistent ==
  ASSUME NEW e \in Evidence, Consistent(e), NEW id \in Nat
  PROVE  WithReplay(e, id) \in Evidence /\ Consistent(WithReplay(e, id))
<1>1. e.history \in Seq(Nat)
  BY DEF Evidence
<1>2. Cut(<<id>> \o e.history) \in Seq(Nat)
  BY <1>1, CutKeepsHead
<1>3. /\ WithReplay(e, id) \in Evidence
      /\ WithReplay(e, id).history = Cut(<<id>> \o e.history)
      /\ WithReplay(e, id).latest = id
      /\ WithReplay(e, id).delivery = e.delivery
      /\ WithReplay(e, id).feedback = e.feedback
  <2>. DEFINE h == Cut(<<id>> \o e.history)
              w == [e EXCEPT !.latest = id, !.history = h]
  <2>1. /\ w \in Evidence /\ w.latest = id /\ w.history = h
        /\ w.delivery = e.delivery /\ w.feedback = e.feedback
    <3>1. h \in Seq(Nat)
      BY <1>2
    <3>. HIDE DEF h
    <3>. QED BY <3>1 DEF Evidence
  <2>. QED BY <2>1 DEF WithReplay
<1>4. ReplaysAgree(WithReplay(e, id))
  BY <1>1, <1>3, CutKeepsHead DEF ReplaysAgree
<1>5. OnRecord(WithReplay(e, id))
  BY <1>3 DEF OnRecord, Consistent
<1>. QED BY <1>3, <1>4, <1>5 DEF Consistent

LEMMA WithDeliveryConsistent ==
  ASSUME NEW e \in Evidence, Consistent(e),
         NEW entry \in DeliveryEntries, Fits(e.delivery, entry)
  PROVE  WithDelivery(e, entry) \in Evidence /\ Consistent(WithDelivery(e, entry))
<1>. DEFINE w == WithDelivery(e, entry)
<1>1. e.delivery \in Seq(DeliveryEntries)
  BY DEF Evidence
<1>2. /\ w \in Evidence
      /\ w.delivery = Append(e.delivery, entry)
      /\ w.feedback = e.feedback /\ w.latest = e.latest /\ w.history = e.history
  <2>1. Append(e.delivery, entry) \in Seq(DeliveryEntries)
    BY <1>1, AppendProperties
  <2>. DEFINE d == Append(e.delivery, entry)
              x == [e EXCEPT !.delivery = d]
  <2>2. /\ x \in Evidence /\ x.delivery = d
        /\ x.feedback = e.feedback /\ x.latest = e.latest /\ x.history = e.history
    <3>1. d \in Seq(DeliveryEntries)
      BY <2>1
    <3>. HIDE DEF d
    <3>. QED BY <3>1 DEF Evidence
  <2>. QED BY <2>2 DEF WithDelivery
<1>. HIDE DEF w
<1>3. /\ Numbered(w.delivery) /\ ToldApart(w.delivery) /\ RetryingBelowLimit(w.delivery)
  BY <1>1, <1>2, AppendKeepsHistory DEF Consistent
<1>4. OnRecord(w)
  BY <1>1, <1>2, AppendProperties DEF OnRecord, Consistent, Fits
<1>5. ReplaysAgree(w)
  BY <1>2 DEF ReplaysAgree, Consistent
<1>. QED BY <1>2, <1>3, <1>4, <1>5 DEF Consistent, w

LEMMA WithFeedbackConsistent ==
  ASSUME NEW e \in Evidence, Consistent(e), NEW state \in FeedbackStates, NEW id \in Nat
  PROVE  WithFeedback(e, state, id) \in Evidence /\ Consistent(WithFeedback(e, state, id))
<1>. DEFINE w == WithFeedback(e, state, id)
            new == FeedbackEntry(state, id)
<1>1. e.delivery \in Seq(DeliveryEntries) /\ e.feedback \in Seq(FeedbackEntries)
  BY DEF Evidence
<1>2. new \in FeedbackEntries /\ new.state = DeliveryState(state)
  BY DEF FeedbackEntries, FeedbackEntry, DeliveryState, DeliveryStates
<1>3. /\ w \in Evidence
      /\ w.delivery = Annotated(e.delivery, state)
      /\ w.feedback = Append(e.feedback, new)
      /\ w.latest = e.latest /\ w.history = e.history
  <2>. DEFINE d == Annotated(e.delivery, state)
              f == Append(e.feedback, new)
              x == [e EXCEPT !.feedback = f, !.delivery = d]
  <2>1. d \in Seq(DeliveryEntries)
    BY <1>1, AnnotatedKeepsHistory DEF Consistent
  <2>2. f \in Seq(FeedbackEntries)
    BY <1>1, <1>2, AppendProperties
  <2>3. /\ x \in Evidence /\ x.delivery = d /\ x.feedback = f
        /\ x.latest = e.latest /\ x.history = e.history
    <3>. HIDE DEF d, f
    <3>. QED BY <2>1, <2>2 DEF Evidence
  <2>. QED BY <2>3 DEF WithFeedback
<1>. HIDE DEF w, new
<1>4. /\ Numbered(w.delivery) /\ ToldApart(w.delivery) /\ RetryingBelowLimit(w.delivery)
      /\ \A i \in DOMAIN w.delivery :
           w.delivery[i].feedback \in {e.delivery[i].feedback, DeliveryState(state)}
  BY <1>1, <1>3, AnnotatedKeepsHistory DEF Consistent
<1>5. OnRecord(w)
  <2>. SUFFICES ASSUME NEW i \in DOMAIN w.delivery, w.delivery[i].feedback # "none"
                PROVE  \E k \in DOMAIN w.feedback :
                          w.feedback[k].state = w.delivery[i].feedback
    BY DEF OnRecord
  <2>1. /\ DOMAIN w.feedback = 1..(Len(e.feedback) + 1)
        /\ DOMAIN e.feedback = 1..Len(e.feedback) /\ Len(e.feedback) \in Nat
        /\ w.feedback[Len(e.feedback) + 1] = new
        /\ \A k \in 1..Len(e.feedback) : w.feedback[k] = e.feedback[k]
    BY <1>1, <1>3, <1>2, AppendProperties
  <2>2. CASE w.delivery[i].feedback = DeliveryState(state)
    BY <1>2, <2>1, <2>2
  <2>3. CASE w.delivery[i].feedback = e.delivery[i].feedback
    <3>1. i \in DOMAIN e.delivery
      BY <1>3 DEF Annotated
    <3>2. \E k \in DOMAIN e.feedback : e.feedback[k].state = e.delivery[i].feedback
      BY <2>3, <3>1 DEF Consistent, OnRecord
    <3>. QED BY <2>1, <2>3, <3>2
  <2>. QED BY <1>4, <2>2, <2>3
<1>6. ReplaysAgree(w)
  BY <1>3 DEF ReplaysAgree, Consistent
<1>. QED BY <1>3, <1>4, <1>5, <1>6 DEF Consistent, w, new

-----------------------------------------------------------------------------
(***************************************************************************)
(* What holds of the stored incident whatever the interleaving of the      *)
(* handlers, for any number of requests, slots, tenants and targets.       *)
(*                                                                         *)
(* The row alone is not inductive: a handler writes back a copy it took    *)
(* earlier, so the copy (snap), the evidence drafted from it (draft) and   *)
(* the status decided before it (status) must be consistent as well.  The  *)
(* invariant says that every version of the row in flight could be stored. *)
(***************************************************************************)

\* A version of the row that may be stored.
GoodRow(r) == r \in Rows /\ StatusFits(r) /\ Consistent(r.evidence)

\* The status update a handler is about to make is the one its review or its
\* execution calls for.
Decided(r) ==
    \/ r.op = "review" /\ StatusFits([status |-> r.status, decision |-> r.arg])
    \/ r.op = "execute" /\ r.status = "resolved"

GoodRequest(r) ==
    /\ r \in Requests
    /\ r.op = "review" => r.arg \in Decisions
    /\ r.op \in {"send", "retry"} => r.arg \in Targets
    /\ r.op = "feedback" => r.arg \in FeedbackStates
    /\ r.decision \in {"pending", "approve"}
    /\ Consistent(r.draft)
    /\ GoodRow(r.snap)
    /\ (r.pc \in {"load", "save"} /\ r.call = "update_incident_status") => Decided(r)

IInv ==
    /\ GoodRow(row)
    /\ req \in [Slots -> {r \in Requests : GoodRequest(r)}]
    /\ issued \in Nat
    /\ reviews \subseteq [by: Nat, asked: Decisions, recorded: Decisions \cup {"pending"}]
    /\ acked \subseteq Nat

-----------------------------------------------------------------------------
(* Facts about requests *)

LEMMA NewRowIsGood == GoodRow(NewRow)
<1>1. EmptyEvidence \in Evidence /\ Consistent(EmptyEvidence)
  BY EmptyIsConsistent
<1>. QED BY <1>1 DEF GoodRow, NewRow, Rows, Statuses, StatusFits

LEMMA IdleIsGood == GoodRequest(Idle)
<1>1. EmptyEvidence \in Evidence /\ Consistent(EmptyEvidence)
  BY EmptyIsConsistent
<1>2. GoodRow(NewRow) /\ NewRow \in Rows
  BY NewRowIsGood DEF GoodRow
<1>. QED BY <1>1, <1>2 DEF GoodRequest, Idle, Requests, Stages, Calls, Arguments, Statuses

\* A slot may take any good request as its next state.
LEMMA BecomeGood ==
  ASSUME IInv, NEW s \in Slots, NEW r, GoodRequest(r), Become(s, r)
  PROVE  req' \in [Slots -> {q \in Requests : GoodRequest(q)}]
BY DEF IInv, Become, GoodRequest

LEMMA FinishGood ==
  ASSUME IInv, NEW s \in Slots, Finish(s)
  PROVE  req' \in [Slots -> {q \in Requests : GoodRequest(q)}]
BY IdleIsGood, BecomeGood DEF Finish

LEMMA SlotIsGood ==
  ASSUME IInv, NEW s \in Slots
  PROVE  GoodRequest(req[s]) /\ req[s] \in Requests
BY DEF IInv

\* Moving to a stage that is not an update, or on from one, keeps a request good.
LEMMA StageGood ==
  ASSUME NEW r, GoodRequest(r), NEW stage \in Stages,
         \/ stage \notin {"load", "save"}
         \/ r.pc \in {"load", "save"}
         \/ r.call # "update_incident_status"
  PROVE  GoodRequest([r EXCEPT !.pc = stage])
<1>1. [r EXCEPT !.pc = stage] \in Requests
  BY DEF GoodRequest, Requests
<1>. QED BY <1>1 DEF GoodRequest, Requests, Decided

\* Entering an update method.
LEMMA CallingGood ==
  ASSUME NEW r, GoodRequest(r), NEW method \in Calls,
         method = "update_incident_status" => Decided(r)
  PROVE  GoodRequest([r EXCEPT !.call = method, !.pc = "load"])
<1>1. [r EXCEPT !.call = method, !.pc = "load"] \in Requests
  BY DEF GoodRequest, Requests, Stages
<1>. QED BY <1>1 DEF GoodRequest, Requests, Decided

\* Entering the method with a new draft of the evidence.
LEMMA DraftGood ==
  ASSUME IInv, NEW s \in Slots, NEW e \in Evidence, Consistent(e),
         Calling(s, "update_incident_normalized_evidence", [req[s] EXCEPT !.draft = e])
  PROVE  req' \in [Slots -> {q \in Requests : GoodRequest(q)}]
<1>. DEFINE r == [req[s] EXCEPT !.draft = e, !.call = "update_incident_normalized_evidence",
                                !.pc = "load"]
<1>1. GoodRequest(req[s]) /\ req[s] \in Requests
  BY SlotIsGood
<1>2. r \in Requests
  BY <1>1 DEF Requests, Calls, Stages
<1>3. GoodRequest(r)
  BY <1>1, <1>2 DEF GoodRequest, Requests
<1>4. Become(s, r)
  BY <1>1 DEF Calling, Requests
<1>. QED BY <1>3, <1>4, BecomeGood

\* The evidence a caller sees is consistent: the stored one, or none.
LEMMA EvidenceSeenGood ==
  ASSUME IInv, NEW s \in Slots
  PROVE  EvidenceSeen(s) \in Evidence /\ Consistent(EvidenceSeen(s))
BY EmptyIsConsistent DEF IInv, GoodRow, Rows, EvidenceSeen

\* What an update method writes is good again.
LEMMA WrittenGood ==
  ASSUME NEW r, GoodRequest(r), r.pc = "save"
  PROVE  GoodRow(Written(r))
<1>1. /\ r \in Requests /\ r.id \in Nat /\ r.draft \in Evidence /\ Consistent(r.draft)
      /\ r.snap \in Rows /\ GoodRow(r.snap) /\ r.status \in Statuses /\ r.call \in Calls
  BY DEF GoodRequest, Requests
<1>2. CASE r.call = "update_incident_status"
  <2>1. /\ Decided(r)
        /\ r.op = "review" => r.arg \in Decisions
    BY <1>2 DEF GoodRequest
  <2>2. Written(r) = [r.snap EXCEPT !.status = r.status,
                                    !.decision = IF r.op = "review" THEN r.arg ELSE @]
    BY <1>2 DEF Written
  <2>3. Written(r) \in Rows /\ Written(r).evidence = r.snap.evidence
    BY <1>1, <2>1, <2>2 DEF Rows
  <2>4. StatusFits(Written(r))
    BY <1>1, <1>2, <2>2, <2>1 DEF GoodRequest, Decided, StatusFits, Rows
  <2>. QED BY <1>1, <2>3, <2>4 DEF GoodRow
<1>3. ASSUME NEW e \in Evidence, Consistent(e)
      PROVE  GoodRow([r.snap EXCEPT !.evidence = e])
  BY <1>1, <1>3 DEF GoodRow, Rows, StatusFits
<1>4. CASE r.call = "append_incident_replay_evidence"
  <2>1. Written(r) = [r.snap EXCEPT !.evidence = WithReplay(r.snap.evidence, r.id)]
    BY <1>4 DEF Written
  <2>2. /\ WithReplay(r.snap.evidence, r.id) \in Evidence
        /\ Consistent(WithReplay(r.snap.evidence, r.id))
    BY <1>1, WithReplayConsistent DEF GoodRow, Rows
  <2>. QED BY <2>1, <2>2, <1>3
<1>5. CASE r.call = "update_incident_normalized_evidence"
  <2>1. Written(r) = [r.snap EXCEPT !.evidence = r.draft]
    BY <1>5 DEF Written
  <2>. QED BY <2>1, <1>1, <1>3
<1>. QED BY <1>1, <1>2, <1>4, <1>5 DEF Calls

\* The handler goes on after an update with a good request.
LEMMA AfterUpdateGood ==
  ASSUME IInv, NEW s \in Slots, AfterUpdate(s)
  PROVE  /\ req' \in [Slots -> {q \in Requests : GoodRequest(q)}]
         /\ acked' \subseteq Nat
<1>1. /\ GoodRequest(req[s]) /\ req[s] \in Requests /\ req[s].id \in Nat
      /\ acked \subseteq Nat
  BY SlotIsGood DEF Requests, IInv
<1>2. CASE req[s].call = "update_incident_status"
  <2>1. GoodRequest([req[s] EXCEPT !.pc = "reread"])
    BY <1>1, StageGood DEF Stages
  <2>. QED BY <1>1, <1>2, <2>1, BecomeGood DEF AfterUpdate, Go
<1>3. CASE req[s].call # "update_incident_status" /\ req[s].op = "execute"
  <2>. DEFINE r == [req[s] EXCEPT !.status = "resolved"]
  <2>1. GoodRequest(r) /\ Decided(r)
    <3>1. r \in Requests
      BY <1>1 DEF Requests, Statuses
    <3>. QED BY <1>1, <1>3, <3>1 DEF GoodRequest, Requests, Decided
  <2>2. GoodRequest([r EXCEPT !.call = "update_incident_status", !.pc = "load"])
    BY <2>1, CallingGood DEF Calls
  <2>3. Calling(s, "update_incident_status", r) /\ UNCHANGED acked
    BY <1>3 DEF AfterUpdate
  <2>4. Become(s, [r EXCEPT !.call = "update_incident_status", !.pc = "load"])
    BY <2>3 DEF Calling
  <2>. QED BY <1>1, <2>2, <2>3, <2>4, BecomeGood
<1>4. CASE req[s].call # "update_incident_status" /\ req[s].op # "execute"
  <2>1. /\ Finish(s)
        /\ acked' = IF Acknowledges(req[s]) THEN acked \cup {req[s].id} ELSE acked
    BY <1>4 DEF AfterUpdate
  <2>. QED BY <1>1, <2>1, FinishGood
<1>. QED BY <1>2, <1>3, <1>4

\* An exception takes the handler to a good request.
LEMMA RaiseGood ==
  ASSUME IInv, NEW s \in Slots, Raise(s)
  PROVE  req' \in [Slots -> {q \in Requests : GoodRequest(q)}]
<1>. DEFINE r == [req[s] EXCEPT !.pc = "draft_failure", !.failing = TRUE]
<1>1. GoodRequest(req[s]) /\ req[s] \in Requests
  BY SlotIsGood
<1>2. GoodRequest(r)
  <2>1. r \in Requests
    BY <1>1 DEF Requests, Stages
  <2>. QED BY <1>1, <2>1 DEF GoodRequest, Requests
<1>3. Become(s, r) \/ Finish(s)
  BY DEF Raise
<1>. QED BY <1>2, <1>3, BecomeGood, FinishGood
-----------------------------------------------------------------------------
(* The invariant *)

LEMMA InitGood == Init => IInv
<1>. SUFFICES ASSUME Init PROVE IInv
  OBVIOUS
<1>1. GoodRequest(Idle) /\ Idle \in Requests
  BY IdleIsGood DEF GoodRequest
<1>. QED BY <1>1, NewRowIsGood DEF Init, IInv

LEMMA StartGood ==
  ASSUME IInv, NEW s \in Slots, Start(s)
  PROVE  IInv'
<1>1. PICK operation \in Operations, tenant \in Tenants :
        \E arg \in ArgumentsOf(operation) :
           Become(s, [Idle EXCEPT !.pc = FirstStage(operation), !.op = operation,
                                  !.arg = arg, !.id = issued + 1,
                                  !.owner = (tenant = Owner)])
  BY DEF Start
<1>2. PICK arg \in ArgumentsOf(operation) :
        Become(s, [Idle EXCEPT !.pc = FirstStage(operation), !.op = operation,
                               !.arg = arg, !.id = issued + 1,
                               !.owner = (tenant = Owner)])
  BY <1>1
<1>. DEFINE r == [Idle EXCEPT !.pc = FirstStage(operation), !.op = operation,
                              !.arg = arg, !.id = issued + 1,
                              !.owner = (tenant = Owner)]
<1>3. FirstStage(operation) \in {"read", "build"}
  BY DEF FirstStage
<1>4. /\ operation = "review" => arg \in Decisions
      /\ operation \in {"send", "retry"} => arg \in Targets
      /\ operation = "feedback" => arg \in FeedbackStates
      /\ arg \in Arguments
  BY DEF ArgumentsOf, Arguments
<1>5. GoodRequest(Idle) /\ Idle \in Requests /\ issued \in Nat
  BY IdleIsGood DEF GoodRequest, IInv
<1>6. GoodRequest(r)
  <2>1. issued + 1 \in Nat /\ (tenant = Owner) \in BOOLEAN /\ FirstStage(operation) \in Stages
    BY <1>3, <1>5 DEF Stages
  <2>2. /\ r.pc = FirstStage(operation) /\ r.op = operation /\ r.arg = arg
        /\ r.draft = Idle.draft /\ r.snap = Idle.snap /\ r.decision = Idle.decision
        /\ r \in Requests
    BY <1>4, <1>5, <2>1 DEF Requests
  <2>. HIDE DEF r
  <2>. QED BY <1>3, <1>4, <1>5, <2>2 DEF GoodRequest
<1>. QED BY <1>2, <1>5, <1>6, BecomeGood DEF Start, IInv

LEMMA HandleGood ==
  ASSUME IInv, NEW s \in Slots, Handle(s)
  PROVE  IInv'
<1>. USE DEF At
<1>. DEFINE GoodReq == req' \in [Slots -> {q \in Requests : GoodRequest(q)}]
<1>1. /\ GoodRequest(req[s]) /\ req[s] \in Requests
      /\ row \in Rows /\ GoodRow(row) /\ row.evidence \in Evidence
      /\ req[s].id \in Nat /\ req[s].retryable \in BOOLEAN
  BY SlotIsGood DEF IInv, GoodRow, Rows, Requests
<1>2. ASSUME GoodReq, UNCHANGED <<row, issued, reviews, acked>>
      PROVE  IInv'
  BY <1>2 DEF IInv
<1>3. CASE ReadForReview(s)
  <2>. DEFINE status == NextStatus(row.status, req[s].arg)
              r == [req[s] EXCEPT !.status = status]
  <2>1. req[s].arg \in Decisions /\ req[s].op = "review"
    BY <1>1, <1>3 DEF ReadForReview, GoodRequest
  <2>2. status \in Statuses /\ StatusFits([status |-> status, decision |-> req[s].arg])
    BY <2>1 DEF NextStatus, Statuses, StatusFits, Decisions
  <2>3. GoodRequest(r) /\ Decided(r)
    <3>. HIDE DEF status
    <3>1. /\ r \in Requests /\ r.status = status /\ r.arg = req[s].arg
          /\ r.op = req[s].op /\ r.pc = req[s].pc /\ r.draft = req[s].draft
          /\ r.snap = req[s].snap /\ r.decision = req[s].decision /\ r.call = req[s].call
      BY <1>1, <2>2 DEF Requests
    <3>. HIDE DEF r
    <3>2. Decided(r)
      BY <2>1, <2>2, <3>1 DEF Decided
    <3>. QED BY <1>1, <3>1, <3>2 DEF GoodRequest
  <2>4. GoodRequest([r EXCEPT !.call = "update_incident_status", !.pc = "load"])
    BY <2>3, CallingGood DEF Calls
  <2>5. \/ Become(s, [r EXCEPT !.call = "update_incident_status", !.pc = "load"])
        \/ Finish(s)
    BY <1>3 DEF ReadForReview, Calling
  <2>. QED BY <1>2, <1>3, <2>4, <2>5, BecomeGood, FinishGood DEF ReadForReview
<1>4. CASE ReadForExecute(s)
  <2>. DEFINE r == [req[s] EXCEPT !.pc = "build", !.decision = row.decision]
  <2>1. CASE MayExecute(row)
    <3>1. row.decision \in {"pending", "approve"}
      BY <2>1 DEF MayExecute
    <3>2. r \in Requests
      BY <1>1 DEF Requests, Stages, Rows
    <3>3. GoodRequest(r)
      BY <1>1, <3>1, <3>2 DEF GoodRequest, Requests
    <3>4. Become(s, r) \/ Finish(s)
      BY <1>4 DEF ReadForExecute
    <3>. QED BY <1>2, <1>4, <3>3, <3>4, BecomeGood, FinishGood DEF ReadForExecute
  <2>2. CASE ~ MayExecute(row)
    <3>1. Finish(s)
      BY <1>4, <2>2 DEF ReadForExecute
    <3>. QED BY <1>2, <1>4, <3>1, FinishGood DEF ReadForExecute
  <2>. QED BY <2>1, <2>2
<1>5. CASE ReadForRetry(s)
  <2>1. GoodRequest([req[s] EXCEPT !.pc = "build"])
    BY <1>1, StageGood DEF Stages
  <2>2. Become(s, [req[s] EXCEPT !.pc = "build"]) \/ Finish(s)
    BY <1>5 DEF ReadForRetry, Go
  <2>. QED BY <1>2, <1>5, <2>1, <2>2, BecomeGood, FinishGood DEF ReadForRetry
<1>6. CASE ReadForFeedback(s)
  <2>. DEFINE e == WithFeedback(EvidenceSeen(s), req[s].arg, req[s].id)
  <2>1. req[s].arg \in FeedbackStates
    BY <1>1, <1>6 DEF ReadForFeedback, GoodRequest
  <2>2. e \in Evidence /\ Consistent(e)
    BY <1>1, <2>1, EvidenceSeenGood, WithFeedbackConsistent
  <2>3. Calling(s, "update_incident_normalized_evidence", [req[s] EXCEPT !.draft = e])
    BY <1>6 DEF ReadForFeedback
  <2>. HIDE DEF e
  <2>. QED BY <1>2, <1>6, <2>2, <2>3, DraftGood DEF ReadForFeedback
<1>7. CASE BuildContext(s)
  <2>1. GoodRequest([req[s] EXCEPT !.pc = "draft"])
    BY <1>1, StageGood DEF Stages
  <2>2. GoodRequest([req[s] EXCEPT !.call = "append_incident_replay_evidence", !.pc = "load"])
    BY <1>1, CallingGood DEF Calls
  <2>3. \/ Become(s, [req[s] EXCEPT !.pc = "draft"])
        \/ Become(s, [req[s] EXCEPT !.call = "append_incident_replay_evidence", !.pc = "load"])
    BY <1>7 DEF BuildContext, Calling, Go
  <2>. QED BY <1>2, <1>7, <2>1, <2>2, <2>3, BecomeGood DEF BuildContext
<1>8. CASE BuildRaises(s)
  <2>1. CASE req[s].op \in {"send", "retry"}
    <3>1. PICK retryable \in BOOLEAN :
            Become(s, [req[s] EXCEPT !.pc = "draft_failure", !.failing = TRUE,
                                     !.retryable = retryable])
      BY <1>8, <2>1 DEF BuildRaises
    <3>. DEFINE r == [req[s] EXCEPT !.pc = "draft_failure", !.failing = TRUE,
                                    !.retryable = retryable]
    <3>2. r \in Requests
      BY <1>1 DEF Requests, Stages
    <3>3. GoodRequest(r)
      BY <1>1, <3>2 DEF GoodRequest, Requests
    <3>. QED BY <1>2, <1>8, <3>1, <3>3, BecomeGood DEF BuildRaises
  <2>2. CASE req[s].op \notin {"send", "retry"}
    BY <1>2, <1>8, <2>2, FinishGood DEF BuildRaises
  <2>. QED BY <2>1, <2>2
<1>9. CASE DraftOutcome(s)
  <2>. DEFINE e == WithOutcome(EvidenceSeen(s), req[s].decision)
  <2>1. req[s].decision \in {"pending", "approve"}
    BY <1>1 DEF GoodRequest
  <2>2. e \in Evidence /\ Consistent(e)
    BY <2>1, EvidenceSeenGood, WithOutcomeConsistent
  <2>3. Calling(s, "update_incident_normalized_evidence", [req[s] EXCEPT !.draft = e])
    BY <1>9 DEF DraftOutcome
  <2>. HIDE DEF e
  <2>. QED BY <1>2, <1>9, <2>2, <2>3, DraftGood DEF DraftOutcome
<1>10. CASE DraftDelivery(s)
  <2>. DEFINE seen == EvidenceSeen(s)
              entry == DeliveredEntry(seen.delivery, req[s].arg, req[s].id)
              e == WithDelivery(seen, entry)
  <2>1. req[s].arg \in Targets
    BY <1>1, <1>10 DEF DraftDelivery, GoodRequest
  <2>2. seen \in Evidence /\ Consistent(seen) /\ seen.delivery \in Seq(DeliveryEntries)
    BY EvidenceSeenGood DEF Evidence
  <2>3. entry \in DeliveryEntries /\ Fits(seen.delivery, entry)
    BY <1>1, <2>1, <2>2, DeliveredEntryFits
  <2>4. e \in Evidence /\ Consistent(e)
    BY <2>2, <2>3, WithDeliveryConsistent
  <2>5. Calling(s, "update_incident_normalized_evidence", [req[s] EXCEPT !.draft = e])
    BY <1>10 DEF DraftDelivery
  <2>. HIDE DEF e
  <2>. QED BY <1>2, <1>10, <2>4, <2>5, DraftGood DEF DraftDelivery
<1>11. CASE DraftFailure(s)
  <2>. DEFINE seen == EvidenceSeen(s)
              entry == FailedEntry(seen.delivery, req[s].arg, req[s].retryable, req[s].id)
              e == WithDelivery(seen, entry)
  <2>1. req[s].arg \in Targets
    BY <1>1, <1>11 DEF DraftFailure, GoodRequest
  <2>2. seen \in Evidence /\ Consistent(seen) /\ seen.delivery \in Seq(DeliveryEntries)
    BY EvidenceSeenGood DEF Evidence
  <2>3. entry \in DeliveryEntries /\ Fits(seen.delivery, entry)
    BY <1>1, <2>1, <2>2, FailedEntryFits
  <2>4. e \in Evidence /\ Consistent(e)
    BY <2>2, <2>3, WithDeliveryConsistent
  <2>5. Calling(s, "update_incident_normalized_evidence", [req[s] EXCEPT !.draft = e])
    BY <1>11 DEF DraftFailure
  <2>. HIDE DEF e
  <2>. QED BY <1>2, <1>11, <2>4, <2>5, DraftGood DEF DraftFailure
<1>12. CASE Load(s)
  <2>. DEFINE r == [req[s] EXCEPT !.pc = "save", !.snap = row]
  <2>1. CASE req[s].owner
    <3>1. r \in Requests
      BY <1>1 DEF Requests, Stages
    <3>2. GoodRequest(r)
      BY <1>1, <1>12, <3>1 DEF Load, GoodRequest, Requests, Decided
    <3>. QED BY <1>2, <1>12, <2>1, <3>2, BecomeGood DEF Load
  <2>2. CASE ~ req[s].owner
    BY <1>12, <2>2, AfterUpdateGood DEF Load, IInv
  <2>. QED BY <2>1, <2>2
<1>13. CASE Save(s)
  <2>1. GoodRow(row')
    BY <1>1, <1>13, WrittenGood DEF Save
  <2>. QED BY <1>13, <2>1, AfterUpdateGood DEF Save, IInv
<1>14. CASE Reread(s)
  <2>1. ASSUME req[s].op = "review"
        PROVE  [by |-> req[s].id, asked |-> req[s].arg, recorded |-> row.decision]
                 \in [by: Nat, asked: Decisions, recorded: Decisions \cup {"pending"}]
    BY <1>1, <2>1 DEF GoodRequest, Rows
  <2>2. reviews' \subseteq [by: Nat, asked: Decisions, recorded: Decisions \cup {"pending"}]
    BY <1>14, <2>1 DEF Reread, IInv
  <2>. QED BY <1>14, <2>2, FinishGood DEF Reread, IInv
<1>. QED BY <1>3, <1>4, <1>5, <1>6, <1>7, <1>8, <1>9, <1>10, <1>11, <1>12, <1>13, <1>14
         DEF Handle

LEMMA FailuresGood ==
  ASSUME IInv,
         \/ \E s \in Slots : DatabaseRaises(s) \/ SaveThenRaises(s)
         \/ Restart
  PROVE  IInv'
<1>1. ASSUME NEW s \in Slots, DatabaseRaises(s)
      PROVE  IInv'
  BY <1>1, RaiseGood DEF DatabaseRaises, IInv
<1>2. ASSUME NEW s \in Slots, SaveThenRaises(s)
      PROVE  IInv'
  <2>1. GoodRow(row')
    BY <1>2, SlotIsGood, WrittenGood DEF SaveThenRaises
  <2>. QED BY <1>2, <2>1, RaiseGood DEF SaveThenRaises, IInv
<1>3. CASE Restart
  <2>1. GoodRequest(Idle) /\ Idle \in Requests
    BY IdleIsGood DEF GoodRequest
  <2>. QED BY <1>3, <2>1 DEF Restart, IInv
<1>. QED BY <1>1, <1>2, <1>3

LEMMA StepGood == IInv /\ [Next]_vars => IInv'
<1>. SUFFICES ASSUME IInv, [Next]_vars PROVE IInv'
  OBVIOUS
<1>1. CASE UNCHANGED vars
  BY <1>1 DEF vars, IInv
<1>2. CASE Next
  BY <1>2, StartGood, HandleGood, FailuresGood DEF Next
<1>. QED BY <1>1, <1>2

\* Every version of the row in flight can be stored: the inductive invariant
\* of the interleaved handlers.
THEOREM EveryVersionIsGood == Spec => []IInv
<1>. QED BY InitGood, StepGood, PTL DEF Spec

\* Types.
THEOREM TypeCorrect == Spec => []TypeOK
<1>1. IInv => TypeOK
  BY DEF IInv, TypeOK, GoodRow
<1>. QED BY <1>1, EveryVersionIsGood, PTL

\* The status of an open incident is the one its guardian decision calls for
\* (record_guardian_decision, execute_incident and the update methods).
THEOREM StatusAlwaysFits == Spec => []StatusFitsDecision
<1>1. IInv => StatusFitsDecision
  BY DEF IInv, GoodRow, StatusFitsDecision
<1>. QED BY <1>1, EveryVersionIsGood, PTL

\* The latest replay heads the history (append_incident_replay_evidence).
THEOREM LatestReplayAlwaysHead == Spec => []LatestReplayIsHead
<1>1. IInv => LatestReplayIsHead
  BY DEF IInv, GoodRow, Consistent, LatestReplayIsHead
<1>. QED BY <1>1, EveryVersionIsGood, PTL

\* Attempts are numbered without gaps (_handoff_delivery_attempt_count).
THEOREM AttemptsAlwaysNumbered == Spec => []AttemptsNumbered
<1>1. IInv => AttemptsNumbered
  BY DEF IInv, GoodRow, Consistent, AttemptsNumbered
<1>. QED BY <1>1, EveryVersionIsGood, PTL

\* At most two retryable failures per target leave it retrying, however the
\* sends interleave (send_delivery_handoff).
THEOREM RetryBudgetIsKept == Spec => []RetryBudget
<1>1. IInv => RetryBudget
  <2>. SUFFICES ASSUME IInv, NEW t \in Targets
                PROVE  Cardinality(Retrying(row.evidence.delivery, t)) < RetryLimit
    BY DEF RetryBudget
  <2>1. /\ row.evidence.delivery \in Seq(DeliveryEntries)
        /\ Numbered(row.evidence.delivery)
        /\ RetryingBelowLimit(row.evidence.delivery)
    BY DEF IInv, GoodRow, Rows, Evidence, Consistent
  <2>. QED BY <2>1, RetryingIsBounded
<1>. QED BY <1>1, EveryVersionIsGood, PTL

\* First sends, retries and repeats are told apart by what the history holds.
THEOREM DuplicatesAlwaysToldApart == Spec => []DuplicatesToldApart
<1>1. IInv => DuplicatesToldApart
  BY DEF IInv, GoodRow, Consistent, DuplicatesToldApart
<1>. QED BY <1>1, EveryVersionIsGood, PTL

\* The feedback a delivery shows is on record (submit_engineering_feedback).
THEOREM FeedbackAlwaysOnRecord == Spec => []FeedbackOnRecord
<1>1. IInv => FeedbackOnRecord
  BY DEF IInv, GoodRow, Consistent, FeedbackOnRecord
<1>. QED BY <1>1, EveryVersionIsGood, PTL

-----------------------------------------------------------------------------
(***************************************************************************)
(* When requests are handled one at a time, the handlers implement the     *)
(* abstract store of IncidentStore, failures and restarts included: every  *)
(* change of the row is one whole operation applied to the row as it is.   *)
(* What the store promises of its steps then holds of the handlers.        *)
(*                                                                         *)
(* The argument: nobody else writes the row while a handler is under way,  *)
(* so the decision it has read, the draft it has made and the row it has   *)
(* selected are still current when it writes.                              *)
(***************************************************************************)

\* Requests do not overlap: the server has one slot at most.
Sequential == \A s, t \in Slots : s = t

\* The update request r is about to make on version v of the row is one
\* operation of the store.
Pending(r, v) ==
    \/ /\ r.call = "update_incident_status" /\ r.op = "review"
       /\ r.status = NextStatus(v.status, r.arg)
    \/ /\ r.call = "update_incident_status" /\ r.op = "execute"
       /\ r.status = "resolved" /\ v.evidence.outcome = v.decision
    \/ r.call = "append_incident_replay_evidence" /\ r.op = "replay"
    \/ /\ r.call = "update_incident_normalized_evidence"
       /\ \/ r.op = "execute" /\ r.draft = WithOutcome(v.evidence, v.decision)
          \/ /\ r.op \in {"send", "retry"}
             /\ r.draft = WithDelivery(v.evidence,
                              DeliveredEntry(v.evidence.delivery, r.arg, r.id))
          \/ /\ r.op \in {"send", "retry"}
             /\ \E b \in BOOLEAN :
                  r.draft = WithDelivery(v.evidence,
                                FailedEntry(v.evidence.delivery, r.arg, b, r.id))
          \/ r.op = "feedback" /\ r.draft = WithFeedback(v.evidence, r.arg, r.id)

\* What request r holds agrees with version v of the row.
Current(r, v) ==
    /\ r.pc # "idle" => r.id \in 1..MaxRequests
    /\ (r.op = "execute" /\ r.pc \in {"build", "draft", "load", "save"}) =>
          r.decision = v.decision /\ MayExecute(v)
    /\ (r.owner /\ r.pc \in {"load", "save"}) => Pending(r, v)
    /\ r.pc = "save" => r.owner /\ r.snap = v

SeqInv ==
    /\ IInv
    /\ issued \in 0..MaxRequests
    /\ \A s \in Slots : Current(req[s], row)

-----------------------------------------------------------------------------
(* The operators of the store are those of the row *)

LEMMA SameOperators ==
    /\ Store!NewRow = NewRow
    /\ \A status, decision : Store!NextStatus(status, decision) = NextStatus(status, decision)
    /\ \A r : Store!MayExecute(r) <=> MayExecute(r)
    /\ \A e, decision : Store!WithOutcome(e, decision) = WithOutcome(e, decision)
    /\ \A e, id : Store!WithReplay(e, id) = WithReplay(e, id)
    /\ \A e, entry : Store!WithDelivery(e, entry) = WithDelivery(e, entry)
    /\ \A d, t, id : Store!DeliveredEntry(d, t, id) = DeliveredEntry(d, t, id)
    /\ \A d, t, b, id : Store!FailedEntry(d, t, b, id) = FailedEntry(d, t, b, id)
    /\ \A e, state, id : Store!WithFeedback(e, state, id) = WithFeedback(e, state, id)
    /\ Store!Decisions = Decisions /\ Store!FeedbackStates = FeedbackStates
<1>1. Store!NewRow = NewRow
  BY Zenon DEF Store!NewRow, NewRow, Store!EmptyEvidence, EmptyEvidence, Store!NoOutcome,
     NoOutcome, Store!NoReplay, NoReplay
<1>2. \A status, decision : Store!NextStatus(status, decision) = NextStatus(status, decision)
  BY Zenon DEF Store!NextStatus, NextStatus
<1>3. \A r : Store!MayExecute(r) <=> MayExecute(r)
  BY Zenon DEF Store!MayExecute, MayExecute
<1>4. \A e, decision : Store!WithOutcome(e, decision) = WithOutcome(e, decision)
  BY Zenon DEF Store!WithOutcome, WithOutcome
<1>5. \A e, id : Store!WithReplay(e, id) = WithReplay(e, id)
  BY Zenon DEF Store!WithReplay, WithReplay, Store!Cut, Cut
<1>6. \A e, entry : Store!WithDelivery(e, entry) = WithDelivery(e, entry)
  BY Zenon DEF Store!WithDelivery, WithDelivery
<1>7. /\ \A S : Store!Cardinality(S) = Cardinality(S)
      /\ \A d, t : Store!Attempts(d, t) = Attempts(d, t)
      /\ \A d, t : Store!LastStatus(d, t) = LastStatus(d, t)
      /\ \A st, b, dup : Store!OperatorGuidance(st, b, dup) = OperatorGuidance(st, b, dup)
  <2>1. \A S : Store!Cardinality(S) = Cardinality(S)
    BY Zenon DEF Store!Cardinality, Cardinality
  <2>2. \A d, t : Store!Attempts(d, t) = Attempts(d, t)
    BY Zenon DEF Store!Attempts, Attempts
  <2>3. \A d, t : Store!LastStatus(d, t) = LastStatus(d, t)
    BY Zenon DEF Store!LastStatus, LastStatus, Store!LastAttempt, LastAttempt,
       Store!Attempts, Attempts
  <2>4. \A st, b, dup : Store!OperatorGuidance(st, b, dup) = OperatorGuidance(st, b, dup)
    BY Zenon DEF Store!OperatorGuidance, OperatorGuidance
  <2>. QED BY <2>1, <2>2, <2>3, <2>4
<1>8. /\ \A d, t, id : Store!DeliveredEntry(d, t, id) = DeliveredEntry(d, t, id)
      /\ \A d, t, b, id : Store!FailedEntry(d, t, b, id) = FailedEntry(d, t, b, id)
  <2>1. ASSUME NEW d, NEW t, NEW id
        PROVE  Store!DeliveredEntry(d, t, id) = DeliveredEntry(d, t, id)
    BY <1>7, Zenon DEF Store!DeliveredEntry, DeliveredEntry
  <2>2. ASSUME NEW d, NEW t, NEW b, NEW id
        PROVE  Store!FailedEntry(d, t, b, id) = FailedEntry(d, t, b, id)
    BY <1>7, Zenon DEF Store!FailedEntry, FailedEntry, Store!RetryLimit, RetryLimit
  <2>. QED BY <2>1, <2>2
<1>9. \A e, state, id : Store!WithFeedback(e, state, id) = WithFeedback(e, state, id)
  BY Zenon DEF Store!WithFeedback, WithFeedback, Store!Annotated, Annotated,
     Store!FeedbackGuidance, FeedbackGuidance, Store!FeedbackEntry, FeedbackEntry,
     Store!DeliveryState, DeliveryState, Store!DeliveryStates, DeliveryStates
<1>10. Store!Decisions = Decisions /\ Store!FeedbackStates = FeedbackStates
  BY DEF Store!Decisions, Decisions, Store!FeedbackStates, FeedbackStates
<1>. QED BY <1>1, <1>2, <1>3, <1>4, <1>5, <1>6, <1>7, <1>8, <1>9, <1>10

-----------------------------------------------------------------------------
(* The invariant of sequential handling *)

LEMMA SeqInit == Init => SeqInv
<1>. SUFFICES ASSUME Init PROVE SeqInv
  OBVIOUS
<1>1. \A s \in Slots : req[s] = Idle
  BY DEF Init
<1>2. Current(Idle, row)
  BY DEF Current, Idle
<1>3. issued \in 0..MaxRequests
  BY HandlersAssumption DEF Init
<1>. QED BY <1>1, <1>2, <1>3, InitGood DEF SeqInv

\* The slot that takes a step decides whether the invariant is kept.
LEMMA SeqBecome ==
  ASSUME Sequential, SeqInv, IInv', NEW s \in Slots, NEW r, Become(s, r),
         Current(r, row'), issued' \in 0..MaxRequests
  PROVE  SeqInv'
<1>1. req'[s] = r
  BY DEF Become, SeqInv, IInv
<1>2. \A t \in Slots : t = s
  BY DEF Sequential
<1>. QED BY <1>1, <1>2 DEF SeqInv

LEMMA SeqFinish ==
  ASSUME Sequential, SeqInv, IInv', NEW s \in Slots, Finish(s), issued' = issued
  PROVE  SeqInv'
<1>1. Current(Idle, row') /\ issued' \in 0..MaxRequests
  BY DEF Current, Idle, SeqInv
<1>. QED BY <1>1, SeqBecome DEF Finish

LEMMA SeqStart ==
  ASSUME Sequential, SeqInv, IInv', NEW s \in Slots, Start(s)
  PROVE  SeqInv'
<1>1. PICK operation \in Operations, tenant \in Tenants :
        \E arg \in ArgumentsOf(operation) :
           Become(s, [Idle EXCEPT !.pc = FirstStage(operation), !.op = operation,
                                  !.arg = arg, !.id = issued + 1,
                                  !.owner = (tenant = Owner)])
  BY DEF Start
<1>2. PICK arg \in ArgumentsOf(operation) :
        Become(s, [Idle EXCEPT !.pc = FirstStage(operation), !.op = operation,
                               !.arg = arg, !.id = issued + 1,
                               !.owner = (tenant = Owner)])
  BY <1>1
<1>. DEFINE r == [Idle EXCEPT !.pc = FirstStage(operation), !.op = operation,
                              !.arg = arg, !.id = issued + 1,
                              !.owner = (tenant = Owner)]
<1>3. /\ r.pc = FirstStage(operation) /\ r.op = operation /\ r.id = issued + 1
  BY DEF Idle
<1>4. /\ issued \in 0..MaxRequests /\ issued < MaxRequests /\ issued' = issued + 1
      /\ MaxRequests \in Nat
  BY HandlersAssumption DEF Start, SeqInv
<1>5. Current(r, row')
  <2>. HIDE DEF r
  <2>. QED BY <1>3, <1>4 DEF Current, FirstStage
<1>. QED BY <1>2, <1>4, <1>5, SeqBecome

\* Entering an update method with what the handler has prepared.
LEMMA SeqCalling ==
  ASSUME Sequential, SeqInv, IInv', NEW s \in Slots, NEW method \in Calls,
         NEW r \in Requests, Calling(s, method, r),
         r.id \in 1..MaxRequests,
         r.op = "execute" => r.decision = row'.decision /\ MayExecute(row'),
         r.owner => Pending([r EXCEPT !.call = method, !.pc = "load"], row'),
         issued' = issued
  PROVE  SeqInv'
<1>. DEFINE q == [r EXCEPT !.call = method, !.pc = "load"]
<1>1. /\ q.pc = "load" /\ q.id = r.id /\ q.op = r.op /\ q.decision = r.decision
      /\ q.owner = r.owner
  BY DEF Requests
<1>2. Current(q, row')
  <2>1. r.owner => Pending(q, row')
    OBVIOUS
  <2>. HIDE DEF q
  <2>. QED BY <1>1, <2>1 DEF Current
<1>3. Become(s, q)
  BY DEF Calling
<1>4. issued' \in 0..MaxRequests
  BY DEF SeqInv
<1>. HIDE DEF q
<1>. QED BY <1>2, <1>3, <1>4, SeqBecome

\* The drafts of evidence made in one step from the row as it is.
LEMMA SeqDraft ==
  ASSUME Sequential, SeqInv, IInv', NEW s \in Slots, NEW e \in Evidence,
         Calling(s, "update_incident_normalized_evidence", [req[s] EXCEPT !.draft = e]),
         req[s].pc \in {"read", "draft", "draft_failure"},
         req[s].op = "execute" => req[s].pc = "draft",
         \A r : ( /\ r.call = "update_incident_normalized_evidence"
                  /\ r.op = req[s].op /\ r.arg = req[s].arg /\ r.id = req[s].id
                  /\ r.owner = req[s].owner /\ r.owner /\ r.draft = e )
                => Pending(r, row),
         UNCHANGED <<row, issued>>
  PROVE  SeqInv'
<1>. DEFINE r == [req[s] EXCEPT !.draft = e]
            q == [r EXCEPT !.call = "update_incident_normalized_evidence", !.pc = "load"]
<1>1. req[s] \in Requests /\ Current(req[s], row)
  BY SlotIsGood DEF SeqInv
<1>2. /\ r \in Requests /\ r.id = req[s].id /\ r.op = req[s].op /\ r.owner = req[s].owner
      /\ r.decision = req[s].decision
  BY <1>1 DEF Requests
<1>3. /\ q.call = "update_incident_normalized_evidence"
      /\ q.op = req[s].op /\ q.arg = req[s].arg /\ q.id = req[s].id
      /\ q.owner = req[s].owner /\ q.draft = e
  BY <1>1 DEF Requests
<1>4. req[s].id \in 1..MaxRequests
  BY <1>1 DEF Current
<1>5. req[s].op = "execute" => req[s].decision = row.decision /\ MayExecute(row)
  BY <1>1 DEF Current
<1>6. req[s].owner => Pending(q, row)
  <2>. HIDE DEF q
  <2>. QED BY <1>3
<1>7. "update_incident_normalized_evidence" \in Calls /\ row' = row
  BY DEF Calls
<1>. HIDE DEF r
<1>. QED BY <1>2, <1>4, <1>5, <1>6, <1>7, SeqCalling DEF r
\* Going on after an update method: execute turns to the status update.
LEMMA SeqAfterUpdate ==
  ASSUME Sequential, SeqInv, IInv', NEW s \in Slots, AfterUpdate(s),
         req[s].pc \in {"load", "save"}, issued' = issued,
         (req[s].op = "execute" /\ req[s].call # "update_incident_status") =>
            /\ req[s].decision = row'.decision /\ MayExecute(row')
            /\ req[s].owner => row'.evidence.outcome = row'.decision
  PROVE  SeqInv'
<1>1. req[s] \in Requests /\ Current(req[s], row)
  BY SlotIsGood DEF SeqInv
<1>2. CASE req[s].call = "update_incident_status"
  <2>. DEFINE r == [req[s] EXCEPT !.pc = "reread"]
  <2>1. /\ r.pc = "reread" /\ r.id = req[s].id /\ req[s].pc # "idle"
    BY <1>1 DEF Requests
  <2>2. Current(r, row')
    <3>. HIDE DEF r
    <3>. QED BY <1>1, <2>1 DEF Current
  <2>3. Become(s, r)
    BY <1>2 DEF AfterUpdate, Go
  <2>. QED BY <2>2, <2>3, SeqBecome DEF SeqInv
<1>3. CASE req[s].call # "update_incident_status" /\ req[s].op = "execute"
  <2>. DEFINE r == [req[s] EXCEPT !.status = "resolved"]
              q == [r EXCEPT !.call = "update_incident_status", !.pc = "load"]
  <2>1. /\ r \in Requests /\ r.id = req[s].id /\ r.op = "execute" /\ r.owner = req[s].owner
        /\ r.decision = req[s].decision
    BY <1>1, <1>3 DEF Requests, Statuses
  <2>2. /\ q.call = "update_incident_status" /\ q.op = "execute" /\ q.status = "resolved"
    BY <1>1, <1>3 DEF Requests
  <2>3. r.owner => Pending(q, row')
    <3>. HIDE DEF q
    <3>. QED BY <1>3, <2>1, <2>2 DEF Pending
  <2>4. Calling(s, "update_incident_status", r) /\ "update_incident_status" \in Calls
    BY <1>3 DEF AfterUpdate, Calls
  <2>5. req[s].id \in 1..MaxRequests
    BY <1>1 DEF Current
  <2>. HIDE DEF r
  <2>. QED BY <1>3, <2>1, <2>3, <2>4, <2>5, SeqCalling
<1>4. CASE req[s].call # "update_incident_status" /\ req[s].op # "execute"
  BY <1>4, SeqFinish DEF AfterUpdate
<1>. QED BY <1>2, <1>3, <1>4

\* What execute's first update leaves in the row.
LEMMA OutcomeWritten ==
  ASSUME NEW r, NEW v, GoodRequest(r), v \in Rows, Current(r, v), r.pc = "save",
         r.op = "execute", r.call # "update_incident_status"
  PROVE  /\ Written(r).decision = r.decision /\ MayExecute(Written(r))
         /\ Written(r).evidence.outcome = Written(r).decision
<1>1. /\ r.snap = v /\ r.decision = v.decision /\ MayExecute(v) /\ Pending(r, v)
  BY DEF Current
<1>2. /\ r.call = "update_incident_normalized_evidence"
      /\ r.draft = WithOutcome(v.evidence, v.decision)
  BY <1>1 DEF Pending
<1>3. Written(r) = [v EXCEPT !.evidence = WithOutcome(v.evidence, v.decision)]
  BY <1>1, <1>2 DEF Written
<1>. QED BY <1>1, <1>3 DEF MayExecute, WithOutcome, Rows, Evidence

LEMMA SeqHandle ==
  ASSUME Sequential, SeqInv, IInv', NEW s \in Slots, Handle(s)
  PROVE  SeqInv'
<1>. USE DEF At
<1>1. /\ req[s] \in Requests /\ GoodRequest(req[s]) /\ Current(req[s], row)
      /\ row \in Rows /\ issued \in 0..MaxRequests
  BY SlotIsGood DEF SeqInv, IInv, GoodRow
<1>2. IInv
  BY DEF SeqInv
<1>3. CASE ReadForReview(s)
  <2>. DEFINE r == [req[s] EXCEPT !.status = NextStatus(row.status, req[s].arg)]
              q == [r EXCEPT !.call = "update_incident_status", !.pc = "load"]
  <2>1. CASE req[s].owner
    <3>1. /\ req[s].op = "review" /\ req[s].pc = "read" /\ row' = row /\ issued' = issued
          /\ Calling(s, "update_incident_status", r)
      BY <1>3, <2>1 DEF ReadForReview
    <3>2. NextStatus(row.status, req[s].arg) \in Statuses
      BY DEF NextStatus, Statuses
    <3>3. /\ r \in Requests /\ r.id = req[s].id /\ r.op = req[s].op
      BY <1>1, <3>2 DEF Requests
    <3>4. /\ q.call = "update_incident_status" /\ q.op = "review" /\ q.arg = req[s].arg
          /\ q.status = NextStatus(row.status, req[s].arg)
      BY <1>1, <3>1 DEF Requests
    <3>5. Pending(q, row')
      <4>. HIDE DEF q
      <4>. QED BY <3>1, <3>4 DEF Pending
    <3>6. req[s].id \in 1..MaxRequests /\ "update_incident_status" \in Calls
      BY <1>1, <3>1 DEF Current, Calls
    <3>. HIDE DEF r
    <3>. QED BY <3>1, <3>3, <3>5, <3>6, SeqCalling
  <2>2. CASE ~ req[s].owner
    BY <1>3, <2>2, SeqFinish DEF ReadForReview
  <2>. QED BY <2>1, <2>2
<1>4. CASE ReadForExecute(s)
  <2>. DEFINE r == [req[s] EXCEPT !.pc = "build", !.decision = row.decision]
  <2>1. CASE req[s].owner /\ MayExecute(row)
    <3>1. /\ req[s].pc = "read" /\ row' = row /\ issued' = issued /\ Become(s, r)
      BY <1>4, <2>1 DEF ReadForExecute
    <3>2. /\ r.pc = "build" /\ r.id = req[s].id /\ r.decision = row.decision
      BY <1>1 DEF Requests
    <3>3. Current(r, row')
      <4>. HIDE DEF r
      <4>. QED BY <1>1, <2>1, <3>1, <3>2 DEF Current
    <3>. QED BY <1>1, <3>1, <3>3, SeqBecome
  <2>2. CASE ~ (req[s].owner /\ MayExecute(row))
    BY <1>4, <2>2, SeqFinish DEF ReadForExecute
  <2>. QED BY <2>1, <2>2
<1>5. CASE ReadForRetry(s)
  <2>. DEFINE r == [req[s] EXCEPT !.pc = "build"]
  <2>1. Become(s, r) \/ Finish(s)
    BY <1>5 DEF ReadForRetry, Go
  <2>2. /\ req[s].op = "retry" /\ req[s].pc = "read" /\ row' = row /\ issued' = issued
    BY <1>5 DEF ReadForRetry
  <2>3. r.pc = "build" /\ r.id = req[s].id /\ r.op = "retry"
    BY <1>1, <2>2 DEF Requests
  <2>4. Current(r, row')
    <3>. HIDE DEF r
    <3>. QED BY <1>1, <2>2, <2>3 DEF Current
  <2>. QED BY <1>1, <2>1, <2>2, <2>4, SeqBecome, SeqFinish
<1>6. CASE ReadForFeedback(s)
  <2>. DEFINE e == WithFeedback(EvidenceSeen(s), req[s].arg, req[s].id)
  <2>1. /\ req[s].op = "feedback" /\ req[s].pc = "read" /\ UNCHANGED <<row, issued>>
        /\ Calling(s, "update_incident_normalized_evidence", [req[s] EXCEPT !.draft = e])
    BY <1>6 DEF ReadForFeedback
  <2>2. e \in Evidence
    <3>1. req[s].arg \in FeedbackStates /\ req[s].id \in Nat
      BY <1>1, <2>1 DEF GoodRequest, Requests
    <3>. QED BY <1>2, <3>1, EvidenceSeenGood, WithFeedbackConsistent
  <2>3. req[s].owner => e = WithFeedback(row.evidence, req[s].arg, req[s].id)
    BY DEF EvidenceSeen
  <2>. HIDE DEF e
  <2>. QED BY <2>1, <2>2, <2>3, SeqDraft DEF Pending
<1>7. CASE BuildContext(s)
  <2>. DEFINE r == [req[s] EXCEPT !.pc = "draft"]
              q == [req[s] EXCEPT !.call = "append_incident_replay_evidence", !.pc = "load"]
  <2>1. /\ req[s].pc = "build" /\ row' = row /\ issued' = issued
    BY <1>7 DEF BuildContext
  <2>2. req[s].id \in 1..MaxRequests
    BY <1>1, <2>1 DEF Current
  <2>3. CASE req[s].op = "replay"
    <3>1. Calling(s, "append_incident_replay_evidence", req[s])
      BY <1>7, <2>3 DEF BuildContext
    <3>2. /\ q.call = "append_incident_replay_evidence" /\ q.op = "replay"
      BY <1>1, <2>3 DEF Requests
    <3>3. Pending(q, row')
      <4>. HIDE DEF q
      <4>. QED BY <3>2 DEF Pending
    <3>4. "append_incident_replay_evidence" \in Calls
      BY DEF Calls
    <3>. QED BY <1>1, <2>1, <2>2, <2>3, <3>1, <3>3, <3>4, SeqCalling
  <2>4. CASE req[s].op # "replay"
    <3>1. Become(s, r)
      BY <1>7, <2>4 DEF BuildContext, Go
    <3>2. /\ r.pc = "draft" /\ r.id = req[s].id /\ r.op = req[s].op
          /\ r.decision = req[s].decision
      BY <1>1 DEF Requests
    <3>3. Current(r, row')
      <4>. HIDE DEF r
      <4>. QED BY <1>1, <2>1, <2>2, <3>2 DEF Current
    <3>. QED BY <1>1, <2>1, <3>1, <3>3, SeqBecome
  <2>. QED BY <2>3, <2>4
<1>8. CASE BuildRaises(s)
  <2>1. CASE req[s].op \in {"send", "retry"}
    <3>1. PICK retryable \in BOOLEAN :
            Become(s, [req[s] EXCEPT !.pc = "draft_failure", !.failing = TRUE,
                                     !.retryable = retryable])
      BY <1>8, <2>1 DEF BuildRaises
    <3>. DEFINE r == [req[s] EXCEPT !.pc = "draft_failure", !.failing = TRUE,
                                    !.retryable = retryable]
    <3>2. /\ req[s].pc = "build" /\ row' = row /\ issued' = issued
      BY <1>8 DEF BuildRaises
    <3>3. r.pc = "draft_failure" /\ r.id = req[s].id
      BY <1>1 DEF Requests
    <3>4. Current(r, row')
      <4>. HIDE DEF r
      <4>. QED BY <1>1, <3>2, <3>3 DEF Current
    <3>. QED BY <1>1, <3>1, <3>2, <3>4, SeqBecome
  <2>2. CASE req[s].op \notin {"send", "retry"}
    BY <1>8, <2>2, SeqFinish DEF BuildRaises
  <2>. QED BY <2>1, <2>2
<1>9. CASE DraftOutcome(s)
  <2>. DEFINE e == WithOutcome(EvidenceSeen(s), req[s].decision)
  <2>1. /\ req[s].op = "execute" /\ req[s].pc = "draft" /\ UNCHANGED <<row, issued>>
        /\ Calling(s, "update_incident_normalized_evidence", [req[s] EXCEPT !.draft = e])
    BY <1>9 DEF DraftOutcome
  <2>2. e \in Evidence
    <3>1. req[s].decision \in {"pending", "approve"}
      BY <1>1 DEF GoodRequest
    <3>. QED BY <1>2, <3>1, EvidenceSeenGood, WithOutcomeConsistent
  <2>3. req[s].owner => e = WithOutcome(row.evidence, row.decision)
    BY <1>1, <2>1 DEF EvidenceSeen, Current
  <2>. HIDE DEF e
  <2>. QED BY <2>1, <2>2, <2>3, SeqDraft DEF Pending
<1>10. CASE DraftDelivery(s)
  <2>. DEFINE seen == EvidenceSeen(s)
              entry == DeliveredEntry(seen.delivery, req[s].arg, req[s].id)
              e == WithDelivery(seen, entry)
  <2>1. /\ req[s].op \in {"send", "retry"} /\ req[s].pc = "draft"
        /\ UNCHANGED <<row, issued>>
        /\ Calling(s, "update_incident_normalized_evidence", [req[s] EXCEPT !.draft = e])
    BY <1>10 DEF DraftDelivery
  <2>2. e \in Evidence
    <3>1. req[s].arg \in Targets /\ req[s].id \in Nat
      BY <1>1, <2>1 DEF GoodRequest, Requests
    <3>2. seen \in Evidence /\ Consistent(seen) /\ seen.delivery \in Seq(DeliveryEntries)
      BY <1>2, EvidenceSeenGood DEF Evidence
    <3>3. entry \in DeliveryEntries /\ Fits(seen.delivery, entry)
      BY <3>1, <3>2, DeliveredEntryFits
    <3>. QED BY <3>2, <3>3, WithDeliveryConsistent
  <2>3. req[s].owner => e = WithDelivery(row.evidence,
                              DeliveredEntry(row.evidence.delivery, req[s].arg, req[s].id))
    BY DEF EvidenceSeen
  <2>. HIDE DEF e
  <2>. QED BY <2>1, <2>2, <2>3, SeqDraft DEF Pending
<1>11. CASE DraftFailure(s)
  <2>. DEFINE seen == EvidenceSeen(s)
              entry == FailedEntry(seen.delivery, req[s].arg, req[s].retryable, req[s].id)
              e == WithDelivery(seen, entry)
  <2>1. /\ req[s].op \in {"send", "retry"} /\ req[s].pc = "draft_failure"
        /\ UNCHANGED <<row, issued>>
        /\ Calling(s, "update_incident_normalized_evidence", [req[s] EXCEPT !.draft = e])
    BY <1>11 DEF DraftFailure
  <2>2. req[s].retryable \in BOOLEAN
    BY <1>1 DEF Requests
  <2>3. e \in Evidence
    <3>1. req[s].arg \in Targets /\ req[s].id \in Nat
      BY <1>1, <2>1 DEF GoodRequest, Requests
    <3>2. seen \in Evidence /\ Consistent(seen) /\ seen.delivery \in Seq(DeliveryEntries)
      BY <1>2, EvidenceSeenGood DEF Evidence
    <3>3. entry \in DeliveryEntries /\ Fits(seen.delivery, entry)
      BY <2>2, <3>1, <3>2, FailedEntryFits
    <3>. QED BY <3>2, <3>3, WithDeliveryConsistent
  <2>4. req[s].owner =>
          \E b \in BOOLEAN : e = WithDelivery(row.evidence,
                              FailedEntry(row.evidence.delivery, req[s].arg, b, req[s].id))
    BY <2>2 DEF EvidenceSeen
  <2>. HIDE DEF e
  <2>. QED BY <2>1, <2>3, <2>4, SeqDraft DEF Pending
<1>12. CASE Load(s)
  <2>. DEFINE r == [req[s] EXCEPT !.pc = "save", !.snap = row]
  <2>1. CASE req[s].owner
    <3>1. /\ req[s].pc = "load" /\ row' = row /\ issued' = issued /\ Become(s, r)
      BY <1>12, <2>1 DEF Load
    <3>2. /\ r.pc = "save" /\ r.id = req[s].id /\ r.op = req[s].op /\ r.call = req[s].call
          /\ r.decision = req[s].decision /\ r.owner = req[s].owner /\ r.snap = row
          /\ r.arg = req[s].arg /\ r.status = req[s].status /\ r.draft = req[s].draft
      BY <1>1 DEF Requests
    <3>3. Pending(req[s], row)
      BY <1>1, <2>1, <3>1 DEF Current
    <3>4. Pending(r, row')
      <4>. HIDE DEF r
      <4>. QED BY <3>1, <3>2, <3>3 DEF Pending
    <3>5. Current(r, row')
      <4>. HIDE DEF r
      <4>. QED BY <1>1, <2>1, <3>1, <3>2, <3>4 DEF Current
    <3>. QED BY <1>1, <3>1, <3>5, SeqBecome
  <2>2. CASE ~ req[s].owner
    <3>1. /\ req[s].pc = "load" /\ AfterUpdate(s) /\ row' = row /\ issued' = issued
      BY <1>12, <2>2 DEF Load
    <3>2. req[s].op = "execute" => req[s].decision = row'.decision /\ MayExecute(row')
      BY <1>1, <3>1 DEF Current
    <3>. QED BY <2>2, <3>1, <3>2, SeqAfterUpdate
  <2>. QED BY <2>1, <2>2
<1>13. CASE Save(s)
  <2>1. /\ req[s].pc = "save" /\ AfterUpdate(s) /\ row' = Written(req[s]) /\ issued' = issued
    BY <1>13 DEF Save
  <2>. QED BY <1>1, <2>1, OutcomeWritten, SeqAfterUpdate
<1>14. CASE Reread(s)
  BY <1>14, SeqFinish DEF Reread
<1>. QED BY <1>3, <1>4, <1>5, <1>6, <1>7, <1>8, <1>9, <1>10, <1>11, <1>12, <1>13, <1>14
         DEF Handle

LEMMA SeqRaise ==
  ASSUME Sequential, SeqInv, IInv', NEW s \in Slots, Raise(s), issued' = issued,
         req[s].pc # "idle"
  PROVE  SeqInv'
<1>. DEFINE r == [req[s] EXCEPT !.pc = "draft_failure", !.failing = TRUE]
<1>1. req[s] \in Requests /\ Current(req[s], row) /\ issued \in 0..MaxRequests
  BY SlotIsGood DEF SeqInv
<1>2. /\ r.pc = "draft_failure" /\ r.id = req[s].id
  BY <1>1 DEF Requests
<1>3. Current(r, row')
  <2>. HIDE DEF r
  <2>. QED BY <1>1, <1>2 DEF Current
<1>4. Become(s, r) \/ Finish(s)
  BY DEF Raise
<1>. QED BY <1>1, <1>3, <1>4, SeqBecome, SeqFinish

LEMMA SeqStep == Sequential /\ SeqInv /\ [Next]_vars => SeqInv'
<1>. SUFFICES ASSUME Sequential, SeqInv, [Next]_vars PROVE SeqInv'
  OBVIOUS
<1>1. IInv'
  BY StepGood DEF SeqInv
<1>2. CASE UNCHANGED vars
  BY <1>1, <1>2 DEF vars, SeqInv
<1>3. ASSUME NEW s \in Slots, DatabaseRaises(s) \/ SaveThenRaises(s)
      PROVE  SeqInv'
  <2>1. Raise(s) /\ issued' = issued /\ req[s].pc # "idle"
    BY <1>3 DEF DatabaseRaises, SaveThenRaises
  <2>. QED BY <1>1, <2>1, SeqRaise
<1>4. CASE Restart
  <2>1. \A s \in Slots : req'[s] = Idle
    BY <1>4 DEF Restart
  <2>2. Current(Idle, row') /\ issued' \in 0..MaxRequests
    BY <1>4 DEF Current, Idle, Restart, SeqInv
  <2>. QED BY <1>1, <2>1, <2>2 DEF SeqInv
<1>. QED BY <1>1, <1>2, <1>3, <1>4, SeqStart, SeqHandle DEF Next

-----------------------------------------------------------------------------
(* The refinement *)

\* The row an update writes is one operation away from the row as it is.
LEMMA WriteIsStoreStep ==
  ASSUME SeqInv, NEW s \in Slots, req[s].pc = "save", row' = Written(req[s])
  PROVE  Store!Next
<1>. DEFINE r == req[s]
<1>1. /\ r \in Requests /\ GoodRequest(r) /\ Current(r, row) /\ row \in Rows
  BY SlotIsGood DEF SeqInv, IInv, GoodRow
<1>2. r.snap = row /\ Pending(r, row) /\ r.id \in 1..MaxRequests
  BY <1>1 DEF Current
<1>3. CASE r.call = "update_incident_status" /\ r.op = "review"
  <2>1. r.status = NextStatus(row.status, r.arg) /\ r.arg \in Decisions
    BY <1>1, <1>2, <1>3 DEF Pending, GoodRequest
  <2>2. row' = [row EXCEPT !.status = NextStatus(row.status, r.arg), !.decision = r.arg]
    BY <1>2, <1>3, <2>1 DEF Written
  <2>3. Store!Review(r.arg)
    BY <2>2, SameOperators DEF Store!Review
  <2>. QED BY <2>1, <2>3, SameOperators DEF Store!Next
<1>4. CASE r.call = "update_incident_status" /\ r.op = "execute"
  <2>1. r.status = "resolved" /\ row.evidence.outcome = row.decision /\ MayExecute(row)
    BY <1>1, <1>2, <1>4 DEF Pending, Current
  <2>2. row' = [row EXCEPT !.status = "resolved"]
    BY <1>1, <1>2, <1>4, <2>1 DEF Written, Rows
  <2>3. Store!Resolve
    BY <2>1, <2>2, SameOperators DEF Store!Resolve
  <2>. QED BY <2>3 DEF Store!Next
<1>5. CASE r.call = "append_incident_replay_evidence"
  <2>1. row' = [row EXCEPT !.evidence = WithReplay(row.evidence, r.id)]
    BY <1>2, <1>5 DEF Written
  <2>2. Store!Replay(r.id)
    BY <2>1, SameOperators DEF Store!Replay
  <2>. QED BY <1>2, <2>2 DEF Store!Next
<1>6. CASE r.call = "update_incident_normalized_evidence"
  <2>1. row' = [row EXCEPT !.evidence = r.draft]
    BY <1>2, <1>6 DEF Written
  <2>2. CASE r.op = "execute" /\ r.draft = WithOutcome(row.evidence, row.decision)
    <3>1. MayExecute(row)
      BY <1>1, <2>2 DEF Current
    <3>2. Store!RecordOutcome
      BY <2>1, <2>2, <3>1, SameOperators DEF Store!RecordOutcome
    <3>. QED BY <3>2 DEF Store!Next
  <2>3. CASE /\ r.op \in {"send", "retry"}
             /\ r.draft = WithDelivery(row.evidence,
                              DeliveredEntry(row.evidence.delivery, r.arg, r.id))
    <3>1. r.arg \in Targets
      BY <1>1, <2>3 DEF GoodRequest
    <3>2. Store!Deliver(r.arg, r.id)
      BY <2>1, <2>3, SameOperators DEF Store!Deliver
    <3>. QED BY <1>2, <3>1, <3>2 DEF Store!Next
  <2>4. CASE /\ r.op \in {"send", "retry"}
             /\ \E b \in BOOLEAN :
                  r.draft = WithDelivery(row.evidence,
                                FailedEntry(row.evidence.delivery, r.arg, b, r.id))
    <3>1. r.arg \in Targets
      BY <1>1, <2>4 DEF GoodRequest
    <3>2. PICK b \in BOOLEAN :
                  r.draft = WithDelivery(row.evidence,
                                FailedEntry(row.evidence.delivery, r.arg, b, r.id))
      BY <2>4
    <3>3. Store!DeliveryFails(r.arg, b, r.id)
      BY <2>1, <3>2, SameOperators DEF Store!DeliveryFails
    <3>. QED BY <1>2, <3>1, <3>3 DEF Store!Next
  <2>5. CASE r.op = "feedback" /\ r.draft = WithFeedback(row.evidence, r.arg, r.id)
    <3>1. r.arg \in FeedbackStates
      BY <1>1, <2>5 DEF GoodRequest
    <3>2. Store!Feedback(r.arg, r.id)
      BY <2>1, <2>5, SameOperators DEF Store!Feedback
    <3>. QED BY <1>2, <3>1, <3>2, SameOperators DEF Store!Next
  <2>. QED BY <1>2, <1>6, <2>2, <2>3, <2>4, <2>5 DEF Pending
<1>. QED BY <1>2, <1>3, <1>4, <1>5, <1>6 DEF Pending

LEMMA StepImplementsStore ==
  Sequential /\ SeqInv /\ [Next]_vars => [Store!Next]_row
<1>. SUFFICES ASSUME Sequential, SeqInv, [Next]_vars PROVE Store!Next \/ row' = row
  OBVIOUS
<1>1. ASSUME NEW s \in Slots, Start(s) \/ Handle(s) \/ DatabaseRaises(s) \/ SaveThenRaises(s)
      PROVE  \/ row' = row
             \/ req[s].pc = "save" /\ row' = Written(req[s])
  BY <1>1 DEF Start, Handle, DatabaseRaises, SaveThenRaises, ReadForReview, ReadForExecute,
     ReadForRetry, ReadForFeedback, BuildContext, BuildRaises, DraftOutcome, DraftDelivery,
     DraftFailure, Load, Save, Reread
<1>. QED BY <1>1, WriteIsStoreStep DEF Next, Restart, vars

\* One request at a time, the handlers implement the atomic store: the update
\* methods' separate SELECT and UPDATE, the context built in between, raised
\* exceptions and restarts never show.
THEOREM HandlersImplementStore == Sequential => (Spec => ImplementsStore)
<1>. SUFFICES ASSUME Sequential PROVE Spec => ImplementsStore
  OBVIOUS
<1>1. Init => Store!Init
  BY SameOperators DEF Init, Store!Init
<1>2. SeqInv /\ [Next]_vars => SeqInv'
  BY SeqStep
<1>3. SeqInv /\ [Next]_vars => [Store!Next]_row
  BY StepImplementsStore
<1>. QED BY <1>1, <1>2, <1>3, SeqInit, PTL DEF Spec, ImplementsStore, Store!Spec
-----------------------------------------------------------------------------
(* What the store's steps promise *)

LEMMA StoreStep ==
  ASSUME row \in Rows, Store!Next
  PROVE  /\ row.status = "resolved" => row'.status = "resolved"
         /\ (row.status # "resolved" /\ row'.status = "resolved") =>
               /\ row.decision \notin {"reject", "request_modification"}
               /\ row'.evidence.outcome # NoOutcome
         /\ row.evidence.outcome # NoOutcome => row'.evidence.outcome # NoOutcome
<1>. USE SameOperators
<1>1. ASSUME NEW decision \in Decisions, Store!Review(decision)
      PROVE  /\ row'.status = "resolved" <=> row.status = "resolved"
             /\ row'.evidence = row.evidence
  BY <1>1 DEF Store!Review, Rows, NextStatus
<1>2. CASE Store!RecordOutcome
  BY <1>2 DEF Store!RecordOutcome, Rows, WithOutcome, Evidence, MayExecute, NoOutcome
<1>3. CASE Store!Resolve
  BY <1>3 DEF Store!Resolve, Rows, MayExecute, NoOutcome
<1>4. ASSUME NEW e, row' = [row EXCEPT !.evidence = e],
             e.outcome = row.evidence.outcome
      PROVE  /\ row'.status = row.status
             /\ row'.evidence.outcome = row.evidence.outcome
  BY <1>4 DEF Rows
<1>5. row.evidence \in Evidence
  BY DEF Rows
<1>6. ASSUME NEW id \in 1..MaxRequests, Store!Replay(id)
      PROVE  /\ row'.status = row.status
             /\ row'.evidence.outcome = row.evidence.outcome
  <2>1. WithReplay(row.evidence, id).outcome = row.evidence.outcome
    BY <1>5 DEF WithReplay, Evidence
  <2>. QED BY <1>4, <1>6, <2>1 DEF Store!Replay
<1>7. ASSUME NEW entry
      PROVE  WithDelivery(row.evidence, entry).outcome = row.evidence.outcome
  BY <1>5 DEF WithDelivery, Evidence
<1>8. ASSUME NEW id \in 1..MaxRequests, NEW t \in Targets,
             Store!Deliver(t, id) \/ (\E b \in BOOLEAN : Store!DeliveryFails(t, b, id))
      PROVE  /\ row'.status = row.status
             /\ row'.evidence.outcome = row.evidence.outcome
  <2>1. PICK entry : row' = [row EXCEPT !.evidence = WithDelivery(row.evidence, entry)]
    BY <1>8 DEF Store!Deliver, Store!DeliveryFails
  <2>. QED BY <1>4, <1>7, <2>1
<1>9. ASSUME NEW id \in 1..MaxRequests, NEW state \in FeedbackStates, Store!Feedback(state, id)
      PROVE  /\ row'.status = row.status
             /\ row'.evidence.outcome = row.evidence.outcome
  <2>1. WithFeedback(row.evidence, state, id).outcome = row.evidence.outcome
    BY <1>5 DEF WithFeedback, Evidence
  <2>. QED BY <1>4, <1>9, <2>1 DEF Store!Feedback
<1>. QED BY <1>1, <1>2, <1>3, <1>6, <1>8, <1>9 DEF Store!Next

LEMMA SeqRowStep ==
  ASSUME Sequential, SeqInv, [Next]_vars
  PROVE  row \in Rows /\ (Store!Next \/ row' = row)
BY StepImplementsStore DEF SeqInv, IInv, GoodRow

\* One request at a time, a resolved incident stays resolved.
THEOREM SequentialResolutionIsFinal == Sequential => (Spec => ResolutionIsFinal)
<1>. SUFFICES ASSUME Sequential PROVE Spec => ResolutionIsFinal
  OBVIOUS
<1>1. SeqInv /\ [Next]_vars => [row.status = "resolved" => row'.status = "resolved"]_row
  BY SeqRowStep, StoreStep
<1>2. SeqInv /\ [Next]_vars => SeqInv'
  BY SeqStep
<1>. QED BY <1>1, <1>2, SeqInit, PTL DEF Spec, ResolutionIsFinal

\* One request at a time, no incident is resolved against its guardian.
THEOREM SequentialNoResolutionAfterRejection ==
  Sequential => (Spec => NoResolutionAfterRejection)
<1>. SUFFICES ASSUME Sequential PROVE Spec => NoResolutionAfterRejection
  OBVIOUS
<1>1. SeqInv /\ [Next]_vars =>
        [(row.status # "resolved" /\ row'.status = "resolved") =>
            row.decision \notin {"reject", "request_modification"}]_row
  BY SeqRowStep, StoreStep
<1>2. SeqInv /\ [Next]_vars => SeqInv'
  BY SeqStep
<1>. QED BY <1>1, <1>2, SeqInit, PTL DEF Spec, NoResolutionAfterRejection

\* One request at a time, a resolved incident has its outcome on record.
THEOREM SequentialResolvedHasOutcome == Sequential => (Spec => []ResolvedHasOutcome)
<1>. SUFFICES ASSUME Sequential PROVE Spec => []ResolvedHasOutcome
  OBVIOUS
<1>1. Init => ResolvedHasOutcome
  BY DEF Init, NewRow, ResolvedHasOutcome
<1>2. SeqInv /\ ResolvedHasOutcome /\ [Next]_vars => ResolvedHasOutcome'
  <2>. SUFFICES ASSUME SeqInv, ResolvedHasOutcome, [Next]_vars
                PROVE  ResolvedHasOutcome'
    OBVIOUS
  <2>1. row \in Rows /\ (Store!Next \/ row' = row)
    BY SeqRowStep
  <2>. QED BY <2>1, StoreStep DEF ResolvedHasOutcome
<1>3. SeqInv /\ [Next]_vars => SeqInv'
  BY SeqStep
<1>. QED BY <1>1, <1>2, <1>3, SeqInit, PTL DEF Spec

-----------------------------------------------------------------------------
(***************************************************************************)
(* Handoffs, one request at a time.  Between the read of a retry and its   *)
(* write nobody else adds an attempt, so the status it was let through     *)
(* with is still the last one, or the one it has added itself; and nothing *)
(* that was appended for a request is dropped by a later one.              *)
(***************************************************************************)

\* The newest entry of a target is its last attempt.
LEMMA LastOfAppended ==
  ASSUME NEW d \in Seq(DeliveryEntries), NEW e \in DeliveryEntries
  PROVE  LastStatus(Append(d, e), e.target) = e.status
<1>. DEFINE a == Append(d, e)
            n == Len(d) + 1
<1>1. a \in Seq(DeliveryEntries) /\ Len(a) = n /\ a[n] = e /\ n \in 1..n /\ DOMAIN a = 1..n
  OBVIOUS
<1>. HIDE DEF a, n
<1>2. n \in Attempts(a, e.target)
  BY <1>1 DEF Attempts
<1>3. /\ LastAttempt(a, e.target) \in Attempts(a, e.target)
      /\ n <= LastAttempt(a, e.target)
  BY <1>1, <1>2, LastAttemptIsAttempt
<1>4. LastAttempt(a, e.target) \in 1..n
  BY <1>1, <1>3 DEF Attempts
<1>5. LastAttempt(a, e.target) = n
  BY <1>1, <1>3, <1>4
<1>6. LastStatus(a, e.target) = e.status
  BY <1>1, <1>2, <1>5 DEF LastStatus
<1>. QED BY <1>6 DEF a

\* What request r, a handoff, knows of version v of the row.
Informed(r, v) ==
    /\ (r.op = "retry" /\ r.pc \notin {"idle", "read"}) =>
          r.owner /\ LastStatus(v.evidence.delivery, r.arg) \in {"delivered", "retrying"}
    /\ (r.op \in {"send", "retry"} /\ r.pc = "draft_failure") => r.failing
    /\ (r.op \in {"send", "retry"} /\ ~r.failing /\ r.owner /\ r.pc \in {"load", "save"}) =>
          r.draft = WithDelivery(v.evidence, DeliveredEntry(v.evidence.delivery, r.arg, r.id))

HandoffInv == SeqInv /\ \A s \in Slots : Informed(req[s], row)

LEMMA IdleIsInformed == \A v : Informed(Idle, v)
BY DEF Informed, Idle

\* Who asks for what is settled when a request arrives.
Same(r, q) == q.op = r.op /\ q.arg = r.arg /\ q.id = r.id /\ q.owner = r.owner

LEMMA RequestIsKept ==
  ASSUME IInv, NEW s \in Slots, Handle(s) \/ DatabaseRaises(s) \/ SaveThenRaises(s)
  PROVE  req'[s] = Idle \/ Same(req[s], req'[s])
<1>1. req[s] \in Requests /\ req \in [Slots -> Requests]
  BY SlotIsGood DEF IInv
<1>2. \A r : Become(s, r) => req'[s] = r
  BY <1>1 DEF Become
<1>3. Finish(s) => req'[s] = Idle
  BY <1>2 DEF Finish
<1>4. ASSUME NEW r \in Requests, Same(req[s], r), NEW method, Calling(s, method, r)
      PROVE  Same(req[s], req'[s])
  BY <1>2, <1>4 DEF Calling, Same, Requests
<1>5. ASSUME NEW stage, Go(s, stage)
      PROVE  Same(req[s], req'[s])
  BY <1>1, <1>2, <1>5 DEF Go, Same, Requests
<1>6. ASSUME NEW e, NEW method, Calling(s, method, [req[s] EXCEPT !.draft = e])
      PROVE  Same(req[s], req'[s])
  BY <1>1, <1>2, <1>6 DEF Calling, Same, Requests
<1>7. ASSUME NEW status, NEW method, Calling(s, method, [req[s] EXCEPT !.status = status])
      PROVE  Same(req[s], req'[s])
  BY <1>1, <1>2, <1>7 DEF Calling, Same, Requests
<1>8. Same(req[s], req[s])
  BY DEF Same
<1>9. AfterUpdate(s) => req'[s] = Idle \/ Same(req[s], req'[s])
  <2>1. AfterUpdate(s) => \/ Go(s, "reread") \/ Finish(s)
                          \/ Calling(s, "update_incident_status", [req[s] EXCEPT !.status = "resolved"])
    BY Zenon DEF AfterUpdate
  <2>. QED BY <1>3, <1>5, <1>7, <2>1
<1>10. Raise(s) => req'[s] = Idle \/ Same(req[s], req'[s])
  <2>1. Raise(s) => \/ Become(s, [req[s] EXCEPT !.pc = "draft_failure", !.failing = TRUE])
                    \/ Finish(s)
    BY DEF Raise
  <2>2. Same(req[s], [req[s] EXCEPT !.pc = "draft_failure", !.failing = TRUE])
    BY <1>1 DEF Same, Requests
  <2>. QED BY <1>2, <1>3, <2>1, <2>2
<1>11. CASE ReadForReview(s)
  BY <1>3, <1>7, <1>11 DEF ReadForReview
<1>12. CASE ReadForExecute(s)
  BY <1>1, <1>2, <1>3, <1>12 DEF ReadForExecute, Same, Requests
<1>13. CASE ReadForRetry(s)
  BY <1>3, <1>5, <1>13 DEF ReadForRetry
<1>14. CASE ReadForFeedback(s) \/ DraftOutcome(s) \/ DraftDelivery(s) \/ DraftFailure(s)
  <2>1. PICK e : Calling(s, "update_incident_normalized_evidence", [req[s] EXCEPT !.draft = e])
    BY <1>14 DEF ReadForFeedback, DraftOutcome, DraftDelivery, DraftFailure
  <2>. QED BY <1>6, <2>1
<1>15. CASE BuildContext(s)
  <2>1. Calling(s, "append_incident_replay_evidence", req[s]) \/ Go(s, "draft")
    BY <1>15 DEF BuildContext
  <2>. QED BY <1>1, <1>4, <1>5, <1>8, <2>1
<1>16. CASE BuildRaises(s)
  <2>1. Finish(s) \/ \E b : Become(s, [req[s] EXCEPT !.pc = "draft_failure", !.failing = TRUE,
                                                     !.retryable = b])
    BY <1>16 DEF BuildRaises
  <2>2. \A b : Same(req[s], [req[s] EXCEPT !.pc = "draft_failure", !.failing = TRUE,
                                           !.retryable = b])
    BY <1>1 DEF Same, Requests
  <2>. QED BY <1>2, <1>3, <2>1, <2>2
<1>17. CASE Load(s)
  <2>1. AfterUpdate(s) \/ Become(s, [req[s] EXCEPT !.pc = "save", !.snap = row])
    BY <1>17 DEF Load
  <2>2. Same(req[s], [req[s] EXCEPT !.pc = "save", !.snap = row])
    BY <1>1 DEF Same, Requests
  <2>. QED BY <1>2, <1>9, <2>1, <2>2
<1>18. CASE Save(s) \/ Reread(s)
  BY <1>3, <1>9, <1>18 DEF Save, Reread
<1>19. CASE DatabaseRaises(s) \/ SaveThenRaises(s)
  BY <1>10, <1>19 DEF DatabaseRaises, SaveThenRaises
<1>. QED BY <1>11, <1>12, <1>13, <1>14, <1>15, <1>16, <1>17, <1>18, <1>19 DEF Handle

\* Only an update that commits changes the row, of a request that holds it.
LEMMA WhoWrites ==
  ASSUME SeqInv, NEW s \in Slots,
         Start(s) \/ Handle(s) \/ DatabaseRaises(s) \/ SaveThenRaises(s), row' # row
  PROVE  /\ req[s].pc = "save" /\ req[s].owner /\ req[s].snap = row
         /\ row' = Written(req[s]) /\ Pending(req[s], row)
         /\ Save(s) \/ SaveThenRaises(s)
<1>1. Save(s) \/ SaveThenRaises(s)
  BY DEF Start, Handle, DatabaseRaises, ReadForReview, ReadForExecute,
     ReadForRetry, ReadForFeedback, BuildContext, BuildRaises, DraftOutcome, DraftDelivery,
     DraftFailure, Load, Reread
<1>2. req[s].pc = "save" /\ row' = Written(req[s])
  BY <1>1 DEF Save, SaveThenRaises
<1>. QED BY <1>1, <1>2 DEF SeqInv, Current

\* The step of a send or a retry.
LEMMA HandoffStays ==
  ASSUME HandoffInv, NEW s \in Slots, req[s].op \in {"send", "retry"},
         Handle(s) \/ DatabaseRaises(s) \/ SaveThenRaises(s)
  PROVE  Informed(req'[s], row')
<1>. USE DEF At
<1>1. /\ IInv /\ req[s] \in Requests /\ req \in [Slots -> Requests]
      /\ Informed(req[s], row) /\ Current(req[s], row) /\ GoodRequest(req[s])
      /\ row \in Rows
  BY SlotIsGood DEF HandoffInv, SeqInv, IInv, GoodRow
<1>2. \A r : Become(s, r) => req'[s] = r
  BY <1>1 DEF Become
<1>3. Finish(s) => Informed(req'[s], row')
  BY <1>2, IdleIsInformed DEF Finish
<1>4. ASSUME NEW stage, Go(s, stage)
      PROVE  /\ req'[s].pc = stage /\ Same(req[s], req'[s])
  BY <1>1, <1>2, <1>4 DEF Go, Requests, Same
<1>5. CASE ReadForRetry(s)
  <2>1. CASE Finish(s)
    BY <1>3, <2>1
  <2>2. CASE /\ req[s].owner /\ Go(s, "build")
             /\ LastStatus(row.evidence.delivery, req[s].arg) \in {"delivered", "retrying"}
    <3>1. row' = row
      BY <1>5 DEF ReadForRetry
    <3>2. req'[s].pc = "build" /\ Same(req[s], req'[s])
      BY <1>4, <2>2
    <3>. QED BY ONLY <2>2, <3>1, <3>2 DEF Informed, Same
  <2>. QED BY <1>5, <2>1, <2>2 DEF ReadForRetry
<1>6. CASE BuildContext(s)
  <2>1. Go(s, "draft") /\ row' = row /\ req[s].pc = "build"
    BY <1>6 DEF BuildContext
  <2>. QED BY <1>1, <1>4, <2>1 DEF Informed, Same
<1>7. CASE BuildRaises(s)
  <2>1. PICK retryable : Become(s, [req[s] EXCEPT !.pc = "draft_failure", !.failing = TRUE,
                                                  !.retryable = retryable])
    BY <1>7 DEF BuildRaises
  <2>2. req'[s].pc = "draft_failure" /\ req'[s].failing /\ Same(req[s], req'[s])
    BY <1>1, <1>2, <2>1 DEF Requests, Same
  <2>3. row' = row /\ req[s].pc = "build"
    BY <1>7 DEF BuildRaises
  <2>. QED BY <1>1, <2>2, <2>3 DEF Informed, Same
<1>8. CASE DraftDelivery(s)
  <2>. DEFINE e == WithDelivery(EvidenceSeen(s),
                                DeliveredEntry(EvidenceSeen(s).delivery, req[s].arg, req[s].id))
  <2>1. /\ Calling(s, "update_incident_normalized_evidence", [req[s] EXCEPT !.draft = e])
        /\ row' = row /\ req[s].pc = "draft"
    BY <1>8 DEF DraftDelivery
  <2>2. req[s].owner => e = WithDelivery(row.evidence,
                              DeliveredEntry(row.evidence.delivery, req[s].arg, req[s].id))
    BY DEF EvidenceSeen
  <2>. HIDE DEF e
  <2>3. /\ req'[s].pc = "load" /\ req'[s].draft = e /\ Same(req[s], req'[s])
    BY <1>1, <1>2, <2>1 DEF Calling, Requests, Same
  <2>. QED BY <1>1, <2>1, <2>2, <2>3 DEF Informed, Same
<1>9. CASE DraftFailure(s)
  <2>1. PICK e : Calling(s, "update_incident_normalized_evidence", [req[s] EXCEPT !.draft = e])
    BY <1>9 DEF DraftFailure
  <2>2. row' = row /\ req[s].pc = "draft_failure"
    BY <1>9 DEF DraftFailure
  <2>3. /\ req'[s].pc = "load" /\ req'[s].failing = req[s].failing /\ Same(req[s], req'[s])
    BY <1>1, <1>2, <2>1 DEF Calling, Requests, Same
  <2>. QED BY <1>1, <2>2, <2>3 DEF Informed, Same
<1>10. CASE Load(s)
  <2>1. row' = row /\ req[s].pc = "load"
    BY <1>10 DEF Load
  <2>2. CASE req[s].owner
    <3>1. req'[s] = [req[s] EXCEPT !.pc = "save", !.snap = row]
      BY <1>2, <1>10, <2>2 DEF Load
    <3>2. /\ req'[s].pc = "save" /\ Same(req[s], req'[s]) /\ req'[s].draft = req[s].draft
          /\ req'[s].failing = req[s].failing
      BY <1>1, <3>1 DEF Requests, Same
    <3>. QED BY <1>1, <2>1, <3>2 DEF Informed, Same
  <2>3. CASE ~req[s].owner
    <3>1. Go(s, "reread") \/ Finish(s)
      BY <1>10, <2>3 DEF Load, AfterUpdate
    <3>2. req[s].op = "send"
      BY <1>1, <2>1, <2>3 DEF Informed
    <3>. QED BY <1>3, <1>4, <3>1, <3>2 DEF Informed, Same
  <2>. QED BY <2>2, <2>3
<1>11. CASE Save(s)
  <2>1. req[s].pc = "save" /\ AfterUpdate(s)
    BY <1>11 DEF Save
  <2>2. req[s].call = "update_incident_normalized_evidence"
    BY <1>1, <2>1 DEF Current, Pending
  <2>3. Finish(s)
    BY <2>1, <2>2 DEF AfterUpdate
  <2>. QED BY <1>3, <2>3
<1>12. CASE Raise(s) /\ Become(s, [req[s] EXCEPT !.pc = "draft_failure", !.failing = TRUE])
            /\ ~req[s].failing /\ req[s].pc \in {"draft", "load", "save"}
  <2>1. req'[s].pc = "draft_failure" /\ req'[s].failing /\ Same(req[s], req'[s])
    BY <1>1, <1>2, <1>12 DEF Requests, Same
  <2>2. CASE row' = row
    BY <1>1, <1>12, <2>1, <2>2 DEF Informed, Same
  <2>3. CASE row' # row
    <3>1. /\ req[s].pc = "save" /\ req[s].owner /\ req[s].snap = row
          /\ row' = Written(req[s]) /\ Pending(req[s], row)
      BY <2>3, WhoWrites DEF HandoffInv
    <3>. DEFINE entry == DeliveredEntry(row.evidence.delivery, req[s].arg, req[s].id)
                e == WithDelivery(row.evidence, entry)
    <3>2. row' = [row EXCEPT !.evidence = req[s].draft]
      BY <3>1 DEF Pending, Written
    <3>3. req[s].draft = e
      BY <1>1, <1>12, <3>1 DEF Informed
    <3>4. row.evidence \in Evidence /\ row.evidence.delivery \in Seq(DeliveryEntries)
      BY <1>1 DEF Rows, Evidence
    <3>5. e.delivery = Append(row.evidence.delivery, entry)
      BY <3>4 DEF WithDelivery, Evidence
    <3>6. req[s].arg \in Targets /\ req[s].id \in Nat
      BY <1>1 DEF GoodRequest, Requests
    <3>7. entry \in DeliveryEntries /\ entry.target = req[s].arg /\ entry.status = "delivered"
      BY <3>4, <3>6, DeliveredEntryFits DEF DeliveredEntry
    <3>. HIDE DEF entry, e
    <3>8. row'.evidence.delivery = Append(row.evidence.delivery, entry)
      BY <1>1, <3>2, <3>3, <3>5 DEF Rows
    <3>9. LastStatus(row'.evidence.delivery, req[s].arg) = "delivered"
      BY <3>4, <3>7, <3>8, LastOfAppended
    <3>. QED BY <2>1, <3>1, <3>9 DEF Informed, Same
  <2>. QED BY <2>2, <2>3
<1>13. CASE DatabaseRaises(s) \/ SaveThenRaises(s)
  <2>1. Raise(s)
    BY <1>13 DEF DatabaseRaises, SaveThenRaises
  <2>. QED BY <1>3, <1>12, <2>1 DEF Raise
<1>14. CASE Reread(s)
  BY <1>3, <1>14 DEF Reread
<1>. QED BY <1>5, <1>6, <1>7, <1>8, <1>9, <1>10, <1>11, <1>13, <1>14
         DEF Handle, ReadForReview, ReadForExecute, ReadForFeedback, DraftOutcome

LEMMA HandoffStep == Sequential /\ HandoffInv /\ [Next]_vars => HandoffInv'
<1>. SUFFICES ASSUME Sequential, HandoffInv, [Next]_vars PROVE HandoffInv'
  OBVIOUS
<1>1. SeqInv /\ SeqInv' /\ IInv
  BY SeqStep DEF HandoffInv, SeqInv
<1>2. CASE UNCHANGED vars
  BY <1>1, <1>2 DEF vars, HandoffInv
<1>3. CASE Restart
  <2>1. \A s \in Slots : req'[s] = Idle
    BY <1>3 DEF Restart
  <2>. QED BY <1>1, <2>1, IdleIsInformed DEF HandoffInv
<1>4. ASSUME NEW s \in Slots, Start(s) \/ Handle(s) \/ DatabaseRaises(s) \/ SaveThenRaises(s)
      PROVE  HandoffInv'
  <2>1. \A t \in Slots : t = s
    BY DEF Sequential
  <2>2. CASE Start(s)
    <3>1. PICK operation \in Operations, tenant \in Tenants :
            \E arg \in ArgumentsOf(operation) :
               Become(s, [Idle EXCEPT !.pc = FirstStage(operation), !.op = operation,
                                      !.arg = arg, !.id = issued + 1,
                                      !.owner = (tenant = Owner)])
      BY <2>2 DEF Start
    <3>2. req'[s].op = operation /\ req'[s].pc = FirstStage(operation)
      BY <1>1, <3>1 DEF Become, Idle, IInv
    <3>3. Informed(req'[s], row')
      BY <3>2 DEF Informed, FirstStage
    <3>. QED BY <1>1, <2>1, <3>3 DEF HandoffInv
  <2>3. CASE ~Start(s) /\ req[s].op \in {"send", "retry"}
    BY <1>1, <1>4, <2>1, <2>3, HandoffStays DEF HandoffInv
  <2>4. CASE ~Start(s) /\ req[s].op \notin {"send", "retry"}
    <3>1. req'[s] = Idle \/ Same(req[s], req'[s])
      BY <1>1, <1>4, <2>4, RequestIsKept
    <3>2. Informed(req'[s], row')
      BY <2>4, <3>1, IdleIsInformed DEF Informed, Same
    <3>. QED BY <1>1, <2>1, <3>2 DEF HandoffInv
  <2>. QED BY <2>2, <2>3, <2>4
<1>. QED BY <1>2, <1>3, <1>4 DEF Next

\* One request at a time, no retry adds an attempt after a terminal failure.
THEOREM SequentialNoRetryAfterTerminal == Sequential => (Spec => NoRetryAfterTerminal)
<1>. SUFFICES ASSUME Sequential PROVE Spec => NoRetryAfterTerminal
  OBVIOUS
<1>1. Init => HandoffInv
  BY SeqInit, IdleIsInformed DEF HandoffInv, Init
<1>2. HandoffInv /\ [Next]_vars =>
        [\A s \in Slots :
            (req[s].op = "retry" /\ row'.evidence.delivery # row.evidence.delivery) =>
                LastStatus(row.evidence.delivery, req[s].arg) # "terminal_failure"]_vars
  <2>. SUFFICES ASSUME HandoffInv, [Next]_vars, NEW s \in Slots, req[s].op = "retry",
                       row'.evidence.delivery # row.evidence.delivery
                PROVE  LastStatus(row.evidence.delivery, req[s].arg) # "terminal_failure"
    OBVIOUS
  <2>1. row' # row
    OBVIOUS
  <2>2. \A t \in Slots : t = s
    BY DEF Sequential
  <2>3. Start(s) \/ Handle(s) \/ DatabaseRaises(s) \/ SaveThenRaises(s)
    BY <2>1, <2>2 DEF Next, Restart, vars
  <2>4. req[s].pc = "save"
    BY <2>1, <2>3, WhoWrites DEF HandoffInv
  <2>. QED BY <2>4 DEF HandoffInv, Informed
<1>3. HandoffInv /\ [Next]_vars => HandoffInv'
  BY HandoffStep
<1>. QED BY <1>1, <1>2, <1>3, PTL DEF Spec, NoRetryAfterTerminal

\* The evidence holds what request id was to store.
Holds(e, id) ==
    \/ \E i \in DOMAIN e.delivery : e.delivery[i].by = id
    \/ \E i \in DOMAIN e.feedback : e.feedback[i].by = id

\* Deliveries and feedback are added, never dropped.
LEMMA DeliveryAdds ==
  ASSUME NEW e \in Evidence, NEW entry, NEW id, Holds(e, id) \/ id = entry.by
  PROVE  Holds(WithDelivery(e, entry), id)
<1>. DEFINE f == WithDelivery(e, entry)
<1>1. /\ e.delivery \in Seq(DeliveryEntries)
      /\ f.delivery = Append(e.delivery, entry) /\ f.feedback = e.feedback
  BY DEF WithDelivery, Evidence
<1>2. /\ DOMAIN f.delivery = 1 .. Len(e.delivery) + 1
      /\ DOMAIN e.delivery = 1 .. Len(e.delivery) /\ Len(e.delivery) \in Nat
      /\ f.delivery[Len(e.delivery) + 1] = entry
      /\ \A i \in 1 .. Len(e.delivery) : f.delivery[i] = e.delivery[i]
  BY <1>1
<1>. HIDE DEF f
<1>3. Holds(f, id)
  BY <1>1, <1>2 DEF Holds
<1>. QED BY <1>3 DEF f

LEMMA FeedbackAdds ==
  ASSUME NEW e \in Evidence, NEW state, NEW id, NEW new, Holds(e, id) \/ id = new
  PROVE  Holds(WithFeedback(e, state, new), id)
<1>. DEFINE f == WithFeedback(e, state, new)
<1>1. /\ e.delivery \in Seq(DeliveryEntries) /\ e.feedback \in Seq(FeedbackEntries)
      /\ f.delivery = Annotated(e.delivery, state)
      /\ f.feedback = Append(e.feedback, FeedbackEntry(state, new))
  BY DEF WithFeedback, Evidence
<1>2. /\ DOMAIN f.delivery = DOMAIN e.delivery
      /\ \A i \in DOMAIN e.delivery : f.delivery[i].by = e.delivery[i].by
  <2>1. f.delivery = [i \in DOMAIN e.delivery |->
                         IF i = Len(e.delivery)
                         THEN [e.delivery[i] EXCEPT !.feedback = DeliveryState(state),
                                                    !.guidance = FeedbackGuidance(state)]
                         ELSE e.delivery[i]]
    BY <1>1 DEF Annotated
  <2>2. \A i \in DOMAIN e.delivery : e.delivery[i] \in DeliveryEntries
    BY <1>1
  <2>. HIDE DEF f
  <2>4. DOMAIN f.delivery = DOMAIN e.delivery
    BY ONLY <2>1
  <2>5. ASSUME NEW i \in DOMAIN e.delivery
        PROVE  f.delivery[i].by = e.delivery[i].by
    <3>1. \/ f.delivery[i] = e.delivery[i]
          \/ f.delivery[i] = [e.delivery[i] EXCEPT !.feedback = DeliveryState(state),
                                                   !.guidance = FeedbackGuidance(state)]
      BY ONLY <2>1, <2>5
    <3>2. [e.delivery[i] EXCEPT !.feedback = DeliveryState(state),
                                !.guidance = FeedbackGuidance(state)].by = e.delivery[i].by
      BY <2>2 DEF DeliveryEntries
    <3>. QED BY ONLY <3>1, <3>2
  <2>. QED BY <2>4, <2>5
<1>3. /\ DOMAIN f.feedback = 1 .. Len(e.feedback) + 1
      /\ DOMAIN e.feedback = 1 .. Len(e.feedback) /\ Len(e.feedback) \in Nat
      /\ f.feedback[Len(e.feedback) + 1] = FeedbackEntry(state, new)
      /\ \A i \in 1 .. Len(e.feedback) : f.feedback[i] = e.feedback[i]
  BY <1>1
<1>4. FeedbackEntry(state, new).by = new
  BY DEF FeedbackEntry
<1>. HIDE DEF f
<1>5. Holds(f, id)
  BY <1>2, <1>3, <1>4 DEF Holds
<1>. QED BY <1>5 DEF f

LEMMA StoreKeeps ==
  ASSUME row \in Rows, Store!Next, NEW id, Holds(row.evidence, id)
  PROVE  Holds(row'.evidence, id)
<1>. USE SameOperators
<1>1. row.evidence \in Evidence
  BY DEF Rows
<1>2. ASSUME NEW e, row' = [row EXCEPT !.evidence = e], Holds(e, id)
      PROVE  Holds(row'.evidence, id)
  BY <1>2 DEF Rows
<1>3. ASSUME NEW decision, Store!Review(decision)
      PROVE  row'.evidence = row.evidence
  BY <1>3 DEF Store!Review, Rows
<1>4. CASE Store!RecordOutcome
  <2>1. row' = [row EXCEPT !.evidence = WithOutcome(row.evidence, row.decision)]
    BY <1>4 DEF Store!RecordOutcome, Rows
  <2>2. Holds(WithOutcome(row.evidence, row.decision), id)
    BY <1>1 DEF Holds, WithOutcome, Evidence
  <2>. QED BY <1>2, <2>1, <2>2
<1>5. CASE Store!Resolve
  BY <1>5 DEF Store!Resolve, Rows
<1>6. ASSUME NEW n, Store!Replay(n)
      PROVE  Holds(row'.evidence, id)
  <2>1. row' = [row EXCEPT !.evidence = WithReplay(row.evidence, n)]
    BY <1>6 DEF Store!Replay, Rows
  <2>2. Holds(WithReplay(row.evidence, n), id)
    BY <1>1 DEF Holds, WithReplay, Evidence
  <2>. QED BY <1>2, <2>1, <2>2
<1>7. ASSUME NEW t, NEW n, Store!Deliver(t, n) \/ (\E b \in BOOLEAN : Store!DeliveryFails(t, b, n))
      PROVE  Holds(row'.evidence, id)
  <2>1. PICK entry : row' = [row EXCEPT !.evidence = WithDelivery(row.evidence, entry)]
    BY <1>7 DEF Store!Deliver, Store!DeliveryFails
  <2>. QED BY <1>1, <1>2, <2>1, DeliveryAdds
<1>8. ASSUME NEW state, NEW n, Store!Feedback(state, n)
      PROVE  Holds(row'.evidence, id)
  <2>1. row' = [row EXCEPT !.evidence = WithFeedback(row.evidence, state, n)]
    BY <1>8 DEF Store!Feedback, Rows
  <2>. QED BY <1>1, <1>2, <2>1, FeedbackAdds
<1>. QED BY <1>3, <1>4, <1>5, <1>6, <1>7, <1>8 DEF Store!Next

\* Every caller is of the tenant that the incident belongs to.  Of any other,
\* feedback is acknowledged and stored nowhere.
OwnTenant == Tenants \subseteq {Owner}

Owned == \A s \in Slots : req[s].pc # "idle" => req[s].owner

LEMMA OwnedStep == OwnTenant /\ SeqInv /\ Owned /\ [Next]_vars => Owned'
<1>. SUFFICES ASSUME OwnTenant, SeqInv, Owned, [Next]_vars, NEW t \in Slots, req'[t].pc # "idle"
              PROVE  req'[t].owner
  BY DEF Owned
<1>1. IInv /\ req \in [Slots -> Requests]
  BY DEF SeqInv, IInv
<1>2. CASE req'[t] = req[t]
  BY <1>2 DEF Owned
<1>3. CASE Restart
  BY <1>3 DEF Restart, Idle
<1>4. ASSUME NEW s \in Slots, Start(s)
      PROVE  req'[t].owner
  <2>1. PICK operation \in Operations, tenant \in Tenants :
          \E arg \in ArgumentsOf(operation) :
             Become(s, [Idle EXCEPT !.pc = FirstStage(operation), !.op = operation,
                                    !.arg = arg, !.id = issued + 1,
                                    !.owner = (tenant = Owner)])
    BY <1>4 DEF Start
  <2>2. tenant = Owner
    BY DEF OwnTenant
  <2>3. req'[s].owner /\ \A u \in Slots : u # s => req'[u] = req[u]
    BY <1>1, <2>1, <2>2 DEF Become, Idle
  <2>. QED BY <1>2, <2>3
<1>5. ASSUME NEW s \in Slots, Handle(s) \/ DatabaseRaises(s) \/ SaveThenRaises(s)
      PROVE  req'[t].owner
  <2>1. req[s].pc # "idle"
    BY <1>5 DEF Handle, At, DatabaseRaises, SaveThenRaises, ReadForReview, ReadForExecute,
       ReadForRetry, ReadForFeedback, BuildContext, BuildRaises, DraftOutcome, DraftDelivery,
       DraftFailure, Load, Save, Reread
  <2>2. PICK r : Become(s, r)
    BY <1>5 DEF Handle, DatabaseRaises, SaveThenRaises, ReadForReview, ReadForExecute,
       ReadForRetry, ReadForFeedback, BuildContext, BuildRaises, DraftOutcome, DraftDelivery,
       DraftFailure, Load, Save, Reread, AfterUpdate, Raise, Finish, Go, Calling
  <2>3. \A u \in Slots : u # s => req'[u] = req[u]
    BY <1>1, <2>2 DEF Become
  <2>4. req'[s] = Idle \/ Same(req[s], req'[s])
    BY <1>1, <1>5, RequestIsKept
  <2>5. req'[s].pc # "idle" => req'[s].owner
    BY <2>1, <2>4 DEF Owned, Same, Idle
  <2>. QED BY <1>2, <2>3, <2>5
<1>. QED BY <1>2, <1>3, <1>4, <1>5 DEF Next, vars

\* A request is acknowledged by the step that stores what it was to store.
LEMMA AcknowledgedHolds ==
  ASSUME SeqInv, Owned, NEW s \in Slots, Save(s), acked' # acked
  PROVE  acked' = acked \cup {req[s].id} /\ Holds(row'.evidence, req[s].id)
<1>1. /\ GoodRequest(req[s]) /\ req[s] \in Requests /\ Current(req[s], row) /\ row \in Rows
      /\ req[s].pc = "save" /\ row' = Written(req[s]) /\ AfterUpdate(s)
  BY SlotIsGood DEF SeqInv, IInv, GoodRow, Save
<1>2. /\ req[s].op \in {"send", "retry", "feedback"}
      /\ acked' = acked \cup {req[s].id}
  BY <1>1 DEF AfterUpdate, Acknowledges
<1>3. /\ Pending(req[s], row) /\ req[s].snap = row
  BY <1>1 DEF Current
<1>4. row.evidence \in Evidence
  BY <1>1 DEF Rows
<1>5. Holds(req[s].draft, req[s].id)
  <2>1. CASE req[s].op = "feedback" /\ req[s].draft = WithFeedback(row.evidence, req[s].arg, req[s].id)
    BY <1>4, <2>1, FeedbackAdds
  <2>2. ASSUME NEW entry, entry.by = req[s].id, req[s].draft = WithDelivery(row.evidence, entry)
        PROVE  Holds(req[s].draft, req[s].id)
    BY <1>4, <2>2, DeliveryAdds
  <2>3. \A d, t, id : DeliveredEntry(d, t, id).by = id
    BY DEF DeliveredEntry
  <2>4. \A d, t, b, id : FailedEntry(d, t, b, id).by = id
    BY DEF FailedEntry
  <2>. QED BY <1>2, <1>3, <2>1, <2>2, <2>3, <2>4 DEF Pending
<1>6. row' = [row EXCEPT !.evidence = req[s].draft]
  BY <1>1, <1>2, <1>3 DEF Pending, Written
<1>7. row'.evidence = req[s].draft
  BY <1>1, <1>6 DEF Rows
<1>. QED BY <1>2, <1>5, <1>7

\* One request at a time and for the incident's own tenant, whatever was
\* answered with success is in the evidence and stays there.
THEOREM SequentialAcknowledgedIsStored ==
  Sequential /\ OwnTenant => (Spec => []AcknowledgedIsStored)
<1>. SUFFICES ASSUME Sequential, OwnTenant PROVE Spec => []AcknowledgedIsStored
  OBVIOUS
<1>. DEFINE Inv == SeqInv /\ Owned /\ AcknowledgedIsStored
<1>1. Init => Inv
  BY SeqInit DEF Init, Owned, Idle, AcknowledgedIsStored
<1>2. Inv /\ [Next]_vars => Inv'
  <2>. SUFFICES ASSUME SeqInv, Owned, AcknowledgedIsStored, [Next]_vars
                PROVE  SeqInv' /\ Owned' /\ AcknowledgedIsStored'
    OBVIOUS
  <2>1. SeqInv' /\ Owned'
    BY SeqStep, OwnedStep
  <2>2. \A id \in acked : Holds(row'.evidence, id)
    <3>1. row \in Rows /\ (Store!Next \/ row' = row)
      BY SeqRowStep
    <3>2. \A id \in acked : Holds(row.evidence, id)
      BY DEF AcknowledgedIsStored, Holds
    <3>. QED BY <3>1, <3>2, StoreKeeps
  <2>3. CASE acked' = acked
    BY <2>1, <2>2, <2>3 DEF AcknowledgedIsStored, Holds
  <2>4. CASE acked' # acked
    <3>1. PICK s \in Slots : Save(s) \/ (Load(s) /\ ~req[s].owner)
      BY <2>4 DEF Next, Start, Restart, Handle, DatabaseRaises, SaveThenRaises, ReadForReview,
         ReadForExecute, ReadForRetry, ReadForFeedback, BuildContext, BuildRaises, DraftOutcome,
         DraftDelivery, DraftFailure, Load, Reread, vars
    <3>2. Save(s)
      BY <3>1 DEF Load, Owned
    <3>3. acked' = acked \cup {req[s].id} /\ Holds(row'.evidence, req[s].id)
      BY <2>4, <3>2, AcknowledgedHolds
    <3>. QED BY <2>1, <2>2, <3>3 DEF AcknowledgedIsStored, Holds
  <2>. QED BY <2>1, <2>3, <2>4
<1>3. Inv => AcknowledgedIsStored
  OBVIOUS
<1>. HIDE DEF Inv
<1>. QED BY <1>1, <1>2, <1>3, PTL DEF Spec
=============================================================================
