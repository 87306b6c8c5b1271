---------------------------- MODULE EvidenceProofs ----------------------------
(***************************************************************************)
(* What the page of an incident may say, for every set of incidents, any   *)
(* number of replays and changes of the hosts.                             *)
(*                                                                         *)
(* The invariant is about the packets in the row, each by itself: where it *)
(* was run, and that its best outcome is one that was measured, from a     *)
(* baseline that failed, unless it claims nothing.  A page is built from   *)
(* the newest packet in one step, so what it says follows from that one.   *)
(*                                                                         *)
(* The lemmas on the order of rows and on the checks of a branch are also  *)
(* proved in EpisodeProofs, of the same definitions of ReplicaSummary.     *)
(***************************************************************************)
EXTENDS Evidence, TLAPS, FiniteSetTheorems

-----------------------------------------------------------------------------
(* The order of rows *)

\* A relation that compares any two of at most three and is transitive has an
\* order, so that the choice Sorted makes is one.
LEMMA OrderExists ==
  ASSUME NEW n \in 0 .. 3, NEW B \in SUBSET ((1 .. n) \X (1 .. n)),
         \A i, j \in 1 .. n : i # j => <<i, j>> \in B \/ <<j, i>> \in B,
         \A i, j, k \in 1 .. n : <<i, j>> \in B /\ <<j, k>> \in B => <<i, k>> \in B
  PROVE  Order(n, B) \in [1 .. n -> 1 .. n]
<1>. DEFINE Puts(p) == \A i, j \in 1 .. n : i < j => <<p[i], p[j]>> \in B
<1>1. \E p \in [1 .. n -> 1 .. n] : Puts(p)
  <2>1. CASE n < 2
    <3>1. \A i, j \in 1 .. n : ~(i < j)
      BY <2>1
    <3>2. [i \in 1 .. n |-> i] \in [1 .. n -> 1 .. n]
      OBVIOUS
    <3>. QED BY <3>1, <3>2
  <2>2. CASE n = 2
    <3>1. CASE <<1, 2>> \in B
      BY <2>2, <3>1, Puts([i \in 1 .. n |-> i])
    <3>2. CASE <<2, 1>> \in B
      BY <2>2, <3>2, Puts([i \in 1 .. n |-> 3 - i])
    <3>. QED BY <2>2, <3>1, <3>2
  <2>3. CASE n = 3
    <3>. DEFINE p(a, b, c) == [i \in 1 .. n |-> IF i = 1 THEN a ELSE IF i = 2 THEN b ELSE c]
    <3>1. ASSUME NEW a \in 1 .. n, NEW b \in 1 .. n, NEW c \in 1 .. n, <<a, b>> \in B, <<b, c>> \in B
          PROVE  \E q \in [1 .. n -> 1 .. n] : Puts(q)
      <4>1. p(a, b, c) \in [1 .. n -> 1 .. n]
        OBVIOUS
      <4>2. Puts(p(a, b, c))
        BY <2>3, <3>1
      <4>. QED BY <4>1, <4>2
    <3>2. \E a, b, c \in 1 .. n : <<a, b>> \in B /\ <<b, c>> \in B
      <4>1. 1 \in 1 .. n /\ 2 \in 1 .. n /\ 3 \in 1 .. n
        BY <2>3
      <4>2. /\ <<1, 2>> \in B \/ <<2, 1>> \in B
            /\ <<2, 3>> \in B \/ <<3, 2>> \in B
            /\ <<1, 3>> \in B \/ <<3, 1>> \in B
        BY <4>1
      <4>. QED BY ONLY <4>1, <4>2, Zenon
    <3>. HIDE DEF Puts
    <3>. QED BY <3>1, <3>2
  <2>. QED BY <2>1, <2>2, <2>3
<1>. QED BY <1>1 DEF Order

\* Rows that are ordered by two numbers, and then by their place, have an order.
LEMMA OrderByNumbers ==
  ASSUME NEW n \in 0 .. 3, NEW a \in [1 .. n -> Int], NEW b \in [1 .. n -> Int],
         NEW B \in SUBSET ((1 .. n) \X (1 .. n)),
         \A i, j \in 1 .. n : <<i, j>> \in B <=> \/ a[i] > a[j]
                                                 \/ a[i] = a[j] /\ b[i] > b[j]
                                                 \/ a[i] = a[j] /\ b[i] = b[j] /\ i < j
  PROVE  Order(n, B) \in [1 .. n -> 1 .. n]
<1>1. ASSUME NEW i \in 1 .. n, NEW j \in 1 .. n, i # j
      PROVE  <<i, j>> \in B \/ <<j, i>> \in B
  <2>1. a[i] \in Int /\ a[j] \in Int /\ b[i] \in Int /\ b[j] \in Int /\ i \in Int /\ j \in Int
    OBVIOUS
  <2>2. \/ a[i] > a[j] \/ a[j] > a[i]
        \/ a[i] = a[j] /\ (b[i] > b[j] \/ b[j] > b[i])
        \/ a[i] = a[j] /\ b[i] = b[j] /\ (i < j \/ j < i)
    BY ONLY <1>1, <2>1
  <2>3. \/ (a[i] > a[j]) \/ (a[i] = a[j] /\ b[i] > b[j]) \/ (a[i] = a[j] /\ b[i] = b[j] /\ i < j)
        \/ (a[j] > a[i]) \/ (a[j] = a[i] /\ b[j] > b[i]) \/ (a[j] = a[i] /\ b[j] = b[i] /\ j < i)
    BY ONLY <2>2
  <2>. QED BY <2>3
<1>2. ASSUME NEW i \in 1 .. n, NEW j \in 1 .. n, NEW k \in 1 .. n, <<i, j>> \in B, <<j, k>> \in B
      PROVE  <<i, k>> \in B
  <2>1. /\ a[i] \in Int /\ a[j] \in Int /\ a[k] \in Int /\ b[i] \in Int /\ b[j] \in Int /\ b[k] \in Int
        /\ i \in Int /\ j \in Int /\ k \in Int
    OBVIOUS
  <2>2. /\ (a[i] > a[j]) \/ (a[i] = a[j] /\ b[i] > b[j]) \/ (a[i] = a[j] /\ b[i] = b[j] /\ i < j)
        /\ (a[j] > a[k]) \/ (a[j] = a[k] /\ b[j] > b[k]) \/ (a[j] = a[k] /\ b[j] = b[k] /\ j < k)
    BY <1>2
  <2>3. (a[i] > a[k]) \/ (a[i] = a[k] /\ b[i] > b[k]) \/ (a[i] = a[k] /\ b[i] = b[k] /\ i < k)
    BY ONLY <2>1, <2>2
  <2>. QED BY <2>3
<1>. QED BY <1>1, <1>2, OrderExists

\* Arranged in some order, a list makes up no row.
LEMMA Rearranged ==
  ASSUME NEW S, NEW n \in 0 .. 3, NEW rows \in Seq(S), n = Len(rows), NEW f \in [1 .. n -> 1 .. n],
         NEW sorted, DOMAIN sorted = 1 .. n, sorted = [k \in DOMAIN sorted |-> sorted[k]],
         \A k \in 1 .. n : sorted[k] = rows[f[k]]
  PROVE  /\ sorted \in Seq(S) /\ Len(sorted) = n
         /\ \A k \in 1 .. n : \E i \in 1 .. n : sorted[k] = rows[i]
<1>1. rows \in [1 .. n -> S]
  OBVIOUS
<1>2. sorted \in Seq(S) /\ Len(sorted) = n
  <2>1. sorted \in [1 .. n -> S]
    BY <1>1
  <2>2. \A m \in Nat : \A g \in [1 .. m -> S] : g \in Seq(S) /\ Len(g) = m
    OBVIOUS
  <2>3. n \in Nat
    OBVIOUS
  <2>. QED BY ONLY <2>1, <2>2, <2>3
<1>3. \A k \in 1 .. n : f[k] \in 1 .. n /\ sorted[k] = rows[f[k]]
  OBVIOUS
<1>4. \A k \in 1 .. n : \E i \in 1 .. n : sorted[k] = rows[i]
  BY <1>3, Zenon
<1>. QED BY <1>2, <1>4

\* A list of at most three rows, by its length.
LEMMA AtMostThree ==
  ASSUME NEW S, NEW rows \in Seq(S), Len(rows) <= 3
  PROVE  Len(rows) \in 0 .. 3
<1>1. Len(rows) \in Nat /\ Len(rows) <= 3
  OBVIOUS
<1>2. \A m \in Nat : m <= 3 => m \in 0 .. 3
  OBVIOUS
<1>. QED BY <1>1, <1>2

-----------------------------------------------------------------------------
(* The rows of a summary *)

Signals == [status: Nat, time: Nat]
Outcomes == {"inferred_only", "validated", "resolved", "improved", "unresolved"}

\* Sorting loses and adds no check.
LEMMA SortedChecks ==
  ASSUME NEW candidates, NEW S, NEW checks \in Seq(S), Len(checks) <= 3
  PROVE  build_mitigation_checks(candidates, checks) \in Seq(S)
<1>. DEFINE n == Len(checks)
            Named(c) == candidates = {} \/ c.action \in candidates
            a == [i \in 1 .. n |-> IF Named(checks[i]) THEN 1 ELSE 0]
            b == [i \in 1 .. n |-> 0]
            B == {q \in (1 .. n) \X (1 .. n) :
                    \/ Named(checks[q[1]]) /\ ~Named(checks[q[2]])
                    \/ ~(Named(checks[q[2]]) /\ ~Named(checks[q[1]])) /\ q[1] < q[2]}
            sorted == [k \in 1 .. n |-> checks[Order(n, B)[k]]]
<1>1. build_mitigation_checks(candidates, checks) = sorted
  BY DEF build_mitigation_checks, Sorted
<1>2. \A i, j \in 1 .. n : <<i, j>> \in B <=> \/ Named(checks[i]) /\ ~Named(checks[j])
                                              \/ ~(Named(checks[j]) /\ ~Named(checks[i])) /\ i < j
  OBVIOUS
<1>3. B \in SUBSET ((1 .. n) \X (1 .. n))
  OBVIOUS
<1>4. a \in [1 .. n -> Int] /\ b \in [1 .. n -> Int]
  OBVIOUS
<1>. HIDE DEF Named, B
<1>5. \A i, j \in 1 .. n : <<i, j>> \in B <=> \/ a[i] > a[j]
                                              \/ a[i] = a[j] /\ b[i] > b[j]
                                              \/ a[i] = a[j] /\ b[i] = b[j] /\ i < j
  <2>. SUFFICES ASSUME NEW i \in 1 .. n, NEW j \in 1 .. n
                PROVE  <<i, j>> \in B <=> \/ a[i] > a[j]
                                          \/ a[i] = a[j] /\ b[i] > b[j]
                                          \/ a[i] = a[j] /\ b[i] = b[j] /\ i < j
    OBVIOUS
  <2>1. /\ a[i] = IF Named(checks[i]) THEN 1 ELSE 0
        /\ a[j] = IF Named(checks[j]) THEN 1 ELSE 0
        /\ b[i] = 0 /\ b[j] = 0
    OBVIOUS
  <2>. HIDE DEF a, b
  <2>. QED BY <1>2, <2>1
<1>6. /\ DOMAIN sorted = 1 .. n /\ sorted = [k \in DOMAIN sorted |-> sorted[k]]
      /\ \A k \in 1 .. n : sorted[k] = checks[Order(n, B)[k]]
  OBVIOUS
<1>7. n \in 0 .. 3 /\ n = Len(checks)
  BY AtMostThree
<1>. HIDE DEF n, a, b, sorted
<1>8. Order(n, B) \in [1 .. n -> 1 .. n]
  BY <1>3, <1>4, <1>5, <1>7, OrderByNumbers
<1>9. sorted \in Seq(S)
  BY <1>6, <1>7, <1>8, Rearranged
<1>. QED BY <1>1, <1>9

\* Ranking makes up no row.
LEMMA RankedRows ==
  ASSUME NEW S, NEW rows \in Seq(S), Len(rows) <= 3,
         \A i \in 1 .. Len(rows) : rows[i].score \in Int /\ rows[i].delta \in Int
  PROVE  LET ranked == rank_runtime_mitigations(rows)
         IN /\ Len(ranked) = Len(rows)
            /\ \A k \in 1 .. Len(rows) : \E i \in 1 .. Len(rows) : ranked[k] = rows[i]
<1>. DEFINE n == Len(rows)
            a == [i \in 1 .. n |-> rows[i].score]
            b == [i \in 1 .. n |-> rows[i].delta]
            B == {q \in (1 .. n) \X (1 .. n) :
                    \/ RanksAbove(rows[q[1]], rows[q[2]])
                    \/ ~RanksAbove(rows[q[2]], rows[q[1]]) /\ q[1] < q[2]}
            ranked == [k \in 1 .. n |-> rows[Order(n, B)[k]]]
<1>1. rank_runtime_mitigations(rows) = ranked
  BY DEF rank_runtime_mitigations, Sorted
<1>2. \A i, j \in 1 .. n : <<i, j>> \in B <=> \/ RanksAbove(rows[i], rows[j])
                                              \/ ~RanksAbove(rows[j], rows[i]) /\ i < j
  OBVIOUS
<1>3. B \in SUBSET ((1 .. n) \X (1 .. n))
  OBVIOUS
<1>4. a \in [1 .. n -> Int] /\ b \in [1 .. n -> Int]
  OBVIOUS
<1>. HIDE DEF B
<1>5. \A i, j \in 1 .. n : <<i, j>> \in B <=> \/ a[i] > a[j]
                                              \/ a[i] = a[j] /\ b[i] > b[j]
                                              \/ a[i] = a[j] /\ b[i] = b[j] /\ i < j
  <2>. SUFFICES ASSUME NEW i \in 1 .. n, NEW j \in 1 .. n
                PROVE  <<i, j>> \in B <=> \/ a[i] > a[j]
                                          \/ a[i] = a[j] /\ b[i] > b[j]
                                          \/ a[i] = a[j] /\ b[i] = b[j] /\ i < j
    OBVIOUS
  <2>1. /\ RanksAbove(rows[i], rows[j]) <=> a[i] > a[j] \/ (a[i] = a[j] /\ b[i] > b[j])
        /\ RanksAbove(rows[j], rows[i]) <=> a[j] > a[i] \/ (a[j] = a[i] /\ b[j] > b[i])
    BY DEF RanksAbove
  <2>2. a[i] \in Int /\ a[j] \in Int /\ b[i] \in Int /\ b[j] \in Int
    BY <1>4
  <2>. HIDE DEF a, b
  <2>. QED BY <1>2, <2>1, <2>2
<1>6. /\ DOMAIN ranked = 1 .. n /\ ranked = [k \in DOMAIN ranked |-> ranked[k]]
      /\ \A k \in 1 .. n : ranked[k] = rows[Order(n, B)[k]]
  OBVIOUS
<1>7. n \in 0 .. 3 /\ n = Len(rows)
  BY AtMostThree
<1>. HIDE DEF n, a, b, ranked
<1>8. Order(n, B) \in [1 .. n -> 1 .. n]
  BY <1>3, <1>4, <1>5, <1>7, OrderByNumbers
<1>9. Len(ranked) = n /\ \A k \in 1 .. n : \E i \in 1 .. n : ranked[k] = rows[i]
  BY <1>6, <1>7, <1>8, Rearranged
<1>. QED BY <1>1, <1>7, <1>9

\* \div, which the provers know of positive divisors only.
LEMMA Quotient ==
  ASSUME NEW x \in Int, NEW y \in Nat, y > 0
  PROVE  x \div y \in Int
OBVIOUS

\* The score of an outcome, also when the time saved is negative.
LEMMA ScoreIsInteger ==
  ASSUME NEW o \in Outcomes, NEW b \in Signals, NEW m \in Signals
  PROVE  runtime_outcome_score(o, b, m) \in Int
<1>. DEFINE floor == CASE o = "resolved" -> 97 [] o = "improved" -> 89 [] o = "validated" -> 80
                       [] o = "unresolved" -> 62 [] o = "inferred_only" -> 0
            saved == (24 * (b.time - m.time) + b.time) \div (2 * b.time)
<1>1. floor \in Int
  BY DEF Outcomes
<1>2. b.time > 0 => saved \in Int
  <2>1. b.time \in Nat /\ m.time \in Nat
    BY DEF Signals
  <2>. SUFFICES ASSUME b.time > 0 PROVE saved \in Int OBVIOUS
  <2>2. 24 * (b.time - m.time) + b.time \in Int /\ 2 * b.time \in Nat /\ 2 * b.time > 0
    BY <2>1
  <2>. QED BY <2>2, Quotient
<1>. HIDE DEF floor, saved
<1>3. runtime_outcome_score(o, b, m) =
        LET gain == IF o \in {"resolved", "improved"} /\ b.time > 0 /\ m.time > 0
                    THEN (IF saved < 0 THEN 0 ELSE IF saved > 8 THEN 8 ELSE saved) ELSE 0
        IN IF floor + gain > 99 THEN 99 ELSE floor + gain
  BY DEF runtime_outcome_score, floor, saved
<1>. QED BY <1>1, <1>2, <1>3

\* There is a row for each rerun, with the outcome of that rerun.
LEMMA MeasuredRows ==
  ASSUME NEW base \in Signals, NEW reruns \in Seq(Signals), NEW S, NEW checks \in Seq(S),
         \A i \in 1 .. Len(checks) : checks[i].delta \in Int
  PROVE  LET rows == runtime_override_mitigations(base, reruns, checks)
         IN /\ \E R : rows \in Seq(R)
            /\ Len(rows) = Len(reruns)
            /\ \A i \in 1 .. Len(rows) : /\ rows[i].score \in Int /\ rows[i].delta \in Int
                                         /\ rows[i].outcome = runtime_outcome_class(base, reruns[i])
<1>. DEFINE Nth(i) == IF i <= Len(checks) THEN checks[i] ELSE Check("unnamed", 0)
            Outcome(i) == runtime_outcome_class(base, reruns[i])
            MeasuredRow(i) == [action |-> Nth(i).action, delta |-> Nth(i).delta, outcome |-> Outcome(i),
                       score |-> runtime_outcome_score(Outcome(i), base, reruns[i])]
            rows == [i \in 1 .. Len(reruns) |-> MeasuredRow(i)]
<1>1. runtime_override_mitigations(base, reruns, checks) = rows
  BY DEF runtime_override_mitigations
<1>2. ASSUME NEW i \in 1 .. Len(reruns)
      PROVE  MeasuredRow(i).score \in Int /\ MeasuredRow(i).delta \in Int /\ MeasuredRow(i).outcome = Outcome(i)
  <2>1. Nth(i).delta \in Int
    BY DEF Check
  <2>2. Outcome(i) \in Outcomes
    BY DEF runtime_outcome_class, Outcomes
  <2>3. reruns[i] \in Signals
    OBVIOUS
  <2>4. runtime_outcome_score(Outcome(i), base, reruns[i]) \in Int
    BY <2>2, <2>3, ScoreIsInteger
  <2>. QED BY <2>1, <2>4
<1>. HIDE DEF MeasuredRow
<1>3. rows \in Seq({MeasuredRow(i) : i \in 1 .. Len(reruns)}) /\ Len(rows) = Len(reruns)
  OBVIOUS
<1>. QED BY <1>1, <1>2, <1>3

\* A list of checks that can be ranked.
Few(checks) ==
  /\ \E S : checks \in Seq(S)
  /\ Len(checks) <= 3
  /\ \A i \in 1 .. Len(checks) : checks[i].delta \in Int

\* No branch lists more than three checks.
LEMMA FallbackChecksAreFew ==
  ASSUME NEW branch
  PROVE  Few(FallbackChecks(branch))
<1>1. ASSUME NEW a, NEW b, NEW c, a.delta \in Int, b.delta \in Int, c.delta \in Int
      PROVE  Few(<<a, b, c>>) /\ Few(<<a, b>>) /\ Few(<<a>>)
  <2>. DEFINE S == {a, b, c}
  <2>1. <<a, b, c>> \in Seq(S) /\ <<a, b>> \in Seq(S) /\ <<a>> \in Seq(S)
    OBVIOUS
  <2>2. \A d \in S : d.delta \in Int
    BY <1>1
  <2>. HIDE DEF S
  <2>. QED BY <2>1, <2>2 DEF Few
<1>2. \A a, d : Check(a, d).delta = d
  BY DEF Check
<1>3. 1 \in Int /\ 3 \in Int /\ 5 \in Int /\ 6 \in Int /\ 8 \in Int /\ 9 \in Int
  OBVIOUS
<1>4. CASE branch \in {"auth-redis", "kafka"}
  <2>1. PICK a, b, c : FallbackChecks(branch) = <<Check(a, 8), Check(b, 6), Check(c, 3)>>
    BY <1>4 DEF FallbackChecks
  <2>. QED BY ONLY <1>1, <1>2, <1>3, <2>1, Zenon
<1>5. CASE branch = "postgres"
  <2>1. PICK a, b, c : FallbackChecks(branch) = <<Check(a, 6), Check(b, 5), Check(c, 1)>>
    BY <1>5 DEF FallbackChecks
  <2>. QED BY ONLY <1>1, <1>2, <1>3, <2>1, Zenon
<1>6. CASE branch = "auth-validation"
  <2>1. PICK a, b, c : FallbackChecks(branch) = <<Check(a, 8), Check(b, 6), Check(c, 5)>>
    BY <1>6 DEF FallbackChecks
  <2>. QED BY ONLY <1>1, <1>2, <1>3, <2>1, Zenon
<1>7. CASE branch = "certificate expiry"
  <2>1. PICK a : FallbackChecks(branch) = <<Check(a, 9)>>
    BY <1>7 DEF FallbackChecks
  <2>. QED BY ONLY <1>1, <1>2, <1>3, <2>1, Zenon
<1>8. CASE branch = "memory leak"
  <2>1. PICK a, b : FallbackChecks(branch) = <<Check(a, 3), Check(b, 5)>>
    BY <1>8 DEF FallbackChecks
  <2>. QED BY ONLY <1>1, <1>2, <1>3, <2>1, Zenon
<1>9. Few(<<>>)
  BY <<>> \in Seq({}) DEF Few
<1>10. CASE branch \notin {"auth-redis", "kafka", "postgres", "auth-validation", "certificate expiry", "memory leak"}
  <2>1. FallbackChecks(branch) = <<>>
    BY <1>10 DEF FallbackChecks
  <2>. QED BY ONLY <1>9, <2>1
<1>. QED BY ONLY <1>4, <1>5, <1>6, <1>7, <1>8, <1>10

\* The two packs that are copies can never run.
LEMMA PacksThatRun ==
  ASSUME NEW pack \in Packs, ~AssetsMissing(pack)
  PROVE  pack \in {"auth-redis", "postgres", "catalog"}
<1>1. AssetsMissing("auth-validation")
  BY DEF AssetsMissing, MitigationHooks, HookScripts, ToSet
<1>2. AssetsMissing("kafka")
  BY DEF AssetsMissing, MitigationHooks, HookScripts, ToSet
<1>. QED BY <1>1, <1>2 DEF Packs

\* A result as a replay can leave it: no rerun of a baseline that failed is as
\* bad as the baseline, and none has an answer where the baseline has none.
Telling == {"resolved", "improved", "inferred_only"}

Sound(result) ==
  /\ result.given \in BOOLEAN /\ result.base \in Signals
  /\ result.reruns \in Seq(Signals) /\ Len(result.reruns) <= 3
  /\ \A i \in 1 .. Len(result.reruns) : runtime_outcome_class(result.base, result.reruns[i]) \in Telling
  /\ result.base.status = 0 \/ result.base.status >= 500

\* A result with the reruns of f is sound if each of them is.
LEMMA SoundResult ==
  ASSUME NEW base \in Signals, base.status = 0 \/ base.status >= 500,
         NEW n \in 0 .. 3, NEW f, DOMAIN f = 1 .. n, f = [i \in DOMAIN f |-> f[i]],
         \A i \in 1 .. n : f[i] \in Signals /\ runtime_outcome_class(base, f[i]) \in Telling
  PROVE  Sound(Result(base, f)) /\ Result(base, f).given
<1>1. f \in [1 .. n -> Signals] /\ n \in Nat
  OBVIOUS
<1>2. f \in Seq(Signals) /\ Len(f) = n
  BY ONLY <1>1
<1>. QED BY <1>2 DEF Sound, Result

\* Neither a run that nothing disturbs, nor a disturbed one, nor one that found
\* no tool has a rerun that is as bad as its baseline.
LEMMA RunsTell ==
  ASSUME NEW pack \in Packs, ~AssetsMissing(pack), NEW result \in RunResults(pack)
  PROVE  Sound(result) /\ result.given
<1>1. pack \in {"auth-redis", "postgres", "catalog"}
  BY PacksThatRun
<1>2. /\ NoSignal \in Signals /\ NoSignal.status = 0
      /\ Unreachable \in Signals /\ Unreachable.status = 599 /\ Unreachable.time = 1
  BY DEF NoSignal, Unreachable, Signals
<1>3. /\ runtime_outcome_class(NoSignal, NoSignal) \in Telling
      /\ runtime_outcome_class(Unreachable, NoSignal) \in Telling
  BY DEF runtime_outcome_class, NoSignal, Telling
<1>4. CASE result = Result(NoSignal, <<>>)
  <2>1. <<>> \in Seq(Signals) /\ Len(<<>>) = 0
    OBVIOUS
  <2>. QED BY <1>2, <1>4, <2>1 DEF Sound, Result
<1>5. CASE result = Measured(pack)
  <2>. DEFINE n == Len(MitigationHooks(pack))
              f == [i \in 1 .. n |-> ReplaySignal(pack, DirAfter(pack, i), TRUE)]
              base == ReplaySignal(pack, DirAfter(pack, 0), TRUE)
  <2>1. result = Result(base, f) /\ DOMAIN f = 1 .. n /\ f = [i \in DOMAIN f |-> f[i]]
    BY <1>5 DEF Measured
  <2>2. n \in {2, 3} /\ (pack # "catalog" => n = 3)
    BY <1>1 DEF MitigationHooks
  <2>3. base \in Signals /\ (base.status = 0 \/ base.status >= 500)
    BY <1>1, <1>2 DEF DirAfter, Defaults, ReplaySignal, GatewayAnswer, CheckoutAnswer, Signals
  <2>4. ASSUME NEW i \in 1 .. n
        PROVE  f[i] \in Signals /\ runtime_outcome_class(base, f[i]) \in Telling
    <3>1. f[i] = ReplaySignal(pack, DirAfter(pack, i), TRUE)
      OBVIOUS
    <3>. HIDE DEF f, n
    <3>2. i \in {1, 2, 3}
      BY <2>2
    <3>a. DirAfter(pack, 1) = ApplyHook(MitigationHooks(pack)[1], Defaults(pack))
      BY DEF DirAfter
    <3>b. DirAfter(pack, 2) = ApplyHook(MitigationHooks(pack)[2], DirAfter(pack, 1))
      BY DEF DirAfter
    <3>c. DirAfter(pack, 3) = ApplyHook(MitigationHooks(pack)[3], DirAfter(pack, 2))
      BY DEF DirAfter
    <3>3. CASE pack = "auth-redis"
      <4>1. base = [status |-> 504, time |-> 16]
        BY <3>3 DEF DirAfter, Defaults, ReplaySignal, GatewayAnswer
      <4>a. /\ MitigationHooks(pack)[1] = "cap_retries" /\ MitigationHooks(pack)[2] = "open_circuit_breaker"
            /\ MitigationHooks(pack)[3] = "disable_retry_middleware"
        BY <3>3 DEF MitigationHooks
      <4>2. DirAfter(pack, 1) = [retries |-> 1, middleware |-> TRUE, breaker |-> "closed"]
        BY <3>3, <3>a, <4>a DEF Defaults, ApplyHook
      <4>3. DirAfter(pack, 2) = [retries |-> 1, middleware |-> TRUE, breaker |-> "open"]
        BY <3>b, <4>a, <4>2 DEF ApplyHook
      <4>4. DirAfter(pack, 3) = [retries |-> 1, middleware |-> FALSE, breaker |-> "open"]
        BY <3>c, <4>a, <4>3 DEF ApplyHook
      <4>5. f[i] \in {[status |-> 504, time |-> 4], [status |-> 503, time |-> 1]}
        BY <3>1, <3>2, <3>3, <4>2, <4>3, <4>4 DEF ReplaySignal, GatewayAnswer
      <4>. HIDE DEF base
      <4>. QED BY <4>1, <4>5 DEF runtime_outcome_class, Telling, Signals
    <3>4. CASE pack = "postgres"
      <4>1. base = [status |-> 503, time |-> 11]
        BY <3>4 DEF DirAfter, Defaults, ReplaySignal, CheckoutAnswer
      <4>a. /\ MitigationHooks(pack)[1] = "terminate_orphaned_sessions"
            /\ MitigationHooks(pack)[2] = "rollback_retry_patch"
            /\ MitigationHooks(pack)[3] = "restart_checkout_service"
        BY <3>4 DEF MitigationHooks
      <4>2. DirAfter(pack, 1) = [leak |-> TRUE, exhausted |-> FALSE]
        BY <3>4, <3>a, <4>a DEF Defaults, ApplyHook
      <4>3. DirAfter(pack, 2) = [leak |-> FALSE, exhausted |-> FALSE]
        BY <3>b, <4>a, <4>2 DEF ApplyHook
      <4>4. DirAfter(pack, 3) = [leak |-> FALSE, exhausted |-> FALSE]
        BY <3>c, <4>a, <4>3 DEF ApplyHook
      <4>5. f[i] = [status |-> 200, time |-> 1]
        BY <3>1, <3>2, <3>4, <4>2, <4>3, <4>4 DEF ReplaySignal, CheckoutAnswer
      <4>. HIDE DEF base
      <4>. QED BY <4>1, <4>5 DEF runtime_outcome_class, Telling, Signals
    <3>5. CASE pack = "catalog"
      <4>1. base = NoSignal /\ f[i] = NoSignal
        BY <3>1, <3>5 DEF ReplaySignal
      <4>. QED BY <1>2, <1>3, <4>1
    <3>. QED BY <1>1, <3>3, <3>4, <3>5
  <2>5. n \in 0 .. 3
    BY <2>2
  <2>. HIDE DEF base, f, n
  <2>. QED BY <2>1, <2>3, <2>4, <2>5, SoundResult
<1>6. CASE result = Disturbed(pack)
  <2>. DEFINE n == Len(MitigationHooks(pack))
              f == [i \in 1 .. n |-> ReplaySignal(pack, Defaults(pack), TRUE)]
  <2>1. result = Result(Unreachable, f) /\ DOMAIN f = 1 .. n /\ f = [i \in DOMAIN f |-> f[i]]
    BY <1>6 DEF Disturbed
  <2>2. n \in 0 .. 3
    <3>1. n \in {2, 3}
      BY <1>1 DEF MitigationHooks
    <3>. QED BY <3>1
  <2>3. ReplaySignal(pack, Defaults(pack), TRUE)
          \in {NoSignal, [status |-> 504, time |-> 16], [status |-> 503, time |-> 11]}
    BY <1>1 DEF Defaults, ReplaySignal, GatewayAnswer, CheckoutAnswer
  <2>4. \A m \in {[status |-> 504, time |-> 16], [status |-> 503, time |-> 11]} :
           m \in Signals /\ runtime_outcome_class(Unreachable, m) \in Telling
    BY <1>2 DEF runtime_outcome_class, Telling, Signals
  <2>5. \A i \in 1 .. n : f[i] = ReplaySignal(pack, Defaults(pack), TRUE)
    OBVIOUS
  <2>. HIDE DEF f, n
  <2>a. PICK answer : answer = ReplaySignal(pack, Defaults(pack), TRUE)
    OBVIOUS
  <2>b. answer \in Signals /\ runtime_outcome_class(Unreachable, answer) \in Telling
    <3>1. answer = NoSignal \/ answer \in {[status |-> 504, time |-> 16], [status |-> 503, time |-> 11]}
      BY ONLY <2>3, <2>a
    <3>2. CASE answer = NoSignal
      BY <1>2, <1>3, <3>2
    <3>3. CASE answer \in {[status |-> 504, time |-> 16], [status |-> 503, time |-> 11]}
      BY ONLY <2>4, <3>3
    <3>. QED BY ONLY <3>1, <3>2, <3>3
  <2>6. \A i \in 1 .. n : f[i] \in Signals /\ runtime_outcome_class(Unreachable, f[i]) \in Telling
    BY ONLY <2>5, <2>a, <2>b
  <2>7. Unreachable \in Signals /\ Unreachable.status >= 500
    BY <1>2
  <2>. QED BY <2>1, <2>2, <2>6, <2>7, SoundResult
<1>. QED BY <1>4, <1>5, <1>6 DEF RunResults

\* No result at all is sound as well.
LEMMA NoResultIsSound == Sound(NoResult) /\ ~NoResult.given /\ NoResult.base = NoSignal
<1>1. NoSignal \in Signals /\ NoSignal.status = 0
  BY DEF NoSignal, Signals
<1>2. <<>> \in Seq(Signals) /\ Len(<<>>) = 0
  OBVIOUS
<1>. QED BY <1>1, <1>2 DEF Sound, NoResult

\* An outcome claims something, or nothing.
Claims(outcome) == outcome \in {"resolved", "improved"}
ClaimsNothing(outcome) == outcome \in {"", "inferred_only"}

\* The best outcome of a summary is one that was measured, from a baseline that
\* failed, unless it claims nothing.
LEMMA SummaryTells ==
  ASSUME NEW family, NEW pack, NEW candidates, NEW seen, NEW result, Sound(result),
         NEW delegated, NEW mode, NEW capability
  PROVE  LET s == build_replica_summary(family, pack, candidates, seen, result, delegated, mode, capability)
         IN /\ s.score \in Int
            /\ ClaimsNothing(s.outcome) \/ Claims(s.outcome)
            /\ Claims(s.outcome) => result.reruns # <<>> /\ result.base.status >= 500
<1>. DEFINE fallback == FallbackChecks(Branch(family, pack))
            checks == build_mitigation_checks(candidates, fallback)
            tested == TestedMitigations(result, checks)
            measured == runtime_override_mitigations(result.base, result.reruns, checks)
            s == build_replica_summary(family, pack, candidates, seen, result, delegated, mode, capability)
            Told(outcome, score) ==
              /\ score \in Int
              /\ ClaimsNothing(outcome) \/ Claims(outcome)
              /\ Claims(outcome) => result.reruns # <<>> /\ result.base.status >= 500
<1>1. /\ s.outcome = IF Len(tested) > 0 THEN tested[1].outcome ELSE ""
      /\ s.score = IF Len(tested) > 0 THEN tested[1].score ELSE 0
  BY DEF build_replica_summary
<1>2. /\ \E S : checks \in Seq(S)
      /\ \A i \in 1 .. Len(checks) : checks[i].delta \in Int
  <2>. HIDE DEF fallback
  <2>1. Few(fallback)
    BY FallbackChecksAreFew DEF fallback
  <2>2. PICK R : fallback \in Seq(R)
    BY <2>1 DEF Few
  <2>. DEFINE S == {c \in R : c.delta \in Int}
  <2>3. fallback \in Seq(S) /\ Len(fallback) <= 3
    BY <2>1, <2>2 DEF Few
  <2>. HIDE DEF S
  <2>4. checks \in Seq(S)
    BY <2>3, SortedChecks
  <2>. HIDE DEF checks
  <2>5. \A i \in 1 .. Len(checks) : checks[i] \in S
    BY <2>4
  <2>. QED BY <2>4, <2>5 DEF S
<1>. HIDE DEF checks, s
<1>3. ASSUME Len(tested) > 0 PROVE Told(tested[1].outcome, tested[1].score)
  <2>1. CASE result.given /\ result.reruns # <<>>
    <3>1. tested = rank_runtime_mitigations(measured)
      BY <2>1 DEF TestedMitigations
    <3>. result.base \in Signals /\ result.reruns \in Seq(Signals) /\ Len(result.reruns) <= 3
      BY DEF Sound
    <3>1a. PICK S : checks \in Seq(S)
      BY <1>2
    <3>2. /\ \E R : measured \in Seq(R)
          /\ Len(measured) = Len(result.reruns)
          /\ \A i \in 1 .. Len(measured) :
                /\ measured[i].score \in Int /\ measured[i].delta \in Int
                /\ measured[i].outcome = runtime_outcome_class(result.base, result.reruns[i])
      BY <1>2, <3>1a, MeasuredRows
    <3>. HIDE DEF measured, tested
    <3>3. /\ Len(tested) = Len(measured)
          /\ \A k \in 1 .. Len(measured) : \E i \in 1 .. Len(measured) : tested[k] = measured[i]
      BY <3>1, <3>2, RankedRows
    <3>4. Len(result.reruns) \in Nat /\ Len(result.reruns) > 0
      BY <1>3, <3>2, <3>3
    <3>5. PICK i \in 1 .. Len(measured) : tested[1] = measured[i]
      BY <3>2, <3>3, <3>4
    <3>6. /\ tested[1].outcome = runtime_outcome_class(result.base, result.reruns[i])
          /\ tested[1].outcome \in Telling /\ tested[1].score \in Int
      BY <3>2, <3>5 DEF Sound
    <3>7. tested[1].outcome \in {"resolved", "improved"} => result.base.status # 0
      BY <3>6 DEF runtime_outcome_class
    <3>. QED BY <2>1, <3>6, <3>7 DEF Telling, Sound, Claims, ClaimsNothing
  <2>2. CASE ~(result.given /\ result.reruns # <<>>)
    <3>1. tested = Unmeasured(checks)
      BY <2>2 DEF TestedMitigations
    <3>2. tested[1].outcome = "inferred_only" /\ tested[1].score = 0
      BY <1>2, <1>3, <3>1 DEF Unmeasured
    <3>. QED BY <3>2 DEF Claims, ClaimsNothing
  <2>. QED BY <2>1, <2>2
<1>4. Told("", 0)
  BY DEF Claims, ClaimsNothing
<1>. HIDE DEF tested, Told
<1>5. Told(s.outcome, s.score)
  BY <1>1, <1>3, <1>4
<1>. QED BY <1>1, <1>5 DEF s, Told

-----------------------------------------------------------------------------
(* Fixes *)

\* A list of words is a finite set.
LEMMA FourWords ==
  ASSUME NEW a, NEW b, NEW c, NEW d
  PROVE  IsFiniteSet({a, b, c, d})
<1>1. IsFiniteSet({a}) /\ IsFiniteSet({b}) /\ IsFiniteSet({c}) /\ IsFiniteSet({d})
  BY FS_Singleton
<1>2. IsFiniteSet({a} \cup {b}) /\ IsFiniteSet({c} \cup {d})
  BY <1>1, FS_Union
<1>3. IsFiniteSet(({a} \cup {b}) \cup ({c} \cup {d}))
  BY <1>2, FS_Union
<1>4. {a, b, c, d} = ({a} \cup {b}) \cup ({c} \cup {d})
  OBVIOUS
<1>. QED BY <1>3, <1>4

\* So is a longer one.
LEMMA TwelveWords ==
  ASSUME NEW a, NEW b, NEW c, NEW d, NEW e, NEW f, NEW g, NEW h, NEW i, NEW j, NEW k, NEW l
  PROVE  IsFiniteSet({a, b, c, d, e, f, g, h, i, j, k, l})
<1>1. IsFiniteSet({a, b, c, d}) /\ IsFiniteSet({e, f, g, h}) /\ IsFiniteSet({i, j, k, l})
  BY FourWords
<1>2. IsFiniteSet(({a, b, c, d} \cup {e, f, g, h}) \cup {i, j, k, l})
  BY <1>1, FS_Union
<1>3. {a, b, c, d, e, f, g, h, i, j, k, l} = ({a, b, c, d} \cup {e, f, g, h}) \cup {i, j, k, l}
  OBVIOUS
<1>. QED BY <1>2, <1>3

\* And those of the lengths that actions have.
LEMMA WordsOfAnAction ==
  /\ \A a, b, c, d : IsFiniteSet({a, b, c, d})
  /\ \A a, b, c, d, e : IsFiniteSet({a, b, c, d, e})
  /\ \A a, b, c, d, e, f : IsFiniteSet({a, b, c, d, e, f})
  /\ \A a, b, c, d, e, f, g : IsFiniteSet({a, b, c, d, e, f, g})
  /\ \A a, b, c, d, e, f, g, h : IsFiniteSet({a, b, c, d, e, f, g, h})
  /\ \A a, b, c, d, e, f, g, h, i : IsFiniteSet({a, b, c, d, e, f, g, h, i})
  /\ \A a, b, c, d, e, f, g, h, i, j, k : IsFiniteSet({a, b, c, d, e, f, g, h, i, j, k})
  /\ \A a, b, c, d, e, f, g, h, i, j, k, l : IsFiniteSet({a, b, c, d, e, f, g, h, i, j, k, l})
<1>1. \A a, b, c, d : IsFiniteSet({a, b, c, d})
  BY FourWords
<1>2. \A a, b, c, d, e : IsFiniteSet({a, b, c, d, e})
  <2>. SUFFICES ASSUME NEW a, NEW b, NEW c, NEW d, NEW e PROVE IsFiniteSet({a, b, c, d, e})
    OBVIOUS
  <2>1. IsFiniteSet({a, b, c, d, e, e, e, e, e, e, e, e})
    BY TwelveWords
  <2>2. {a, b, c, d, e} = {a, b, c, d, e, e, e, e, e, e, e, e}
    OBVIOUS
  <2>. QED BY <2>1, <2>2
<1>3. \A a, b, c, d, e, f : IsFiniteSet({a, b, c, d, e, f})
  <2>. SUFFICES ASSUME NEW a, NEW b, NEW c, NEW d, NEW e, NEW f PROVE IsFiniteSet({a, b, c, d, e, f})
    OBVIOUS
  <2>1. IsFiniteSet({a, b, c, d, e, f, f, f, f, f, f, f})
    BY TwelveWords
  <2>2. {a, b, c, d, e, f} = {a, b, c, d, e, f, f, f, f, f, f, f}
    OBVIOUS
  <2>. QED BY <2>1, <2>2
<1>4. \A a, b, c, d, e, f, g : IsFiniteSet({a, b, c, d, e, f, g})
  <2>. SUFFICES ASSUME NEW a, NEW b, NEW c, NEW d, NEW e, NEW f, NEW g
                PROVE  IsFiniteSet({a, b, c, d, e, f, g})
    OBVIOUS
  <2>1. IsFiniteSet({a, b, c, d, e, f, g, g, g, g, g, g})
    BY TwelveWords
  <2>2. {a, b, c, d, e, f, g} = {a, b, c, d, e, f, g, g, g, g, g, g}
    OBVIOUS
  <2>. QED BY <2>1, <2>2
<1>5. \A a, b, c, d, e, f, g, h : IsFiniteSet({a, b, c, d, e, f, g, h})
  <2>. SUFFICES ASSUME NEW a, NEW b, NEW c, NEW d, NEW e, NEW f, NEW g, NEW h
                PROVE  IsFiniteSet({a, b, c, d, e, f, g, h})
    OBVIOUS
  <2>1. IsFiniteSet({a, b, c, d, e, f, g, h, h, h, h, h})
    BY TwelveWords
  <2>2. {a, b, c, d, e, f, g, h} = {a, b, c, d, e, f, g, h, h, h, h, h}
    OBVIOUS
  <2>. QED BY <2>1, <2>2
<1>6. \A a, b, c, d, e, f, g, h, i : IsFiniteSet({a, b, c, d, e, f, g, h, i})
  <2>. SUFFICES ASSUME NEW a, NEW b, NEW c, NEW d, NEW e, NEW f, NEW g, NEW h, NEW i
                PROVE  IsFiniteSet({a, b, c, d, e, f, g, h, i})
    OBVIOUS
  <2>1. IsFiniteSet({a, b, c, d, e, f, g, h, i, i, i, i})
    BY TwelveWords
  <2>2. {a, b, c, d, e, f, g, h, i} = {a, b, c, d, e, f, g, h, i, i, i, i}
    OBVIOUS
  <2>. QED BY <2>1, <2>2
<1>7. \A a, b, c, d, e, f, g, h, i, j, k : IsFiniteSet({a, b, c, d, e, f, g, h, i, j, k})
  <2>. SUFFICES ASSUME NEW a, NEW b, NEW c, NEW d, NEW e, NEW f, NEW g, NEW h, NEW i, NEW j,
                       NEW k
                PROVE  IsFiniteSet({a, b, c, d, e, f, g, h, i, j, k})
    OBVIOUS
  <2>1. IsFiniteSet({a, b, c, d, e, f, g, h, i, j, k, k})
    BY TwelveWords
  <2>2. {a, b, c, d, e, f, g, h, i, j, k} = {a, b, c, d, e, f, g, h, i, j, k, k}
    OBVIOUS
  <2>. QED BY <2>1, <2>2
<1>8. \A a, b, c, d, e, f, g, h, i, j, k, l : IsFiniteSet({a, b, c, d, e, f, g, h, i, j, k, l})
  BY TwelveWords
<1>. QED BY <1>1, <1>2, <1>3, <1>4, <1>5, <1>6, <1>7, <1>8

\* Every action has finitely many words.
LEMMA WordsAreFinite ==
  ASSUME NEW action
  PROVE  IsFiniteSet(Words(action))
<1>1. CASE action \in {"scale consumer group", "increase partitions", "rotate certificate",
                      "recycle workers"}
  BY <1>1, WordsOfAnAction DEF Words
<1>2. CASE action \in {"roll back retry patch", "increase pool size", "re-enable rebalance flag",
                      "reload listener"}
  BY <1>2, WordsOfAnAction DEF Words
<1>3. CASE action \in {"roll back retry middleware", "disable frame cache"}
  BY <1>3, WordsOfAnAction DEF Words
<1>4. CASE action \in {"drain pods", "terminate sessions and restart", "roll back consumer",
                      "validate ownership"}
  BY <1>4, WordsOfAnAction DEF Words
<1>5. CASE action \in {"open breaker and cap retries", "prepare rollback"}
  BY <1>5, WordsOfAnAction DEF Words
<1>6. CASE action = "roll back auth-svc"
  BY <1>6, WordsOfAnAction DEF Words
<1>7. CASE action = "reset breaker and token cache"
  BY <1>7, WordsOfAnAction DEF Words
<1>8. CASE action = "increase auth timeout"
  BY <1>8, WordsOfAnAction DEF Words
<1>9. CASE Words(action) = {}
  BY <1>9, FS_EmptySet
<1>. QED BY <1>1, <1>2, <1>3, <1>4, <1>5, <1>6, <1>7, <1>8, <1>9 DEF Words

\* The larger of two.
LEMMA MaxOfTwo ==
  ASSUME NEW x \in Int, NEW y \in Int
  PROVE  Max({x, y}) = IF x >= y THEN x ELSE y
BY DEF Max

\* The smaller of two.
LEMMA MinOfTwo ==
  ASSUME NEW x \in Int, NEW y \in Int
  PROVE  Min({x, y}) = IF x <= y THEN x ELSE y
BY DEF Min

\* Two actions have some words in common, of at least one.
LEMMA OverlapIsCounted ==
  ASSUME NEW action, NEW other
  PROVE  LET overlap == ActionOverlap(action, other)
         IN overlap.common \in Nat /\ overlap.all \in Nat /\ overlap.all >= 1
<1>. DEFINE both == Words(action) \cup Words(other)
            shared == Words(action) \cap Words(other)
<1>1. IsFiniteSet(both)
  BY WordsAreFinite, FS_Union
<1>2. IsFiniteSet(shared)
  BY <1>1, FS_Subset
<1>3. Cardinality(both) \in Nat /\ Cardinality(shared) \in Nat
  BY <1>1, <1>2, FS_CardinalityType
<1>4. ActionOverlap(action, other) = [common |-> Cardinality(shared),
                                      all |-> IF Cardinality(both) = 0 THEN 1 ELSE Cardinality(both)]
  BY DEF ActionOverlap
<1>. HIDE DEF both, shared
<1>. QED BY <1>3, <1>4

\* What is known of a summary: a score, and an outcome that claims nothing or
\* was measured.
Tells(summary) ==
  /\ summary.score \in Int
  /\ ClaimsNothing(summary.outcome) \/ Claims(summary.outcome)

\* A fix is called validated only by a summary that claims something.
LEMMA WeightedFix ==
  ASSUME NEW fix, fix.success \in Int, NEW summary, Tells(summary)
  PROVE  LET row == Weighted(fix, summary)
         IN /\ row.score \in Int /\ row.success \in Int
            /\ row.posture = "validated_runtime" => Claims(summary.outcome)
<1>. DEFINE overlap == ActionOverlap(fix.action, summary.best)
            score == RuntimeScore(summary, overlap)
            posture == EvidencePostureOf(summary.executed, overlap, summary.outcome)
<1>1. overlap.common \in Nat /\ overlap.all \in Nat /\ overlap.all >= 1
  BY OverlapIsCounted
<1>2. Weighted(fix, summary) = [action |-> fix.action, score |-> score,
                                success |-> Max({fix.success, score}), posture |-> posture]
  BY DEF Weighted
<1>. HIDE DEF overlap
<1>3. score \in Int
  <2>a. \A x, y, z \in Int : 2 * x * y + z \in Int
    OBVIOUS
  <2>1. 2 * summary.score * overlap.common + overlap.all \in Int
    <3>1. summary.score \in Int /\ overlap.common \in Int /\ overlap.all \in Int
      BY <1>1 DEF Tells
    <3>. QED BY ONLY <2>a, <3>1
  <2>2. 2 * overlap.all \in Nat /\ 2 * overlap.all > 0
    BY <1>1
  <2>. QED BY <2>1, <2>2, Quotient DEF RuntimeScore
<1>4. Max({fix.success, score}) \in Int
  <2>. HIDE DEF score
  <2>. QED BY <1>3, MaxOfTwo
<1>5. ClaimsNothing(summary.outcome) => posture # "validated_runtime"
  <2>. SUFFICES ASSUME ClaimsNothing(summary.outcome) PROVE posture # "validated_runtime"
    OBVIOUS
  <2>a. (\A x \in Nat : 0 * x = 0) /\ (\A y \in Nat : y >= 1 => 60 * y > 0)
    OBVIOUS
  <2>b. 0 * overlap.common = 0 /\ 60 * overlap.all > 0 /\ 60 * overlap.all \in Int
    BY ONLY <1>1, <2>a
  <2>1. ~(0 * overlap.common >= 60 * overlap.all)
    BY ONLY <2>b
  <2>. QED BY <2>1 DEF EvidencePostureOf, ClaimsNothing
<1>. DEFINE row == Weighted(fix, summary)
<1>. HIDE DEF score, posture
<1>6. row.score = score /\ row.success = Max({fix.success, score}) /\ row.posture = posture
  BY <1>2
<1>7. row.score \in Int /\ row.success \in Int /\ (row.posture = "validated_runtime" => Claims(summary.outcome))
  <2>. HIDE DEF row
  <2>. QED BY <1>3, <1>4, <1>5, <1>6 DEF Tells
<1>. QED BY <1>7

\* A list of fixes that can be ranked.
FewFixes(fixes) ==
  /\ \E S : fixes \in Seq(S)
  /\ Len(fixes) <= 3
  /\ \A i \in 1 .. Len(fixes) : fixes[i].success \in Int

\* No family has more than three candidate fixes.
LEMMA CandidateFixesAreFew ==
  ASSUME NEW family
  PROVE  FewFixes(CandidateFixes(family))
<1>. DEFINE fixes == CandidateFixes(family)
            long == {"auth dependency", "queue backlog", "timeout cascade", "pool exhaustion"}
<1>1. ASSUME NEW a, NEW b, NEW c, a.success \in Int, b.success \in Int, c.success \in Int
      PROVE  FewFixes(<<a, b, c>>) /\ FewFixes(<<a, b>>)
  <2>. DEFINE S == {a, b, c}
  <2>1. <<a, b, c>> \in Seq(S) /\ <<a, b>> \in Seq(S)
    OBVIOUS
  <2>2. \A d \in S : d.success \in Int
    BY <1>1
  <2>. HIDE DEF S
  <2>. QED BY <2>1, <2>2 DEF FewFixes
<1>2. CASE family \in long
  <2>1. /\ fixes = <<fixes[1], fixes[2], fixes[3]>>
        /\ fixes[1].success \in {89, 90, 91, 93}
        /\ fixes[2].success \in {86, 87, 88}
        /\ fixes[3].success \in {24, 78, 80, 82}
    <3>1. CASE family = "auth dependency"
      <4>1. fixes = <<[action |-> "reset breaker and token cache", success |-> 91],
                      [action |-> "increase auth timeout", success |-> 87],
                      [action |-> "roll back auth-svc", success |-> 82]>>
        BY <3>1 DEF CandidateFixes
      <4>. HIDE DEF fixes
      <4>. QED BY <4>1
    <3>2. CASE family = "queue backlog"
      <4>1. fixes = <<[action |-> "roll back consumer", success |-> 93],
                      [action |-> "re-enable rebalance flag", success |-> 88],
                      [action |-> "increase partitions", success |-> 24]>>
        BY <3>2 DEF CandidateFixes
      <4>. HIDE DEF fixes
      <4>. QED BY <4>1
    <3>3. CASE family = "timeout cascade"
      <4>1. fixes = <<[action |-> "open breaker and cap retries", success |-> 90],
                      [action |-> "roll back retry middleware", success |-> 87],
                      [action |-> "drain pods", success |-> 80]>>
        BY <3>3 DEF CandidateFixes
      <4>. HIDE DEF fixes
      <4>. QED BY <4>1
    <3>4. CASE family = "pool exhaustion"
      <4>1. fixes = <<[action |-> "terminate sessions and restart", success |-> 89],
                      [action |-> "roll back retry patch", success |-> 86],
                      [action |-> "increase pool size", success |-> 78]>>
        BY <3>4 DEF CandidateFixes
      <4>. HIDE DEF fixes
      <4>. QED BY <4>1
    <3>. QED BY <1>2, <3>1, <3>2, <3>3, <3>4
  <2>. HIDE DEF fixes
  <2>2. fixes[1].success \in Int /\ fixes[2].success \in Int /\ fixes[3].success \in Int
    BY <2>1
  <2>3. FewFixes(<<fixes[1], fixes[2], fixes[3]>>)
    BY ONLY <1>1, <2>2, Zenon
  <2>. QED BY <2>1, <2>3 DEF fixes
<1>3. CASE family \notin long
  <2>1. fixes = <<fixes[1], fixes[2]>>
    BY <1>3 DEF CandidateFixes
  <2>2. fixes[1].success \in Int /\ fixes[2].success \in Int
    <3>1. fixes[1].success \in {90, 93} /\ fixes[2].success \in {82, 86}
      BY <1>3 DEF CandidateFixes
    <3>. HIDE DEF fixes
    <3>. QED BY <3>1
  <2>. HIDE DEF fixes
  <2>3. FewFixes(<<fixes[1], fixes[2]>>)
    BY ONLY <1>1, <2>2, Zenon
  <2>. QED BY ONLY <2>1, <2>3 DEF fixes
<1>. QED BY <1>2, <1>3

\* Ranking weighs each fix, and makes up none.
LEMMA RankedFixes ==
  ASSUME NEW fixes, FewFixes(fixes), NEW summary, Tells(summary)
  PROVE  LET ranked == rank_candidate_fixes_with_runtime(fixes, summary)
         IN /\ DOMAIN ranked = 1 .. Len(fixes)
            /\ \A k \in 1 .. Len(fixes) : \E i \in 1 .. Len(fixes) : ranked[k] = Weighted(fixes[i], summary)
<1>. DEFINE n == Len(fixes)
            rows == [i \in 1 .. n |-> Weighted(fixes[i], summary)]
            a == [i \in 1 .. n |-> rows[i].score]
            b == [i \in 1 .. n |-> rows[i].success]
            B == {q \in (1 .. n) \X (1 .. n) :
                    \/ RunsBefore(rows[q[1]], rows[q[2]])
                    \/ ~RunsBefore(rows[q[2]], rows[q[1]]) /\ q[1] < q[2]}
            ranked == [k \in 1 .. n |-> rows[Order(n, B)[k]]]
<1>0. n \in 0 .. 3 /\ n = Len(fixes)
  BY AtMostThree DEF FewFixes
<1>1. rank_candidate_fixes_with_runtime(fixes, summary) = ranked
  <2>1. Len(rows) = n
    BY <1>0
  <2>. DEFINE Arranged(m) ==
                [k \in 1 .. m |-> rows[Order(m, {q \in (1 .. m) \X (1 .. m) :
                                                   \/ RunsBefore(rows[q[1]], rows[q[2]])
                                                   \/ ~RunsBefore(rows[q[2]], rows[q[1]]) /\ q[1] < q[2]})[k]]]
  <2>2. rank_candidate_fixes_with_runtime(fixes, summary) = Arranged(Len(rows))
    BY DEF rank_candidate_fixes_with_runtime, Sorted
  <2>3. ranked = Arranged(n)
    OBVIOUS
  <2>. HIDE DEF Arranged, ranked, n
  <2>. QED BY ONLY <2>1, <2>2, <2>3
<1>2. \A i, j \in 1 .. n : <<i, j>> \in B <=> \/ RunsBefore(rows[i], rows[j])
                                              \/ ~RunsBefore(rows[j], rows[i]) /\ i < j
  OBVIOUS
<1>3. B \in SUBSET ((1 .. n) \X (1 .. n))
  OBVIOUS
<1>4. a \in [1 .. n -> Int] /\ b \in [1 .. n -> Int]
  <2>1. ASSUME NEW i \in 1 .. n
        PROVE  rows[i].score \in Int /\ rows[i].success \in Int
    <3>1. fixes[i].success \in Int
      BY DEF FewFixes
    <3>2. rows[i] = Weighted(fixes[i], summary)
      OBVIOUS
    <3>. HIDE DEF rows
    <3>. QED BY <3>1, <3>2, WeightedFix
  <2>. HIDE DEF n, rows
  <2>. QED BY <2>1
<1>. HIDE DEF B
<1>5. \A i, j \in 1 .. n : <<i, j>> \in B <=> \/ a[i] > a[j]
                                              \/ a[i] = a[j] /\ b[i] > b[j]
                                              \/ a[i] = a[j] /\ b[i] = b[j] /\ i < j
  <2>. SUFFICES ASSUME NEW i \in 1 .. n, NEW j \in 1 .. n
                PROVE  <<i, j>> \in B <=> \/ a[i] > a[j]
                                          \/ a[i] = a[j] /\ b[i] > b[j]
                                          \/ a[i] = a[j] /\ b[i] = b[j] /\ i < j
    OBVIOUS
  <2>. HIDE DEF rows
  <2>1. /\ RunsBefore(rows[i], rows[j]) <=> a[i] > a[j] \/ (a[i] = a[j] /\ b[i] > b[j])
        /\ RunsBefore(rows[j], rows[i]) <=> a[j] > a[i] \/ (a[j] = a[i] /\ b[j] > b[i])
    BY DEF RunsBefore
  <2>2. a[i] \in Int /\ a[j] \in Int /\ b[i] \in Int /\ b[j] \in Int
    BY <1>4
  <2>. HIDE DEF a, b
  <2>. QED BY <1>2, <2>1, <2>2
<1>6. Order(n, B) \in [1 .. n -> 1 .. n]
  <2>. HIDE DEF n, a, b
  <2>. QED BY <1>0, <1>3, <1>4, <1>5, OrderByNumbers
<1>7. \A k \in 1 .. n : Order(n, B)[k] \in 1 .. n /\ ranked[k] = Weighted(fixes[Order(n, B)[k]], summary)
  <2>. HIDE DEF n
  <2>. QED BY <1>6
<1>8. \A k \in 1 .. n : \E i \in 1 .. n : ranked[k] = Weighted(fixes[i], summary)
  <2>. HIDE DEF n, ranked
  <2>. QED BY <1>7, Zenon
<1>9. DOMAIN ranked = 1 .. n
  OBVIOUS
<1>. HIDE DEF ranked, B
<1>. QED BY <1>1, <1>8, <1>9

-----------------------------------------------------------------------------
(* Packets *)

\* What is known of a packet: where it was run, and what its summary claims.
Told(p) ==
  /\ p.status = "replay_executed" <=> p.host = "app"
  /\ p.status = "relay_executed" <=> p.host = "relay"
  /\ p.trust = "executed" <=> p.host # "nowhere"
  /\ p.state = "completed" <=> p.host # "nowhere"
  /\ p.summary.base # NoSignal =>
       p.summary.provenance = (IF p.host = "app" THEN "direct_runtime" ELSE "delegated_relay")

Claimed(p) ==
  /\ Tells(p.summary)
  /\ Claims(p.summary.outcome) => p.host # "nowhere" /\ p.summary.base.status >= 500

\* The fields of a packet.
LEMMA PacketFields ==
  ASSUME NEW summary, NEW trust, NEW host
  PROVE  LET p == PacketOf(summary, trust, host)
         IN /\ p.status = TriggeredStatus(summary.capability)
            /\ p.state = JobState(TriggeredStatus(summary.capability))
            /\ p.trust = trust /\ p.host = host /\ p.summary = summary
BY DEF PacketOf

\* A pack that can be run is one of the packs.
LEMMA PackOfIncident == Pack \in Packs \cup {NoPack}
BY DEF Pack, select_environment_pack, Packs

\* A replay on the app's host has run if and only if it has a result.
LEMMA LeftByAppIsTold ==
  ASSUME NEW p \in LeftByApp
  PROVE  Told(p) /\ Claimed(p)
<1>1. PICK r \in ResultsOfApp(TRUE) :
        p = PacketOf(SummaryOf(r), TrustDecision(SummaryOf(r).capability),
                     IF SummaryOf(r).executed THEN "app" ELSE "nowhere")
  BY DEF LeftByApp
<1>. DEFINE s == SummaryOf(r)
            state == CapabilityOfApp(Pack, SeenWith(tool, Pack), r, relay # "none")
<1>2. Sound(r) /\ (r.given \/ r = NoResult)
  <2>1. CASE r \in RunResults(Pack) /\ RunsWith(tool)
    <3>1. Pack \in Packs /\ ~AssetsMissing(Pack)
      BY <2>1, PackOfIncident DEF RunsWith
    <3>. QED BY <2>1, <3>1, RunsTell
  <2>2. CASE r = NoResult
    BY <2>2, NoResultIsSound
  <2>. QED BY <2>1, <2>2 DEF ResultsOfApp
<1>3. /\ s.executed = r.given /\ s.base = r.base /\ s.capability = state
      /\ s.provenance = RuntimeProvenance(RuntimeMode(Pack, SeenWith(tool, Pack), r), r.given, state)
  BY DEF SummaryOf, build_replica_summary
<1>4. /\ s.score \in Int
      /\ ClaimsNothing(s.outcome) \/ Claims(s.outcome)
      /\ Claims(s.outcome) => r.reruns # <<>> /\ r.base.status >= 500
  <2>1. PICK family, pack, candidates, seen, relayed, mode, capability :
          s = build_replica_summary(family, pack, candidates, seen, r, relayed, mode, capability)
    BY Zenon DEF SummaryOf
  <2>. HIDE DEF s
  <2>. QED BY <1>2, <2>1, SummaryTells
<1>5. /\ p.status = TriggeredStatus(state) /\ p.state = JobState(TriggeredStatus(state))
      /\ p.trust = TrustDecision(state) /\ p.summary = s
      /\ p.host = IF r.given THEN "app" ELSE "nowhere"
  BY <1>1, <1>3, PacketFields
<1>. HIDE DEF s
<1>6. CASE r.given
  <2>1. state = "replay_executed"
    BY <1>6 DEF CapabilityOfApp
  <2>2. p.status = "replay_executed" /\ p.state = "completed" /\ p.trust = "executed" /\ p.host = "app"
    BY <1>5, <1>6, <2>1 DEF TriggeredStatus, JobState, TrustDecision
  <2>3. s.provenance = "direct_runtime"
    BY <1>3, <1>6 DEF RuntimeProvenance, RuntimeMode
  <2>4. Told(p)
    BY <1>5, <2>2, <2>3 DEF Told
  <2>5. Claimed(p)
    BY <1>3, <1>4, <1>5, <2>2 DEF Claimed, Tells
  <2>. QED BY <2>4, <2>5
<1>7. CASE ~r.given
  <2>1. r = NoResult /\ s.base = NoSignal /\ r.reruns = <<>>
    BY <1>2, <1>3, <1>7, NoResultIsSound DEF NoResult
  <2>2. state \in {"no_pack", "relay_available", "host_unavailable", "replay_available",
                   "pack_validation_required"}
    BY <1>7 DEF CapabilityOfApp
  <2>. HIDE DEF state
  <2>3. /\ p.status \notin {"replay_executed", "relay_executed"} /\ p.state # "completed"
        /\ p.trust # "executed" /\ p.host = "nowhere"
    BY <1>5, <1>7, <2>2 DEF TriggeredStatus, JobState, TrustDecision
  <2>4. Told(p)
    BY <1>5, <2>1, <2>3 DEF Told
  <2>5. Claimed(p)
    BY <1>4, <1>5, <2>1 DEF Claimed, Tells
  <2>. QED BY <2>4, <2>5
<1>. QED BY <1>6, <1>7

\* A replay on a runtime host has run if and only if the host says so: one that
\* was merely inspected has measured nothing.
LEMMA LeftByRelayIsTold ==
  ASSUME Delegates, NEW p \in LeftByRelay
  PROVE  Told(p) /\ Claimed(p)
<1>1. PICK a \in RelayAnswers :
        p = PacketOf(DelegatedSummary(InferredFamily, Pack, {f.action : f \in Range(CandidateFixes(InferredFamily))},
                                      SeenWith(tool, Pack), a.status, a.result),
                     TrustDecision(a.status), IF a.status = "replay_executed" THEN "relay" ELSE "nowhere")
  BY DEF LeftByRelay
<1>. DEFINE s == DelegatedSummary(InferredFamily, Pack, {f.action : f \in Range(CandidateFixes(InferredFamily))},
                                  SeenWith(tool, Pack), a.status, a.result)
            state == IF a.status = "replay_executed" THEN "relay_executed" ELSE "relay_available"
<1>2. Pack \in Packs /\ ~AssetsMissing(Pack)
  <2>1. CapabilityOfApp(Pack, SeenWith(tool, Pack), NoResult, relay # "none") = "relay_available"
    BY NoResultIsSound DEF Delegates, SummaryOf, build_replica_summary
  <2>2. Pack # NoPack /\ ~SeenWith(tool, Pack).missing
    BY <2>1, NoResultIsSound DEF CapabilityOfApp
  <2>. QED BY <2>2, PackOfIncident DEF SeenWith
<1>3. /\ Sound(a.result) /\ a.result.given
      /\ \/ a.status = "replay_executed"
         \/ /\ a.status \in {"host_unavailable", "pack_validation_required"}
            /\ a.result.base = NoSignal /\ a.result.reruns = <<>>
  <2>1. CASE relay = "works"
    BY <1>2, <2>1, RunsTell DEF RelayAnswers
  <2>2. CASE relay # "works"
    <3>1. a.result = Result(NoSignal, <<>>) /\ a.status \in {"host_unavailable", "pack_validation_required"}
      BY <2>2 DEF RelayAnswers
    <3>2. a.result \in RunResults(Pack)
      BY <3>1 DEF RunResults
    <3>. QED BY <1>2, <3>1, <3>2, RunsTell DEF Result
  <2>. QED BY <2>1, <2>2
<1>4. /\ s.executed = a.result.given /\ s.base = a.result.base /\ s.capability = state
      /\ s.provenance = RuntimeProvenance("relay_runtime_scaffold", a.result.given, state)
  BY DEF DelegatedSummary, build_replica_summary
<1>5. /\ s.score \in Int
      /\ ClaimsNothing(s.outcome) \/ Claims(s.outcome)
      /\ Claims(s.outcome) => a.result.reruns # <<>> /\ a.result.base.status >= 500
  <2>1. PICK family, pack, candidates, seen, result, relayed, mode, capability :
          /\ s = build_replica_summary(family, pack, candidates, seen, result, relayed, mode, capability)
          /\ result = a.result
    BY Zenon DEF DelegatedSummary
  <2>. HIDE DEF s
  <2>. QED BY <1>3, <2>1, SummaryTells
<1>6. /\ p.status = TriggeredStatus(state) /\ p.state = JobState(TriggeredStatus(state))
      /\ p.trust = TrustDecision(a.status) /\ p.summary = s
      /\ p.host = IF a.status = "replay_executed" THEN "relay" ELSE "nowhere"
  BY <1>1, <1>4, PacketFields
<1>. HIDE DEF s
<1>7. s.provenance = "delegated_relay"
  BY <1>3, <1>4 DEF RuntimeProvenance
<1>8. CASE a.status = "replay_executed"
  <2>1. p.status = "relay_executed" /\ p.state = "completed" /\ p.trust = "executed" /\ p.host = "relay"
    BY <1>6, <1>8 DEF TriggeredStatus, JobState, TrustDecision
  <2>2. Told(p)
    BY <1>6, <1>7, <2>1 DEF Told
  <2>3. Claimed(p)
    BY <1>4, <1>5, <1>6, <2>1 DEF Claimed, Tells
  <2>. QED BY <2>2, <2>3
<1>9. CASE a.status # "replay_executed"
  <2>1. /\ p.status = "replay_available" /\ p.state = "failed" /\ p.trust = "denied" /\ p.host = "nowhere"
    BY <1>3, <1>6, <1>9 DEF TriggeredStatus, JobState, TrustDecision
  <2>2. Told(p)
    BY <1>3, <1>4, <1>6, <1>9, <2>1 DEF Told
  <2>3. Claimed(p)
    BY <1>3, <1>5, <1>6, <1>9 DEF Claimed, Tells
  <2>. QED BY <2>2, <2>3
<1>. QED BY <1>8, <1>9

-----------------------------------------------------------------------------
(* The invariant *)

\* What the variables are, but for the packets and the page.
Settings ==
  /\ incident \in Incidents /\ decision \in Decisions
  /\ tool \in Tools /\ relay \in Relays /\ runtime \in BOOLEAN /\ enabled \in BOOLEAN
  /\ retried \in 0 .. Recent
  /\ triggered \in 0 .. MaxReplays /\ changes \in 0 .. MaxChanges

\* The row holds packets of triggered replays, each of which tells where it was
\* run and claims only what it has measured.
PacketsAreTold ==
  /\ packets \in Seq(Range(packets))
  /\ Len(packets) <= triggered /\ Len(packets) <= ReplayLimit
  /\ \A i \in 1 .. Len(packets) : Told(packets[i]) /\ Claimed(packets[i])

\* What a page says of its incident.
UncertaintyIsNamed ==
  page # NoPage =>
    page.uncertainty \in {"high uncertainty", "well-grounded", "runtime-validated", "low confidence"}

PageIsTrue ==
  /\ UncertaintyIsNamed
  /\ ConfidentAfterARun
  /\ LoweredByTheNewestRun

EvidenceInv == Settings /\ PacketsAreTold /\ PageIsTrue

\* The newest packet is stored before the others, the oldest of which may go.
LEMMA StoredPackets ==
  ASSUME PacketsAreTold, NEW p, packets' = Stored(p)
  PROVE  /\ packets' \in Seq(Range(packets'))
         /\ Len(packets') <= Len(packets) + 1 /\ Len(packets') <= ReplayLimit
         /\ \A i \in 1 .. Len(packets') : packets'[i] = p \/ \E j \in 1 .. Len(packets) : packets'[i] = packets[j]
<1>. DEFINE S == Range(packets) \cup {p}
            all == <<p>> \o packets
            n == Len(packets)
            m == Min({ReplayLimit, n + 1})
            kept == SubSeq(all, 1, m)
<1>1. packets \in Seq(S) /\ n \in Nat
  BY DEF PacketsAreTold
<1>2. m \in Nat /\ 1 <= m /\ m <= n + 1 /\ m <= ReplayLimit
  <2>1. ReplayLimit \in Int /\ ReplayLimit >= 1
    <3>1. ReplayLimit \in Nat \ {0}
      BY EvidenceAssumption, Zenon
    <3>. QED BY ONLY <3>1
  <2>2. m = IF ReplayLimit <= n + 1 THEN ReplayLimit ELSE n + 1
    <3>. HIDE DEF n
    <3>. QED BY <1>1, <2>1, MinOfTwo
  <2>. HIDE DEF m, n
  <2>. QED BY <1>1, <2>1, <2>2
<1>3. all \in Seq(S) /\ Len(all) = n + 1
  BY <1>1
<1>4. all[1] = p /\ \A i \in 2 .. n + 1 : i - 1 \in 1 .. n /\ all[i] = packets[i - 1]
  BY <1>1
<1>5. packets' = kept
  BY DEF Stored
<1>. HIDE DEF n, m, all
<1>6. kept \in Seq(S) /\ Len(kept) = m /\ \A i \in 1 .. m : kept[i] = all[i]
  BY <1>1, <1>2, <1>3
<1>. HIDE DEF kept
<1>7. ASSUME NEW i \in 1 .. m
      PROVE  kept[i] = p \/ \E j \in 1 .. n : kept[i] = packets[j]
  <2>1. CASE i = 1
    BY <1>4, <1>6, <2>1
  <2>2. CASE i # 1
    <3>1. i \in 2 .. n + 1
      BY <1>1, <1>2, <2>2
    <3>. QED BY <1>4, <1>6, <3>1
  <2>. QED BY <2>1, <2>2
<1>8. \A s \in Seq(S) : s \in Seq(Range(s))
  BY DEF Range
<1>9. kept \in Seq(Range(kept))
  BY <1>6, <1>8
<1>. QED BY <1>2, <1>5, <1>6, <1>7, <1>9 DEF n

\* A page says no more than its row does.
LEMMA PageOfRow ==
  ASSUME PacketsAreTold, NEW summary \in PageSummaries, NEW shown, shown = PageOf(summary)
  PROVE  /\ shown.uncertainty \in {"high uncertainty", "well-grounded", "runtime-validated", "low confidence"}
         /\ (\/ shown.diagnosed > DiagnosisConfidence(incident.posture, FALSE)
             \/ shown.uncertainty = "runtime-validated"
             \/ incident.posture # "none" /\ shown.caveat = "none") =>
              packets # <<>> /\ packets[1].host # "nowhere"
         /\ (\/ shown.risk # RiskClass(incident.severity, "")
             \/ \E i \in DOMAIN shown.fixes : shown.fixes[i].posture = "validated_runtime") =>
              /\ packets # <<>> /\ packets[1].host # "nowhere"
              /\ packets[1].summary.base.status >= 500
              /\ packets[1].summary.outcome \in {"resolved", "improved"}
<1>. DEFINE ran == HasRuntimeReplay
            posture == incident.posture
            classified == ClassificationConfidence(posture, ran)
            fixes == ShownFixes(summary)
<1>1. /\ shown.uncertainty = Uncertainty(classified, ran)
      /\ shown.diagnosed = DiagnosisConfidence(posture, ran)
      /\ shown.caveat = Caveat(posture, SupportState(InferredFamily), ran)
      /\ shown.fixes = fixes /\ shown.risk = ShownRisk(summary)
  BY DEF PageOf
<1>2. packets # <<>> => 1 \in 1 .. Len(packets)
  BY DEF PacketsAreTold
<1>3. ran => packets # <<>> /\ packets[1].host # "nowhere"
  BY <1>2 DEF HasRuntimeReplay, Newest, PacketsAreTold, Told
<1>4. ~ran => /\ ~(shown.diagnosed > DiagnosisConfidence(posture, FALSE))
              /\ shown.uncertainty # "runtime-validated"
              /\ ~(posture # "none" /\ shown.caveat = "none")
  <2>. SUFFICES ASSUME ~ran
                PROVE  /\ ~(shown.diagnosed > DiagnosisConfidence(posture, FALSE))
                       /\ shown.uncertainty # "runtime-validated"
                       /\ ~(posture # "none" /\ shown.caveat = "none")
    OBVIOUS
  <2>1. ran = FALSE
    BY DEF HasRuntimeReplay
  <2>. HIDE DEF ran
  <2>2. DiagnosisConfidence(posture, FALSE) \in Int
    BY DEF DiagnosisConfidence
  <2>3. shown.diagnosed = DiagnosisConfidence(posture, FALSE)
    BY <1>1, <2>1
  <2>4. ~(shown.diagnosed > DiagnosisConfidence(posture, FALSE))
    <3>1. PICK d \in Int : d = DiagnosisConfidence(posture, FALSE)
      BY <2>2
    <3>2. ~(d > d)
      OBVIOUS
    <3>3. shown.diagnosed = d
      BY <2>3, <3>1, Zenon
    <3>. QED BY ONLY <3>1, <3>2, <3>3, Zenon
  <2>5. shown.uncertainty # "runtime-validated"
    BY <1>1, <2>1 DEF Uncertainty
  <2>6. ~(posture # "none" /\ shown.caveat = "none")
    BY <1>1, <2>1 DEF Caveat
  <2>. QED BY <2>4, <2>5, <2>6
<1>5. shown.uncertainty \in {"high uncertainty", "well-grounded", "runtime-validated", "low confidence"}
  BY <1>1 DEF Uncertainty
<1>6. CASE packets = <<>>
  <2>1. shown.risk = RiskClass(incident.severity, "")
    BY <1>1, <1>6 DEF ShownRisk
  <2>2. fixes = Unranked(CandidateFixes(InferredFamily))
    BY <1>6 DEF ShownFixes
  <2>3. \A i \in DOMAIN fixes : fixes[i].posture = ""
    <3>. HIDE DEF fixes
    <3>. DEFINE some == CandidateFixes(InferredFamily)
    <3>1. fixes = [i \in 1 .. Len(some) |-> [action |-> some[i].action, score |-> 0,
                                             success |-> some[i].success, posture |-> ""]]
      BY <2>2 DEF Unranked
    <3>. HIDE DEF some
    <3>. QED BY <3>1
  <2>. HIDE DEF fixes
  <2>. QED BY <1>1, <1>3, <1>4, <1>5, <2>1, <2>3
<1>7. CASE packets # <<>>
  <2>1. summary = packets[1].summary /\ Claimed(packets[1])
    BY <1>2, <1>7 DEF PageSummaries, Newest, PacketsAreTold
  <2>2. Tells(summary) /\ shown.risk = RiskClass(incident.severity, summary.outcome)
    BY <1>1, <1>7, <2>1 DEF Claimed, ShownRisk
  <2>3. ClaimsNothing(summary.outcome) => shown.risk = RiskClass(incident.severity, "")
    BY <2>2 DEF RiskClass, ClaimsNothing
  <2>4. ASSUME NEW i \in DOMAIN fixes, fixes[i].posture = "validated_runtime"
        PROVE  Claims(summary.outcome)
    <3>. DEFINE candidates == CandidateFixes(InferredFamily)
    <3>1. FewFixes(candidates)
      BY CandidateFixesAreFew
    <3>2. fixes = rank_candidate_fixes_with_runtime(candidates, summary)
      BY <1>7 DEF ShownFixes
    <3>. HIDE DEF candidates, fixes
    <3>3. PICK j \in 1 .. Len(candidates) : fixes[i] = Weighted(candidates[j], summary)
      BY <2>2, <2>4, <3>1, <3>2, RankedFixes
    <3>4. candidates[j].success \in Int
      BY <3>1 DEF FewFixes
    <3>. QED BY <2>2, <2>4, <3>3, <3>4, WeightedFix
  <2>5. Claims(summary.outcome) =>
          /\ packets[1].host # "nowhere" /\ packets[1].summary.base.status >= 500
          /\ packets[1].summary.outcome \in {"resolved", "improved"}
    BY <2>1 DEF Claimed, Claims
  <2>6. ClaimsNothing(summary.outcome) \/ Claims(summary.outcome)
    BY <2>2 DEF Tells
  <2>. HIDE DEF fixes
  <2>. QED BY <1>1, <1>3, <1>4, <1>5, <1>7, <2>3, <2>4, <2>5, <2>6
<1>. QED BY <1>6, <1>7

\* At the start there are no packets and no page.
LEMMA InitEvidence == Init => EvidenceInv
<1>. SUFFICES ASSUME Init PROVE EvidenceInv
  OBVIOUS
<1>1. Settings
  <2>1. MaxReplays \in Nat /\ MaxChanges \in Nat
    BY EvidenceAssumption, Zenon
  <2>2. triggered \in 0 .. MaxReplays /\ changes \in 0 .. MaxChanges
    BY <2>1 DEF Init
  <2>3. retried \in 0 .. Recent
    BY DEF Init, Recent
  <2>. QED BY <2>2, <2>3 DEF Init, Settings, Decisions, Tools, Relays
<1>2. PacketsAreTold
  <2>1. ReplayLimit \in Nat \ {0}
    BY EvidenceAssumption, Zenon
  <2>2. packets = <<>> /\ triggered = 0
    BY DEF Init
  <2>3. Len(<<>>) = 0 /\ <<>> \in Seq(Range(<<>>))
    OBVIOUS
  <2>. QED BY <2>1, <2>2, <2>3 DEF PacketsAreTold
<1>3. PageIsTrue
  <2>1. page = NoPage /\ ~page.shown
    BY DEF Init, NoPage
  <2>. QED BY <2>1 DEF PageIsTrue, UncertaintyIsNamed, ConfidentAfterARun, LoweredByTheNewestRun
<1>. QED BY <1>1, <1>2, <1>3 DEF EvidenceInv

\* Without a page nothing is said.
LEMMA NothingIsSaid ==
  ASSUME page' = NoPage
  PROVE  PageIsTrue'
<1>1. ~page'.shown
  BY DEF NoPage
<1>. QED BY <1>1 DEF PageIsTrue, UncertaintyIsNamed, ConfidentAfterARun, LoweredByTheNewestRun

\* An audit entry counts up to the number of those that a page shows.
LEMMA AuditedSteps ==
  ASSUME retried \in 0 .. Recent, NEW namesRetry, Audited(namesRetry)
  PROVE  retried' \in 0 .. Recent
<1>1. retried + 1 \in Int /\ Recent \in Int
  BY DEF Recent
<1>2. Min({Recent, retried + 1}) = IF Recent <= retried + 1 THEN Recent ELSE retried + 1
  BY <1>1, MinOfTwo
<1>. QED BY <1>2 DEF Audited, Recent

\* No step changes the type of a setting.
LEMMA SettingsStep ==
  ASSUME EvidenceInv, Next
  PROVE  Settings'
<1>1. Settings
  BY DEF EvidenceInv
<1>2. MaxReplays \in Nat /\ MaxChanges \in Nat
  BY EvidenceAssumption, Zenon
<1>3. retried' \in 0 .. Recent
  <2>1. UNCHANGED retried \/ \E namesRetry : Audited(namesRetry)
    BY Zenon DEF Next, TriggerReplay, ReadPage, Review, SendHandoff, ChangeHosts
  <2>. QED BY <1>1, <2>1, AuditedSteps DEF Settings
<1>4. triggered' \in 0 .. MaxReplays
  <2>1. UNCHANGED triggered \/ (triggered < MaxReplays /\ triggered' = triggered + 1)
    BY Zenon DEF Next, TriggerReplay, ReadPage, Review, SendHandoff, ChangeHosts
  <2>. QED BY <1>1, <1>2, <2>1 DEF Settings
<1>5. changes' \in 0 .. MaxChanges
  <2>1. UNCHANGED changes \/ (changes < MaxChanges /\ changes' = changes + 1)
    BY Zenon DEF Next, TriggerReplay, ReadPage, Review, SendHandoff, ChangeHosts, Hosts
  <2>. QED BY <1>1, <1>2, <2>1 DEF Settings
<1>6. incident' = incident
  BY DEF Next, TriggerReplay, ReadPage, Review, SendHandoff, ChangeHosts, Row
<1>7. decision' \in Decisions
  BY <1>1 DEF Settings, Next, TriggerReplay, ReadPage, Review, SendHandoff, ChangeHosts, Row
<1>8. tool' \in Tools /\ relay' \in Relays /\ enabled' \in BOOLEAN /\ runtime' = runtime
  <2>1. CASE ChangeHosts
    BY <1>1, <2>1 DEF Settings, ChangeHosts
  <2>2. CASE UNCHANGED Hosts
    BY <1>1, <2>2 DEF Settings, Hosts
  <2>. QED BY <2>1, <2>2 DEF Next, TriggerReplay, ReadPage, Review, SendHandoff
<1>. QED BY <1>1, <1>3, <1>4, <1>5, <1>6, <1>7, <1>8 DEF Settings

\* Only a replay stores a packet, and it stores one that is told.
LEMMA PacketsStep ==
  ASSUME EvidenceInv, Next
  PROVE  PacketsAreTold'
<1>1. PacketsAreTold /\ triggered \in Nat
  BY DEF EvidenceInv, Settings
<1>2. ASSUME UNCHANGED packets, triggered' = triggered \/ triggered' = triggered + 1
      PROVE  PacketsAreTold'
  <2>1. Len(packets) \in Nat
    BY <1>1 DEF PacketsAreTold
  <2>2. Len(packets) <= triggered'
    BY <1>1, <1>2, <2>1 DEF PacketsAreTold
  <2>3. packets' \in Seq(Range(packets')) /\ Len(packets') <= triggered' /\ Len(packets') <= ReplayLimit
    BY <1>1, <1>2, <2>2 DEF PacketsAreTold
  <2>4. \A i \in 1 .. Len(packets') : Told(packets'[i]) /\ Claimed(packets'[i])
    BY <1>1, <1>2 DEF PacketsAreTold
  <2>. QED BY <2>3, <2>4 DEF PacketsAreTold
<1>3. CASE TriggerReplay
  <2>1. CASE UNCHANGED packets
    BY <1>2, <1>3, <2>1 DEF TriggerReplay
  <2>2. CASE ~UNCHANGED packets
    <3>1. triggered' = triggered + 1
      BY <1>3 DEF TriggerReplay
    <3>2. PICK packet \in IF Delegates THEN LeftByRelay ELSE LeftByApp : packets' = Stored(packet)
      BY <1>3, <2>2 DEF TriggerReplay
    <3>3. Told(packet) /\ Claimed(packet)
      BY <3>2, LeftByAppIsTold, LeftByRelayIsTold
    <3>4. /\ packets' \in Seq(Range(packets'))
          /\ Len(packets') <= Len(packets) + 1 /\ Len(packets') <= ReplayLimit
          /\ \A i \in 1 .. Len(packets') :
               packets'[i] = packet \/ \E j \in 1 .. Len(packets) : packets'[i] = packets[j]
      BY <1>1, <3>2, StoredPackets
    <3>5. Len(packets') <= triggered'
      <4>1. Len(packets) \in Nat /\ Len(packets') \in Nat /\ Len(packets) <= triggered
        BY <1>1, <3>4 DEF PacketsAreTold
      <4>. QED BY <1>1, <3>1, <3>4, <4>1
    <3>6. \A i \in 1 .. Len(packets') : Told(packets'[i]) /\ Claimed(packets'[i])
      BY <1>1, <3>3, <3>4 DEF PacketsAreTold
    <3>. QED BY <3>4, <3>5, <3>6 DEF PacketsAreTold
  <2>. QED BY <2>1, <2>2
<1>4. CASE ~TriggerReplay
  <2>1. UNCHANGED <<packets, triggered>>
    BY <1>4 DEF Next, ReadPage, Review, SendHandoff, ChangeHosts, Row
  <2>. QED BY <1>2, <2>1
<1>. QED BY <1>3, <1>4

\* A page is built in one step, from the row as it is.
LEMMA PageStep ==
  ASSUME EvidenceInv, Next
  PROVE  PageIsTrue'
<1>1. CASE ReadPage
  <2>1. PICK summary \in PageSummaries : page' = PageOf(summary)
    BY <1>1 DEF ReadPage
  <2>2. UNCHANGED <<incident, packets>>
    BY <1>1 DEF ReadPage, Row
  <2>3. PacketsAreTold
    BY DEF EvidenceInv
  <2>4. /\ page'.uncertainty \in {"high uncertainty", "well-grounded", "runtime-validated", "low confidence"}
        /\ (\/ page'.diagnosed > DiagnosisConfidence(incident.posture, FALSE)
            \/ page'.uncertainty = "runtime-validated"
            \/ incident.posture # "none" /\ page'.caveat = "none") =>
             packets # <<>> /\ packets[1].host # "nowhere"
        /\ (\/ page'.risk # RiskClass(incident.severity, "")
            \/ \E i \in DOMAIN page'.fixes : page'.fixes[i].posture = "validated_runtime") =>
             /\ packets # <<>> /\ packets[1].host # "nowhere"
             /\ packets[1].summary.base.status >= 500
             /\ packets[1].summary.outcome \in {"resolved", "improved"}
    BY <2>1, <2>3, PageOfRow
  <2>5. ConfidentAfterARun'
    BY <2>2, <2>4 DEF ConfidentAfterARun
  <2>6. LoweredByTheNewestRun'
    BY <2>2, <2>4 DEF LoweredByTheNewestRun
  <2>7. UncertaintyIsNamed'
    BY <2>4, Zenon DEF UncertaintyIsNamed
  <2>. QED BY <2>5, <2>6, <2>7 DEF PageIsTrue
<1>2. CASE ~ReadPage
  <2>1. page' = NoPage
    BY <1>2 DEF Next, TriggerReplay, Review, SendHandoff, ChangeHosts
  <2>. QED BY <2>1, NothingIsSaid
<1>. QED BY <1>1, <1>2

\* The invariant, from the start and through every step.
THEOREM EvidenceIsConsistent == Spec => []EvidenceInv
<1>1. EvidenceInv /\ [Next]_vars => EvidenceInv'
  <2>1. ASSUME EvidenceInv, Next PROVE EvidenceInv'
    BY <2>1, SettingsStep, PacketsStep, PageStep DEF EvidenceInv
  <2>2. ASSUME EvidenceInv, UNCHANGED vars PROVE EvidenceInv'
    <3>1. Settings'
      BY <2>2 DEF vars, EvidenceInv, Settings
    <3>2. PacketsAreTold'
      BY <2>2 DEF vars, EvidenceInv, PacketsAreTold
    <3>3. PageIsTrue'
      <4>1. UNCHANGED <<incident, packets, page>>
        BY <2>2 DEF vars
      <4>2. /\ UncertaintyIsNamed' = UncertaintyIsNamed
            /\ ConfidentAfterARun' = ConfidentAfterARun
            /\ LoweredByTheNewestRun' = LoweredByTheNewestRun
        BY <4>1 DEF UncertaintyIsNamed, ConfidentAfterARun, LoweredByTheNewestRun
      <4>. QED BY <2>2, <4>2 DEF EvidenceInv, PageIsTrue
    <3>. QED BY <3>1, <3>2, <3>3 DEF EvidenceInv
  <2>. QED BY <2>1, <2>2
<1>. QED BY <1>1, InitEvidence, PTL DEF Spec

-----------------------------------------------------------------------------
(* What follows *)

\* Every variable has its type, and the row holds no more packets than replays
\* were triggered or than are kept.
THEOREM EvidenceTypes == Spec => []TypeOK
<1>1. EvidenceInv => TypeOK
  <2>. SUFFICES ASSUME EvidenceInv PROVE TypeOK
    OBVIOUS
  <2>1. Len(packets) <= Min({triggered, ReplayLimit})
    <3>1. ReplayLimit \in Nat \ {0}
      BY EvidenceAssumption, Zenon
    <3>2. triggered \in Int /\ ReplayLimit \in Int
      BY <3>1 DEF EvidenceInv, Settings
    <3>3. Min({triggered, ReplayLimit}) = IF triggered <= ReplayLimit THEN triggered ELSE ReplayLimit
      BY <3>2, MinOfTwo
    <3>. QED BY <3>3 DEF EvidenceInv, PacketsAreTold
  <2>. QED BY <2>1 DEF EvidenceInv, Settings, PageIsTrue, UncertaintyIsNamed, TypeOK
<1>. QED BY <1>1, EvidenceIsConsistent, PTL

\* Of every packet in the row the status, the job, the trust packet and the
\* provenance tell the host it was run on, whatever became of the hosts since.
THEOREM PacketsTellTheirHost == Spec => []StatusTellsWhereItRan
<1>1. EvidenceInv => StatusTellsWhereItRan
  BY DEF EvidenceInv, PacketsAreTold, StatusTellsWhereItRan, Told
<1>. QED BY <1>1, EvidenceIsConsistent, PTL

\* A page is more confident than the intake allows only after a run, and not
\* after an inspection by a runtime host.
THEOREM ConfidenceNeedsARun == Spec => []ConfidentAfterARun
<1>1. EvidenceInv => ConfidentAfterARun
  BY DEF EvidenceInv, PageIsTrue
<1>. QED BY <1>1, EvidenceIsConsistent, PTL

\* A page asks for less than the severity, or calls a fix validated, only on a
\* failing baseline and a better rerun that the newest replay has measured.
THEOREM ClaimsAreMeasured == Spec => []LoweredByTheNewestRun
<1>1. EvidenceInv => LoweredByTheNewestRun
  BY DEF EvidenceInv, PageIsTrue
<1>. QED BY <1>1, EvidenceIsConsistent, PTL
=============================================================================
