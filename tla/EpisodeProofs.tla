---------------------------- MODULE EpisodeProofs ----------------------------
(***************************************************************************)
(* What an episode executes, what its board says at the end and what       *)
(* lowers the risk it reports, for every catalogue, every answer of the    *)
(* models and every change of the compose tool.                            *)
(*                                                                         *)
(* The first half is about one summary, whoever builds it: the rows are    *)
(* sorted, never made up, so the outcome it reports is that of one rerun   *)
(* against the baseline.  The second half is about the chain of nodes: the *)
(* invariant says what each node has left on the board and in the review   *)
(* by the time the next one runs, or one of them has raised.               *)
(***************************************************************************)
EXTENDS Episode, TLAPS, FiniteSetTheorems

-----------------------------------------------------------------------------
(* The order of rows *)

\* A relation that compares any two of at most three and is transitive has an
\* order, so that the choice Sorted makes is one.
LEMMA OrderExists ==
  ASSUME NEW n \in 0 .. 3, NEW B \in SUBSET ((1 .. n) \X (1 .. n)),
         \A i, j \in 1 .. n : i # j => <<i, j>> \in B \/ <<j, i>> \in B,
         \A i, j, k \in 1 .. n : <<i, j>> \in B /\ <<j, k>> \in B => <<i, k>> \in B
  PROVE  Order(n, B) \in [1 .. n -> 1 .. n]
<1>. DEFINE Puts(p) == \A i, j \in 1 .. n : i < j => <<p[i], p[j]>> \in B
<1>1. \E p \in [1 .. n -> 1 .. n] : Puts(p)
  <2>1. CASE n < 2
    <3>1. \A i, j \in 1 .. n : ~(i < j)
      BY <2>1
    <3>2. [i \in 1 .. n |-> i] \in [1 .. n -> 1 .. n]
      OBVIOUS
    <3>. QED BY <3>1, <3>2
  <2>2. CASE n = 2
    <3>1. CASE <<1, 2>> \in B
      BY <2>2, <3>1, Puts([i \in 1 .. n |-> i])
    <3>2. CASE <<2, 1>> \in B
      BY <2>2, <3>2, Puts([i \in 1 .. n |-> 3 - i])
    <3>. QED BY <2>2, <3>1, <3>2
  <2>3. CASE n = 3
    <3>. DEFINE p(a, b, c) == [i \in 1 .. n |-> IF i = 1 THEN a ELSE IF i = 2 THEN b ELSE c]
    <3>1. ASSUME NEW a \in 1 .. n, NEW b \in 1 .. n, NEW c \in 1 .. n, <<a, b>> \in B, <<b, c>> \in B
          PROVE  \E q \in [1 .. n -> 1 .. n] : Puts(q)
      <4>1. p(a, b, c) \in [1 .. n -> 1 .. n]
        OBVIOUS
      <4>2. Puts(p(a, b, c))
        BY <2>3, <3>1
      <4>. QED BY <4>1, <4>2
    <3>2. \E a, b, c \in 1 .. n : <<a, b>> \in B /\ <<b, c>> \in B
      <4>1. 1 \in 1 .. n /\ 2 \in 1 .. n /\ 3 \in 1 .. n
        BY <2>3
      <4>2. /\ <<1, 2>> \in B \/ <<2, 1>> \in B
            /\ <<2, 3>> \in B \/ <<3, 2>> \in B
            /\ <<1, 3>> \in B \/ <<3, 1>> \in B
        BY <4>1
      <4>. QED BY ONLY <4>1, <4>2, Zenon
    <3>. HIDE DEF Puts
    <3>. QED BY <3>1, <3>2
  <2>. QED BY <2>1, <2>2, <2>3
<1>. QED BY <1>1 DEF Order

Signals == [status: Nat, time: Nat]
Outcomes == {"inferred_only", "validated", "resolved", "improved", "unresolved"}

\* Sorting loses and adds no check.
LEMMA SortedChecks ==
  ASSUME NEW candidates, NEW S, NEW checks \in Seq(S), Len(checks) <= 3
  PROVE  LET sorted == build_mitigation_checks(candidates, checks)
         IN sorted \in Seq(S) /\ Len(sorted) = Len(checks)
<1>. DEFINE n == Len(checks)
            Named(c) == candidates = {} \/ c.action \in candidates
            B == {q \in (1 .. n) \X (1 .. n) :
                    \/ Named(checks[q[1]]) /\ ~Named(checks[q[2]])
                    \/ ~(Named(checks[q[2]]) /\ ~Named(checks[q[1]])) /\ q[1] < q[2]}
            sorted == [k \in 1 .. n |-> checks[Order(n, B)[k]]]
<1>1. n \in 0 .. 3
  <2>1. Len(checks) \in Nat /\ Len(checks) <= 3
    OBVIOUS
  <2>2. \A m \in Nat : m <= 3 => m \in 0 .. 3
    OBVIOUS
  <2>. QED BY <2>1, <2>2
<1>a. checks \in [1 .. n -> S]
  OBVIOUS
<1>2. \A i, j \in 1 .. n : <<i, j>> \in B <=> \/ Named(checks[i]) /\ ~Named(checks[j])
                                              \/ ~(Named(checks[j]) /\ ~Named(checks[i])) /\ i < j
  OBVIOUS
<1>3. B \in SUBSET ((1 .. n) \X (1 .. n))
  OBVIOUS
<1>4. build_mitigation_checks(candidates, checks) = sorted
  BY DEF build_mitigation_checks, Sorted
<1>. HIDE DEF B, Named, n
<1>5. Order(n, B) \in [1 .. n -> 1 .. n]
  <2>1. \A i, j \in 1 .. n : i # j => <<i, j>> \in B \/ <<j, i>> \in B
    BY <1>1, <1>2
  <2>2. \A i, j, k \in 1 .. n : <<i, j>> \in B /\ <<j, k>> \in B => <<i, k>> \in B
    BY <1>1, <1>2
  <2>. QED BY <1>1, <1>3, <2>1, <2>2, OrderExists
<1>6. sorted \in Seq(S) /\ Len(sorted) = n
  BY <1>1, <1>a, <1>5
<1>. QED BY <1>4, <1>6 DEF n

\* Ranking makes up no row.
LEMMA RankedRows ==
  ASSUME NEW S, NEW rows \in Seq(S), Len(rows) <= 3,
         \A i \in 1 .. Len(rows) : rows[i].score \in Int /\ rows[i].delta \in Int
  PROVE  LET ranked == rank_runtime_mitigations(rows)
         IN /\ Len(ranked) = Len(rows)
            /\ \A k \in 1 .. Len(rows) : \E i \in 1 .. Len(rows) : ranked[k] = rows[i]
<1>. DEFINE n == Len(rows)
            B == {q \in (1 .. n) \X (1 .. n) :
                    \/ RanksAbove(rows[q[1]], rows[q[2]])
                    \/ ~RanksAbove(rows[q[2]], rows[q[1]]) /\ q[1] < q[2]}
            ranked == [k \in 1 .. n |-> rows[Order(n, B)[k]]]
<1>1. n \in 0 .. 3
  <2>1. Len(rows) \in Nat /\ Len(rows) <= 3
    OBVIOUS
  <2>2. \A m \in Nat : m <= 3 => m \in 0 .. 3
    OBVIOUS
  <2>. QED BY <2>1, <2>2
<1>a. \A i \in 1 .. n : rows[i].score \in Int /\ rows[i].delta \in Int
  OBVIOUS
<1>2. \A i, j \in 1 .. n :
        <<i, j>> \in B <=>
          \/ rows[i].score > rows[j].score
          \/ rows[i].score = rows[j].score /\ rows[i].delta > rows[j].delta
          \/ rows[i].score = rows[j].score /\ rows[i].delta = rows[j].delta /\ i < j
  <2>. SUFFICES ASSUME NEW i \in 1 .. n, NEW j \in 1 .. n
                PROVE  <<i, j>> \in B <=>
                         \/ rows[i].score > rows[j].score
                         \/ rows[i].score = rows[j].score /\ rows[i].delta > rows[j].delta
                         \/ rows[i].score = rows[j].score /\ rows[i].delta = rows[j].delta /\ i < j
    OBVIOUS
  <2>1. <<i, j>> \in B <=> \/ RanksAbove(rows[i], rows[j])
                           \/ ~RanksAbove(rows[j], rows[i]) /\ i < j
    OBVIOUS
  <2>2. /\ rows[i].score \in Int /\ rows[j].score \in Int
        /\ rows[i].delta \in Int /\ rows[j].delta \in Int
    BY <1>a
  <2>. HIDE DEF B
  <2>. QED BY ONLY <2>1, <2>2 DEF RanksAbove
<1>3. B \in SUBSET ((1 .. n) \X (1 .. n))
  OBVIOUS
<1>4. rank_runtime_mitigations(rows) = ranked
  BY DEF rank_runtime_mitigations, Sorted
<1>. HIDE DEF B, n
<1>5. Order(n, B) \in [1 .. n -> 1 .. n]
  <2>1. ASSUME NEW i \in 1 .. n, NEW j \in 1 .. n, i # j
        PROVE  <<i, j>> \in B \/ <<j, i>> \in B
    <3>1. /\ rows[i].score \in Int /\ rows[j].score \in Int
          /\ rows[i].delta \in Int /\ rows[j].delta \in Int /\ i \in Int /\ j \in Int
      BY <1>1, <1>a
    <3>2. \/ rows[i].score > rows[j].score \/ rows[j].score > rows[i].score
          \/ rows[i].score = rows[j].score /\ rows[i].delta > rows[j].delta
          \/ rows[i].score = rows[j].score /\ rows[j].delta > rows[i].delta
          \/ rows[i].score = rows[j].score /\ rows[i].delta = rows[j].delta /\ (i < j \/ j < i)
      BY ONLY <2>1, <3>1
    <3>. QED BY <1>2, <3>2
  <2>2. ASSUME NEW i \in 1 .. n, NEW j \in 1 .. n, NEW k \in 1 .. n, <<i, j>> \in B, <<j, k>> \in B
        PROVE  <<i, k>> \in B
    <3>1. /\ rows[i].score \in Int /\ rows[j].score \in Int /\ rows[k].score \in Int
          /\ rows[i].delta \in Int /\ rows[j].delta \in Int /\ rows[k].delta \in Int
          /\ i \in Int /\ j \in Int /\ k \in Int
      BY <1>1, <1>a
    <3>2. \/ rows[i].score > rows[j].score
          \/ rows[i].score = rows[j].score /\ rows[i].delta > rows[j].delta
          \/ rows[i].score = rows[j].score /\ rows[i].delta = rows[j].delta /\ i < j
      BY <1>2, <2>2
    <3>3. \/ rows[j].score > rows[k].score
          \/ rows[j].score = rows[k].score /\ rows[j].delta > rows[k].delta
          \/ rows[j].score = rows[k].score /\ rows[j].delta = rows[k].delta /\ j < k
      BY <1>2, <2>2
    <3>. HIDE <1>2
    <3>4. \/ rows[i].score > rows[k].score
          \/ rows[i].score = rows[k].score /\ rows[i].delta > rows[k].delta
          \/ rows[i].score = rows[k].score /\ rows[i].delta = rows[k].delta /\ i < k
      BY <3>1, <3>2, <3>3
    <3>. QED BY <1>2, <3>4
  <2>. QED BY <1>1, <1>3, <2>1, <2>2, OrderExists
<1>6. /\ Len(ranked) = n
      /\ \A k \in 1 .. n : \E i \in 1 .. n : ranked[k] = rows[i]
  <2>1. \A k \in 1 .. n : Order(n, B)[k] \in 1 .. n /\ ranked[k] = rows[Order(n, B)[k]]
    BY <1>5
  <2>2. Len(ranked) = n
    BY ONLY <1>1
  <2>. QED BY <2>1, <2>2, Zenon
<1>. QED BY <1>4, <1>6 DEF n

\* \div, which the provers know of positive divisors only.
LEMMA Quotient ==
  ASSUME NEW x \in Int, NEW y \in Nat, y > 0
  PROVE  x \div y \in Int
OBVIOUS

\* The score of an outcome, also when the time saved is negative.
LEMMA ScoreIsInteger ==
  ASSUME NEW o \in Outcomes, NEW b \in Signals, NEW m \in Signals
  PROVE  runtime_outcome_score(o, b, m) \in Int
<1>. DEFINE floor == CASE o = "resolved" -> 97 [] o = "improved" -> 89 [] o = "validated" -> 80
                       [] o = "unresolved" -> 62 [] o = "inferred_only" -> 0
            saved == (24 * (b.time - m.time) + b.time) \div (2 * b.time)
<1>1. floor \in Int
  BY DEF Outcomes
<1>2. b.time > 0 => saved \in Int
  <2>1. b.time \in Nat /\ m.time \in Nat
    BY DEF Signals
  <2>. SUFFICES ASSUME b.time > 0 PROVE saved \in Int OBVIOUS
  <2>2. 24 * (b.time - m.time) + b.time \in Int /\ 2 * b.time \in Nat /\ 2 * b.time > 0
    BY <2>1
  <2>. QED BY <2>2, Quotient
<1>. HIDE DEF floor, saved
<1>3. runtime_outcome_score(o, b, m) =
        LET gain == IF o \in {"resolved", "improved"} /\ b.time > 0 /\ m.time > 0
                    THEN (IF saved < 0 THEN 0 ELSE IF saved > 8 THEN 8 ELSE saved) ELSE 0
        IN IF floor + gain > 99 THEN 99 ELSE floor + gain
  BY DEF runtime_outcome_score, floor, saved
<1>. QED BY <1>1, <1>2, <1>3

\* There is a row for each rerun, with the outcome of that rerun.
LEMMA MeasuredRows ==
  ASSUME NEW base \in Signals, NEW reruns \in Seq(Signals), NEW S, NEW checks \in Seq(S),
         \A i \in 1 .. Len(checks) : checks[i].delta \in Int
  PROVE  LET rows == runtime_override_mitigations(base, reruns, checks)
         IN /\ \E R : rows \in Seq(R)
            /\ Len(rows) = Len(reruns)
            /\ \A i \in 1 .. Len(rows) : /\ rows[i].score \in Int /\ rows[i].delta \in Int
                                         /\ rows[i].outcome = runtime_outcome_class(base, reruns[i])
<1>. DEFINE Nth(i) == IF i <= Len(checks) THEN checks[i] ELSE Check("unnamed", 0)
            Outcome(i) == runtime_outcome_class(base, reruns[i])
            Row(i) == [action |-> Nth(i).action, delta |-> Nth(i).delta, outcome |-> Outcome(i),
                       score |-> runtime_outcome_score(Outcome(i), base, reruns[i])]
            rows == [i \in 1 .. Len(reruns) |-> Row(i)]
<1>1. runtime_override_mitigations(base, reruns, checks) = rows
  BY DEF runtime_override_mitigations
<1>2. ASSUME NEW i \in 1 .. Len(reruns)
      PROVE  Row(i).score \in Int /\ Row(i).delta \in Int /\ Row(i).outcome = Outcome(i)
  <2>1. Nth(i).delta \in Int
    BY DEF Check
  <2>2. Outcome(i) \in Outcomes
    BY DEF runtime_outcome_class, Outcomes
  <2>3. reruns[i] \in Signals
    OBVIOUS
  <2>4. runtime_outcome_score(Outcome(i), base, reruns[i]) \in Int
    BY <2>2, <2>3, ScoreIsInteger
  <2>. QED BY <2>1, <2>4
<1>. HIDE DEF Row
<1>3. rows \in Seq({Row(i) : i \in 1 .. Len(reruns)}) /\ Len(rows) = Len(reruns)
  OBVIOUS
<1>. QED BY <1>1, <1>2, <1>3

\* A result as a replay can leave it.
Measures(result) ==
  /\ result.given \in BOOLEAN /\ result.base \in Signals
  /\ result.reruns \in Seq(Signals) /\ Len(result.reruns) <= 3

\* A list of checks that can be ranked.
Few(checks) ==
  /\ \E S : checks \in Seq(S)
  /\ Len(checks) <= 3
  /\ \A i \in 1 .. Len(checks) : checks[i].delta \in Int

\* No branch lists more than three checks.
LEMMA FallbackChecksAreFew ==
  ASSUME NEW branch
  PROVE  Few(FallbackChecks(branch))
<1>1. ASSUME NEW a, NEW b, NEW c, a.delta \in Int, b.delta \in Int, c.delta \in Int
      PROVE  Few(<<a, b, c>>) /\ Few(<<a, b>>) /\ Few(<<a>>)
  <2>. DEFINE S == {a, b, c}
  <2>1. <<a, b, c>> \in Seq(S) /\ <<a, b>> \in Seq(S) /\ <<a>> \in Seq(S)
    OBVIOUS
  <2>2. \A d \in S : d.delta \in Int
    BY <1>1
  <2>. HIDE DEF S
  <2>. QED BY <2>1, <2>2 DEF Few
<1>2. \A a, d : Check(a, d).delta = d
  BY DEF Check
<1>3. 1 \in Int /\ 3 \in Int /\ 5 \in Int /\ 6 \in Int /\ 8 \in Int /\ 9 \in Int
  OBVIOUS
<1>4. CASE branch \in {"auth-redis", "kafka"}
  <2>1. PICK a, b, c : FallbackChecks(branch) = <<Check(a, 8), Check(b, 6), Check(c, 3)>>
    BY <1>4 DEF FallbackChecks
  <2>. QED BY ONLY <1>1, <1>2, <1>3, <2>1, Zenon
<1>5. CASE branch = "postgres"
  <2>1. PICK a, b, c : FallbackChecks(branch) = <<Check(a, 6), Check(b, 5), Check(c, 1)>>
    BY <1>5 DEF FallbackChecks
  <2>. QED BY ONLY <1>1, <1>2, <1>3, <2>1, Zenon
<1>6. CASE branch = "auth-validation"
  <2>1. PICK a, b, c : FallbackChecks(branch) = <<Check(a, 8), Check(b, 6), Check(c, 5)>>
    BY <1>6 DEF FallbackChecks
  <2>. QED BY ONLY <1>1, <1>2, <1>3, <2>1, Zenon
<1>7. CASE branch = "certificate expiry"
  <2>1. PICK a : FallbackChecks(branch) = <<Check(a, 9)>>
    BY <1>7 DEF FallbackChecks
  <2>. QED BY ONLY <1>1, <1>2, <1>3, <2>1, Zenon
<1>8. CASE branch = "memory leak"
  <2>1. PICK a, b : FallbackChecks(branch) = <<Check(a, 3), Check(b, 5)>>
    BY <1>8 DEF FallbackChecks
  <2>. QED BY ONLY <1>1, <1>2, <1>3, <2>1, Zenon
<1>9. Few(<<>>)
  BY <<>> \in Seq({}) DEF Few
<1>10. CASE branch \notin {"auth-redis", "kafka", "postgres", "auth-validation", "certificate expiry", "memory leak"}
  <2>1. FallbackChecks(branch) = <<>>
    BY <1>10 DEF FallbackChecks
  <2>. QED BY ONLY <1>9, <2>1
<1>. QED BY ONLY <1>4, <1>5, <1>6, <1>7, <1>8, <1>10

\* The best outcome of a summary is that of one of the reruns, if it says
\* anything at all.
LEMMA OutcomeIsMeasured ==
  ASSUME NEW family, NEW pack, NEW candidates, NEW seen, NEW result, Measures(result),
         NEW relay, NEW mode, NEW capability
  PROVE  LET s == build_replica_summary(family, pack, candidates, seen, result, relay, mode, capability)
         IN /\ s.executed = result.given /\ s.base = result.base
            /\ \/ s.outcome \in {"", "inferred_only"}
               \/ /\ result.given
                  /\ \E i \in 1 .. Len(result.reruns) :
                        s.outcome = runtime_outcome_class(result.base, result.reruns[i])
<1>. DEFINE fallback == FallbackChecks(Branch(family, pack))
            checks == build_mitigation_checks(candidates, fallback)
            tested == TestedMitigations(result, checks)
            measured == runtime_override_mitigations(result.base, result.reruns, checks)
            s == build_replica_summary(family, pack, candidates, seen, result, relay, mode, capability)
            Told(outcome) == \/ outcome \in {"", "inferred_only"}
                             \/ /\ result.given
                                /\ \E i \in 1 .. Len(result.reruns) :
                                     outcome = runtime_outcome_class(result.base, result.reruns[i])
<1>1. /\ s.executed = result.given /\ s.base = result.base
      /\ s.outcome = IF Len(tested) > 0 THEN tested[1].outcome ELSE ""
  BY DEF build_replica_summary
<1>2. /\ \E S : checks \in Seq(S)
      /\ \A i \in 1 .. Len(checks) : checks[i].delta \in Int
  <2>. HIDE DEF fallback
  <2>1. Few(fallback)
    BY FallbackChecksAreFew DEF fallback
  <2>2. PICK R : fallback \in Seq(R)
    BY <2>1 DEF Few
  <2>. DEFINE S == {c \in R : c.delta \in Int}
  <2>3. fallback \in Seq(S) /\ Len(fallback) <= 3
    BY <2>1, <2>2 DEF Few
  <2>. HIDE DEF S
  <2>4. checks \in Seq(S)
    BY <2>3, SortedChecks
  <2>. HIDE DEF checks
  <2>5. \A i \in 1 .. Len(checks) : checks[i] \in S
    BY <2>4
  <2>. QED BY <2>4, <2>5 DEF S
<1>. HIDE DEF checks, s
<1>3. ASSUME Len(tested) > 0 PROVE Told(tested[1].outcome)
  <2>1. CASE result.given /\ result.reruns # <<>>
    <3>1. tested = rank_runtime_mitigations(measured)
      BY <2>1 DEF TestedMitigations
    <3>. result.base \in Signals /\ result.reruns \in Seq(Signals) /\ Len(result.reruns) <= 3
      BY DEF Measures
    <3>1a. PICK S : checks \in Seq(S)
      BY <1>2
    <3>2. /\ \E R : measured \in Seq(R)
          /\ Len(measured) = Len(result.reruns)
          /\ \A i \in 1 .. Len(measured) :
                /\ measured[i].score \in Int /\ measured[i].delta \in Int
                /\ measured[i].outcome = runtime_outcome_class(result.base, result.reruns[i])
      BY <1>2, <3>1a, MeasuredRows
    <3>. HIDE DEF measured, tested
    <3>3. /\ Len(tested) = Len(measured)
          /\ \A k \in 1 .. Len(measured) : \E i \in 1 .. Len(measured) : tested[k] = measured[i]
      BY <3>1, <3>2, RankedRows
    <3>4. Len(result.reruns) \in Nat /\ Len(result.reruns) > 0
      BY <1>3, <3>2, <3>3
    <3>5. PICK i \in 1 .. Len(measured) : tested[1] = measured[i]
      BY <3>2, <3>3, <3>4
    <3>. QED BY <2>1, <3>2, <3>5
  <2>2. CASE ~(result.given /\ result.reruns # <<>>)
    <3>1. tested = Unmeasured(checks)
      BY <2>2 DEF TestedMitigations
    <3>2. tested[1].outcome = "inferred_only"
      BY <1>2, <1>3, <3>1 DEF Unmeasured
    <3>. QED BY <3>2
  <2>. QED BY <2>1, <2>2
<1>4. Told("")
  OBVIOUS
<1>. HIDE DEF tested, Told
<1>5. Told(s.outcome)
  BY <1>1, <1>3, <1>4
<1>. QED BY <1>1, <1>5 DEF s, Told

\* What an outcome that lowers a risk says of the summary it is the best of.
Gained(s) ==
  /\ s.outcome = "resolved" => s.executed /\ s.base.status >= 500
  /\ s.outcome = "improved" => s.executed /\ s.base.status > 0

\* A summary whose best outcome is "resolved" has been executed, from a baseline
\* that failed; one that was improved has a baseline that answered.
LEMMA ResolvedFromAFailure ==
  ASSUME NEW family, NEW pack, NEW candidates, NEW seen, NEW result, Measures(result),
         NEW relay, NEW mode, NEW capability
  PROVE  LET s == build_replica_summary(family, pack, candidates, seen, result, relay, mode, capability)
         IN Gained(s)
<1>. DEFINE s == build_replica_summary(family, pack, candidates, seen, result, relay, mode, capability)
<1>1. /\ s.executed = result.given /\ s.base = result.base
      /\ \/ s.outcome \in {"", "inferred_only"}
         \/ /\ result.given
            /\ \E i \in 1 .. Len(result.reruns) :
                  s.outcome = runtime_outcome_class(result.base, result.reruns[i])
  BY OutcomeIsMeasured
<1>2. \A mit : runtime_outcome_class(result.base, mit) = "resolved" => result.base.status >= 500
  BY DEF runtime_outcome_class
<1>3. \A mit : runtime_outcome_class(result.base, mit) = "improved" => result.base.status > 0
  <2>1. result.base.status \in Nat
    BY DEF Measures, Signals
  <2>. QED BY <2>1 DEF runtime_outcome_class
<1>. HIDE DEF s
<1>4. Gained(s)
  BY <1>1, <1>2, <1>3 DEF Gained
<1>. QED BY <1>4 DEF s

\* The two packs that are copies can never run.
LEMMA PacksThatRun ==
  ASSUME NEW pack \in Packs, ~AssetsMissing(pack)
  PROVE  pack \in {"auth-redis", "postgres", "catalog"}
<1>1. AssetsMissing("auth-validation")
  BY DEF AssetsMissing, MitigationHooks, HookScripts, ToSet
<1>2. AssetsMissing("kafka")
  BY DEF AssetsMissing, MitigationHooks, HookScripts, ToSet
<1>. QED BY <1>1, <1>2 DEF Packs

\* What a run of any pack measures is a result, whether it was disturbed or not.
LEMMA RunsMeasure ==
  ASSUME NEW pack \in Packs, ~AssetsMissing(pack)
  PROVE  /\ Measures(Measured(pack)) /\ Measures(Disturbed(pack))
         /\ Measures(NoResult) /\ Measures(Result(NoSignal, <<>>))
<1>1. pack \in {"auth-redis", "postgres", "catalog"}
  BY PacksThatRun
<1>. DEFINE hooks == MitigationHooks(pack)
            n == Len(hooks)
<1>2. \A d \in RuntimeDirs(pack) : ReplaySignal(pack, d, TRUE) \in Signals
  BY <1>1 DEF RuntimeDirs, ReplaySignal, NoSignal, GatewayAnswer, CheckoutAnswer, Signals
<1>3. n \in {2, 3}
  BY <1>1 DEF MitigationHooks
<1>4. Defaults(pack) \in RuntimeDirs(pack)
  BY <1>1 DEF Defaults, RuntimeDirs
<1>5. ASSUME NEW d \in RuntimeDirs(pack), NEW i \in 1 .. n
      PROVE  ApplyHook(hooks[i], d) \in RuntimeDirs(pack)
  <2>1. CASE pack = "auth-redis"
    <3>1. hooks[i] \in {"cap_retries", "open_circuit_breaker", "disable_retry_middleware"}
      BY <2>1 DEF MitigationHooks
    <3>2. d \in [retries: {1, 4}, middleware: BOOLEAN, breaker: {"open", "closed"}]
      BY <2>1 DEF RuntimeDirs
    <3>. HIDE DEF hooks
    <3>3. ApplyHook(hooks[i], d) \in [retries: {1, 4}, middleware: BOOLEAN, breaker: {"open", "closed"}]
      BY <3>1, <3>2 DEF ApplyHook
    <3>. QED BY <2>1, <3>3 DEF RuntimeDirs
  <2>2. CASE pack = "postgres"
    <3>1. hooks[i] \in {"terminate_orphaned_sessions", "rollback_retry_patch", "restart_checkout_service"}
      BY <2>2 DEF MitigationHooks
    <3>2. d \in [leak: BOOLEAN, exhausted: BOOLEAN]
      BY <2>2 DEF RuntimeDirs
    <3>. HIDE DEF hooks
    <3>3. ApplyHook(hooks[i], d) \in [leak: BOOLEAN, exhausted: BOOLEAN]
      BY <3>1, <3>2 DEF ApplyHook
    <3>. QED BY <2>2, <3>3 DEF RuntimeDirs
  <2>3. CASE pack = "catalog"
    <3>1. hooks[i] \in {"rollback_catalog_optimization", "deploy_null_check_hotfix"}
      BY <2>3 DEF MitigationHooks
    <3>. HIDE DEF hooks
    <3>2. ApplyHook(hooks[i], d) = d
      BY <3>1 DEF ApplyHook
    <3>. QED BY <3>2
  <2>. QED BY <1>1, <2>1, <2>2, <2>3
<1>6. \A i \in 0 .. n : DirAfter(pack, i) \in RuntimeDirs(pack)
  <2>. HIDE DEF n
  <2>1. 1 \in 1 .. n /\ 2 \in 1 .. n /\ (n = 3 => 3 \in 1 .. n)
    BY <1>3
  <2>2. ApplyHook(hooks[1], Defaults(pack)) \in RuntimeDirs(pack)
    BY <1>4, <1>5, <2>1
  <2>3. ApplyHook(hooks[2], ApplyHook(hooks[1], Defaults(pack))) \in RuntimeDirs(pack)
    BY <1>5, <2>1, <2>2
  <2>4. n = 3 => ApplyHook(hooks[3], ApplyHook(hooks[2], ApplyHook(hooks[1], Defaults(pack)))) \in RuntimeDirs(pack)
    BY <1>5, <2>1, <2>3
  <2>. QED BY <1>3, <1>4, <2>2, <2>3, <2>4 DEF DirAfter
<1>7. Unreachable \in Signals /\ NoSignal \in Signals
  BY DEF Unreachable, NoSignal, Signals
<1>8. ASSUME NEW base \in Signals, NEW f \in [1 .. n -> Signals]
      PROVE  Measures(Result(base, f))
  <2>. HIDE DEF n
  <2>1. f \in Seq(Signals) /\ Len(f) = n
    BY <1>3
  <2>. QED BY <1>3, <2>1 DEF Measures, Result
<1>. HIDE DEF n
<1>a. 0 \in 0 .. n /\ 1 .. n \subseteq 0 .. n
  BY <1>3
<1>9. Measures(Measured(pack))
  <2>1. ReplaySignal(pack, DirAfter(pack, 0), TRUE) \in Signals
    BY <1>2, <1>6, <1>a
  <2>2. [i \in 1 .. n |-> ReplaySignal(pack, DirAfter(pack, i), TRUE)] \in [1 .. n -> Signals]
    BY <1>2, <1>6, <1>a
  <2>. QED BY <1>8, <2>1, <2>2 DEF Measured, n
<1>10. Measures(Disturbed(pack))
  <2>1. [i \in 1 .. n |-> ReplaySignal(pack, Defaults(pack), TRUE)] \in [1 .. n -> Signals]
    BY <1>2, <1>4
  <2>. QED BY <1>7, <1>8, <2>1 DEF Disturbed, n
<1>11. Measures(NoResult) /\ Measures(Result(NoSignal, <<>>))
  BY <1>7 DEF Measures, Result, NoResult
<1>. QED BY <1>9, <1>10, <1>11

-----------------------------------------------------------------------------
(* Numbers *)

\* The larger of two.
LEMMA MaxOfTwo ==
  ASSUME NEW a \in Int, NEW b \in Int
  PROVE  Max({a, b}) = IF a >= b THEN a ELSE b
BY DEF Max

\* The smaller of two.
LEMMA MinOfTwo ==
  ASSUME NEW a \in Int, NEW b \in Int
  PROVE  Min({a, b}) = IF a <= b THEN a ELSE b
BY DEF Min

\* Any label has a rank, from P0 to P9.
LEMMA RankIsDigit ==
  ASSUME NEW label
  PROVE  priority_rank(label) \in 0 .. 9
<1>. DEFINE normal == normalize_priority_label(label)
<1>1. ASSUME normal \in DigitLabels PROVE \E n \in Digits : DigitLabel(n) = normal
  BY <1>1 DEF DigitLabels, Digits, DigitLabel
<1>2. priority_rank(label) = IF normal \in DigitLabels THEN CHOOSE n \in Digits : DigitLabel(n) = normal ELSE 3
  BY DEF priority_rank
<1>. HIDE DEF normal
<1>. QED BY <1>1, <1>2 DEF Digits

-----------------------------------------------------------------------------
(* The invariant *)

\* The nodes that run after each of these have run.
AfterReview     == {"finalize", "done"}
AfterForge      == {"guardian"} \cup AfterReview
AfterHistory    == {"prism_synthesize", "forge"} \cup AfterForge
AfterDeployment == {"prism_history"} \cup AfterHistory
AfterEvidence   == {"prism_deployment"} \cup AfterDeployment
AfterSentinel   == {"prism_plan", "prism_evidence"} \cup AfterEvidence

Decisions == {"approve", "reject", "request_modification"}
Undecided == Decisions \cup {""}
Memories == [found: BOOLEAN, near: {0, 40}, similarity: 0 .. 99, success: 0 .. 99]
Plans == Runbooks \cup {NoPlan}
Diagnoses == [confidence: 0 .. 100, right: BOOLEAN,
              reading: Readings \cup {[family |-> "", pack |-> NoPack]}]
Rewards == 0 .. 1200

Shapes ==
  /\ incident \in Incidents /\ live \in BOOLEAN /\ runtime \in BOOLEAN
  /\ tool \in Tools /\ changes \in 0 .. MaxChanges
  /\ board \in [Tasks -> Statuses]
  /\ memory \in Memories
  /\ diagnosis \in Diagnoses
  /\ plan \in Plans
  /\ review.decision \in Undecided
  /\ report.reward \in Rewards

\* What the nodes that have run have written on the board.
Written ==
  /\ node \in AfterSentinel => board["sentinel-classify"] = "completed"
  /\ node \in AfterEvidence => board["prism-evidence"] = "completed"
  /\ node \in AfterDeployment => board["prism-deployment"] = "completed"
  /\ node \in AfterHistory => board["prism-history"] = IF memory.found THEN "completed" ELSE "fallback"
  /\ node \in AfterForge => /\ board["replica-validate"] \in {"reproduced", "not_run"}
                            /\ board["trace-debug"] \in {"narrowed", "completed_with_inference"}
                            /\ board["forge-plan"] = "completed"
  /\ node \in AfterReview =>
        board["guardian-policy"] = IF review.decision = "approve" THEN "completed" ELSE "blocked"

\* The plan that is reviewed is the one that is executed, and nothing that the
\* review depends on has changed since.
Vetted ==
  /\ node \in {"forge"} \cup AfterForge => diagnosis.reading \in Readings
  /\ node \in AfterForge => plan \in Runbooks /\ plan.valid
  /\ node \in AfterReview =>
        /\ review.decision = Review(sentinel.severity, diagnosis.confidence, plan.blocked, plan.valid)
        /\ review.rollback = IF review.decision = "approve" THEN "ready" ELSE "needs_review"
  /\ Done => /\ report.executed = (review.decision = "approve")
             /\ report.status = IF report.executed /\ plan.valid THEN "resolved" ELSE "blocked_by_guardian"
             /\ report.branches = BranchRate

\* A review is of the summary that is shown with it.
RiskOfSummary ==
  \/ review = Unreviewed
  \/ /\ node \in {"finalize", "done", "raised", "hung"}
     /\ \E decision \in Decisions : review = Reviewed(decision, shown.guardian)
     /\ Gained(shown.guardian)

EpisodeInv == Shapes /\ Written /\ Vetted /\ RiskOfSummary

\* A memory stays one, however often it is enriched.
LEMMA EnrichedMemory ==
  ASSUME NEW m \in Memories, NEW summary
  PROVE  /\ enrich_memory_with_runtime(m, summary) \in Memories
         /\ enrich_memory_with_runtime(m, summary).found = m.found
<1>1. ASSUME NEW v \in 0 .. 99, NEW by \in 0 .. 10
      PROVE  Boost(v, by) \in 0 .. 99
  <2>. DEFINE sum == v + by
  <2>1. sum \in Int /\ sum >= 0
    OBVIOUS
  <2>. HIDE DEF sum
  <2>2. Min({99, sum}) = IF 99 <= sum THEN 99 ELSE sum
    BY <2>1, MinOfTwo
  <2>3. Min({99, sum}) \in 0 .. 99
    BY <2>1, <2>2
  <2>. QED BY <2>3 DEF Boost, sum
<1>2. EnrichedSimilarity(m, summary) \in 0 .. 99
  <2>1. m.similarity \in 0 .. 99
    BY DEF Memories
  <2>2. Boost(m.similarity, 4) \in 0 .. 99
    <3>. 4 \in 0 .. 10
      OBVIOUS
    <3>. QED BY <1>1, <2>1, Zenon
  <2>3. Boost(Boost(m.similarity, 4), 6) \in 0 .. 99
    <3>. 6 \in 0 .. 10
      OBVIOUS
    <3>. QED BY <1>1, <2>2, Zenon
  <2>. QED BY <2>1, <2>2, <2>3 DEF EnrichedSimilarity
<1>3. EnrichedSuccess(m, summary) \in 0 .. 99
  <2>1. m.success \in 0 .. 99
    BY DEF Memories
  <2>2. Boost(m.success, 4) \in 0 .. 99
    <3>. 4 \in 0 .. 10
      OBVIOUS
    <3>. QED BY <1>1, <2>1, Zenon
  <2>. QED BY <2>1, <2>2 DEF EnrichedSuccess
<1>. QED BY <1>2, <1>3 DEF enrich_memory_with_runtime, Memories

\* What is known of an entry of the catalogue.
LEMMA CatalogueEntry ==
  ASSUME NEW i \in Incidents
  PROVE  i.minutes \in Int /\ i.pack \in Packs \cup {NoPack}
<1>1. i \in [family: Families, pack: Packs \cup {NoPack}, severity: {"P0", "P1", "P2"},
             minutes: {6, 10, 15, 22}]
  BY EpisodeAssumption
<1>2. i.minutes \in {6, 10, 15, 22} /\ i.pack \in Packs \cup {NoPack}
  BY <1>1
<1>. QED BY <1>2

\* What a failure can be read for.
LEMMA ReadingsKnown ==
  ASSUME NEW d \in Readings
  PROVE  d.pack \in Packs \cup {NoPack}
<1>1. PICK i \in Incidents : d = [family |-> i.family, pack |-> i.pack]
  BY DEF Readings
<1>. QED BY <1>1, CatalogueEntry

\* The reward is within its bounds for any penalty.
LEMMA RewardIsBounded ==
  ASSUME Shapes, NEW executed \in BOOLEAN, NEW right \in BOOLEAN
  PROVE  Reward(executed, right, SeverityPenalty(sentinel.severity, incident.severity)) \in Rewards
<1>1. SeverityPenalty(sentinel.severity, incident.severity) \in Int
  <2>1. priority_rank(sentinel.severity) \in Int /\ priority_rank(incident.severity) \in Int
    BY RankIsDigit
  <2>. QED BY <2>1 DEF SeverityPenalty
<1>2. \A penalty \in Int : Reward(executed, right, penalty) \in Rewards
  <2>. TAKE penalty \in Int
  <2>1. incident.minutes \in Int
    BY CatalogueEntry DEF Shapes
  <2>. DEFINE minutes == IF executed THEN incident.minutes ELSE incident.minutes + 8
              sum == 12 * (30 - minutes) + (IF right THEN 300 ELSE 0)
                       + (IF executed THEN 220 ELSE 0) + 180 + (IF executed THEN 60 ELSE 30)
              x == sum - 12 * penalty
  <2>2. x \in Int
    BY <2>1
  <2>3. Reward(executed, right, penalty) = Min({1200, Max({0, x})})
    BY DEF Reward
  <2>. HIDE DEF x
  <2>4. Max({0, x}) = IF 0 >= x THEN 0 ELSE x
    BY <2>2, MaxOfTwo
  <2>. DEFINE floored == Max({0, x})
  <2>5. floored \in Int /\ floored >= 0
    BY <2>2, <2>4
  <2>. HIDE DEF floored
  <2>6. Min({1200, floored}) = IF 1200 <= floored THEN 1200 ELSE floored
    BY <2>5, MinOfTwo
  <2>7. Min({1200, floored}) \in Rewards
    BY <2>5, <2>6 DEF Rewards
  <2>. QED BY <2>3, <2>7 DEF floored
<1>. QED BY ONLY <1>1, <1>2, Zenon

\* A review has one of three outcomes.
LEMMA ReviewDecides ==
  ASSUME NEW severity, NEW confidence, NEW blocked, NEW valid
  PROVE  Review(severity, confidence, blocked, valid) \in Decisions
BY DEF Review, Decisions

\* Only what these say of a summary is used below.
LEMMA SummaryNow ==
  ASSUME Shapes, diagnosis.reading \in Readings,
         NEW action \in Actions, NEW summary \in SummariesNow(action)
  PROVE  Gained(summary)
<1>. DEFINE d == diagnosis.reading
<1>0. d \in Readings
  OBVIOUS
<1>1. PICK result \in Results(runtime, tool, d.pack) :
         summary = build_replica_summary(d.family, d.pack, {action},
                                         SeenWith(tool, d.pack), result, FALSE, "", "")
  <2>1. tool \in Tools /\ runtime \in BOOLEAN
    BY DEF Shapes
  <2>. QED BY <1>0, <2>1 DEF SummariesNow, Summaries
<1>2. Measures(result)
  <2>1. CASE ExecutesWith(runtime, tool, d.pack)
    <3>1. d.pack \in Packs /\ ~AssetsMissing(d.pack)
      BY <1>0, <2>1, ReadingsKnown DEF ExecutesWith
    <3>. QED BY <2>1, <3>1, RunsMeasure DEF Results
  <2>2. CASE ~ExecutesWith(runtime, tool, d.pack)
    <3>1. result = NoResult
      BY <2>2 DEF Results
    <3>. QED BY <3>1 DEF Measures, NoResult, NoSignal, Signals
  <2>. QED BY <2>1, <2>2
<1>. DEFINE family == d.family
            pack == d.pack
            seen == SeenWith(tool, d.pack)
            candidates == {action}
            none == ""
            relay == FALSE
            s == build_replica_summary(family, pack, candidates, seen, result, relay, none, none)
<1>. HIDE DEF family, pack, seen, candidates, none, relay
<1>3. Gained(s)
  BY <1>2, ResolvedFromAFailure
<1>4. summary = s
  BY <1>1 DEF family, pack, seen, candidates, none, relay
<1>. HIDE DEF s
<1>. QED BY <1>3, <1>4

\* Before there is a diagnosis.
LEMMA UndiagnosedTyped == Undiagnosed \in Diagnoses
BY DEF Undiagnosed, Diagnoses

\* The invariant holds of a fresh episode.
LEMMA InitEpisode == Init => EpisodeInv
<1>. SUFFICES ASSUME Init PROVE EpisodeInv
  OBVIOUS
<1>1. Shapes
  <2>1. board \in [Tasks -> Statuses]
    BY DEF Init, Statuses
  <2>2. NoMemory \in Memories
    <3>1. FALSE \in BOOLEAN
      OBVIOUS
    <3>2. 0 \in {0, 40} /\ 0 \in 0 .. 99
      OBVIOUS
    <3>. QED BY <3>1, <3>2, Zenon DEF Memories, NoMemory
  <2>3. memory \in Memories
    BY <2>2, Zenon DEF Init
  <2>4. plan \in Plans
    BY Zenon DEF Init, Plans
  <2>9. diagnosis \in Diagnoses
    BY UndiagnosedTyped DEF Init
  <2>5. changes = 0 /\ review.decision = "" /\ report.reward = 0
    BY DEF Init, Unreviewed, NoReport
  <2>8. review.decision \in Undecided
    BY <2>5 DEF Undecided
  <2>6. changes \in 0 .. MaxChanges /\ report.reward \in Rewards
    <3>1. MaxChanges \in Nat
      BY EpisodeAssumption
    <3>2. 0 \in 0 .. MaxChanges /\ 0 \in Rewards
      BY <3>1 DEF Rewards
    <3>. QED BY ONLY <2>5, <3>2, Zenon
  <2>7. incident \in Incidents /\ live \in BOOLEAN /\ runtime \in BOOLEAN /\ tool \in Tools
    BY DEF Init, Tools
  <2>. QED BY <2>1, <2>3, <2>4, <2>6, <2>7, <2>8, <2>9, Zenon DEF Shapes
<1>2. node = "fetch_context" /\ review = Unreviewed
  BY DEF Init
<1>3. Written /\ Vetted /\ RiskOfSummary
  BY <1>2 DEF Written, Vetted, RiskOfSummary, Done, AfterReview, AfterForge, AfterHistory, AfterDeployment,
              AfterEvidence, AfterSentinel
<1>. QED BY <1>1, <1>3 DEF EpisodeInv

-----------------------------------------------------------------------------
(* One step *)

\* A node that raises leaves what it found.
LEMMA RaisingKeeps ==
  ASSUME EpisodeInv, Raises
  PROVE  EpisodeInv'
<1>1. Shapes'
  BY DEF EpisodeInv, Raises, Host, Shapes
<1>2. node' = "raised"
  BY DEF Raises
<1>3. (Written /\ Vetted)'
  BY <1>2 DEF Written, Vetted, Done, AfterReview, AfterForge, AfterHistory, AfterDeployment,
              AfterEvidence, AfterSentinel
<1>4. RiskOfSummary'
  BY <1>2 DEF EpisodeInv, Raises, RiskOfSummary, Reviewed
<1>. QED BY <1>1, <1>3, <1>4 DEF EpisodeInv

\* So does one that never returns.
LEMMA HangingKeeps ==
  ASSUME EpisodeInv, Hangs
  PROVE  EpisodeInv'
<1>1. Shapes'
  BY DEF EpisodeInv, Hangs, Host, Shapes
<1>2. node' = "hung"
  BY DEF Hangs
<1>3. (Written /\ Vetted)'
  BY <1>2 DEF Written, Vetted, Done, AfterReview, AfterForge, AfterHistory, AfterDeployment,
              AfterEvidence, AfterSentinel
<1>4. RiskOfSummary'
  BY <1>2 DEF EpisodeInv, Hangs, RiskOfSummary, Reviewed
<1>. QED BY <1>1, <1>3, <1>4 DEF EpisodeInv

\* A diagnosis is read for something, whoever made it.
LEMMA Diagnosed ==
  ASSUME Shapes, prism_synthesize_node, ~Raises
  PROVE  diagnosis' \in Diagnoses /\ diagnosis'.reading \in Readings
<1>1. PICK c \in Confidences : \E cause \in Causes :
         diagnosis' = [confidence |-> c, right |-> cause.right, reading |-> cause.reading]
  BY DEF prism_synthesize_node
<1>2. PICK cause \in Causes :
         diagnosis' = [confidence |-> c, right |-> cause.right, reading |-> cause.reading]
  BY <1>1
<1>3. Reading(incident) \in Readings
  BY DEF Shapes, Reading, Readings
<1>4. cause.right \in BOOLEAN /\ cause.reading \in Readings
  <2>1. CASE cause = [right |-> TRUE, reading |-> Reading(incident)]
    BY <1>3, <2>1
  <2>2. CASE cause \in [right : {FALSE}, reading : Readings]
    BY <2>2
  <2>. QED BY <2>1, <2>2 DEF Causes
<1>5. c \in 0 .. 100
  BY EpisodeAssumption
<1>. QED BY <1>2, <1>4, <1>5 DEF Diagnoses

\* Each node writes values of the right kind.
LEMMA ShapesStep ==
  ASSUME EpisodeInv, Next
  PROVE  Shapes'
<1>. USE DEF Host
<1>1. Shapes
  BY DEF EpisodeInv
<1>2. NoMemory \in Memories /\ NoPlan \in Plans
  <2>1. FALSE \in BOOLEAN
    OBVIOUS
  <2>2. 0 \in {0, 40} /\ 0 \in 0 .. 99
    OBVIOUS
  <2>. QED BY <2>1, <2>2, Zenon DEF Memories, NoMemory, Plans
<1>3. CASE fetch_context_node
  <2>1. board' \in [Tasks -> Statuses]
    BY <1>1, <1>3 DEF fetch_context_node, Marks, Shapes, Statuses
  <2>. QED BY <1>1, <1>3, <2>1 DEF fetch_context_node, Shapes
<1>4. CASE sentinel_node
  <2>1. board' \in [Tasks -> Statuses]
    <3>1. Marks([t \in {"sentinel-classify"} |-> "completed"])
      BY <1>4, Zenon DEF sentinel_node
    <3>. QED BY <1>1, <3>1 DEF Marks, Shapes, Statuses
  <2>2. UNCHANGED <<Host, memory, diagnosis, plan, review, report>>
    BY <1>4, Zenon DEF sentinel_node
  <2>. QED BY <1>1, <2>1, <2>2 DEF Shapes
<1>5. CASE prism_plan_node
  <2>1. board' \in [Tasks -> Statuses]
    BY <1>1, <1>5 DEF prism_plan_node, Marks, Shapes, Statuses
  <2>. QED BY <1>1, <1>5, <2>1 DEF prism_plan_node, Shapes
<1>6. CASE prism_evidence_node
  <2>1. board' \in [Tasks -> Statuses]
    BY <1>1, <1>6 DEF prism_evidence_node, Marks, Shapes, Statuses
  <2>. QED BY <1>1, <1>6, <2>1 DEF prism_evidence_node, Shapes
<1>7. CASE prism_deployment_node
  <2>1. board' \in [Tasks -> Statuses]
    BY <1>1, <1>7 DEF prism_deployment_node, Marks, Shapes, Statuses
  <2>. QED BY <1>1, <1>7, <2>1 DEF prism_deployment_node, Shapes
<1>8. CASE prism_history_node
  <2>1. [found: {TRUE}, near: {0, 40}, similarity: {93}, success: {80}] \subseteq Memories
    <3>1. {TRUE} \subseteq BOOLEAN /\ {93} \subseteq 0 .. 99 /\ {80} \subseteq 0 .. 99
      OBVIOUS
    <3>. QED BY <3>1 DEF Memories
  <2>2. memory' \in Memories
    BY <1>2, <1>8, <2>1 DEF prism_history_node
  <2>3. board' \in [Tasks -> Statuses]
    <3>1. PICK status \in {"completed", "fallback"} : Marks([t \in {"prism-history"} |-> status])
      BY <1>8 DEF prism_history_node
    <3>. QED BY <1>1, <3>1 DEF Marks, Shapes, Statuses
  <2>. QED BY <1>1, <1>8, <2>2, <2>3 DEF prism_history_node, Shapes
<1>9. CASE prism_synthesize_node
  <2>1. CASE Raises
    BY <2>1, RaisingKeeps DEF EpisodeInv
  <2>2. CASE ~Raises
    <3>1. UNCHANGED <<Host, board, memory, plan, review, report>>
      BY <1>9, <2>2 DEF prism_synthesize_node
    <3>2. diagnosis' \in Diagnoses /\ diagnosis'.reading \in Readings
      BY <1>1, <1>9, <2>2, Diagnosed
    <3>. QED BY <1>1, <3>1, <3>2 DEF Shapes
  <2>. QED BY <2>1, <2>2
<1>10. CASE forge_node
  <2>1. CASE Raises
    BY <2>1, RaisingKeeps DEF EpisodeInv
  <2>2. CASE ~Raises
    <3>1. PICK p \in Runbooks : \E summary \in SummariesNow(p.action) :
            /\ plan' = p
            /\ memory' = IF memory.found THEN enrich_memory_with_runtime(memory, summary) ELSE memory
            /\ Marks([t \in {"replica-validate", "trace-debug", "forge-plan"} |->
                           CASE t = "replica-validate" -> IF summary.reproduced THEN "reproduced" ELSE "not_run"
                             [] t = "trace-debug" -> TraceStatus(summary)
                             [] OTHER -> "completed"])
            /\ UNCHANGED <<Host, diagnosis, review, report>>
      <4>1. FixedRunbook \in Runbooks
        BY DEF FixedRunbook, Runbooks, Actions
      <4>. QED BY <1>10, <2>2, <4>1 DEF forge_node
    <3>2. PICK summary \in SummariesNow(p.action) :
            /\ plan' = p
            /\ memory' = IF memory.found THEN enrich_memory_with_runtime(memory, summary) ELSE memory
            /\ Marks([t \in {"replica-validate", "trace-debug", "forge-plan"} |->
                           CASE t = "replica-validate" -> IF summary.reproduced THEN "reproduced" ELSE "not_run"
                             [] t = "trace-debug" -> TraceStatus(summary)
                             [] OTHER -> "completed"])
            /\ UNCHANGED <<Host, diagnosis, review, report>>
      BY <3>1
    <3>3. memory' \in Memories
      BY <1>1, <3>2, EnrichedMemory DEF Shapes
    <3>4. board' \in [Tasks -> Statuses]
      <4>1. PICK reproduced \in {"reproduced", "not_run"}, traced \in {"narrowed", "completed_with_inference"} :
              Marks([t \in {"replica-validate", "trace-debug", "forge-plan"} |->
                       CASE t = "replica-validate" -> reproduced
                         [] t = "trace-debug" -> traced
                         [] OTHER -> "completed"])
        BY <3>2 DEF TraceStatus
      <4>2. board \in [Tasks -> Statuses]
        BY <1>1 DEF Shapes
      <4>. QED BY <4>1, <4>2 DEF Marks, Statuses
    <3>. QED BY <1>1, <3>2, <3>3, <3>4 DEF Shapes, Plans
  <2>. QED BY <2>1, <2>2
<1>11. CASE guardian_node
  <2>1. review'.decision \in Undecided
    <3>1. PICK decision \in Decisions : \E summary : review' = Reviewed(decision, summary)
      BY <1>11, ReviewDecides, Zenon DEF guardian_node
    <3>2. PICK summary : review' = Reviewed(decision, summary)
      BY <3>1
    <3>. QED BY <3>2 DEF Reviewed, Undecided
  <2>2. board' \in [Tasks -> Statuses]
    <3>1. PICK status \in {"completed", "blocked"} : Marks([t \in {"guardian-policy"} |-> status])
      BY <1>11 DEF guardian_node
    <3>. QED BY <1>1, <3>1 DEF Marks, Shapes, Statuses
  <2>. QED BY <1>1, <1>11, <2>1, <2>2 DEF guardian_node, Shapes
<1>12. CASE finalize_node
  <2>1. CASE Raises
    BY <2>1, RaisingKeeps DEF EpisodeInv
  <2>2. CASE ~Raises
    <3>. DEFINE executed == review.decision = "approve"
    <3>1. PICK summary \in SummariesNow(plan.action) :
            /\ memory' = IF memory.found THEN enrich_memory_with_runtime(memory, summary) ELSE memory
            /\ report'.reward = Reward(executed, diagnosis.right, SeverityPenalty(sentinel.severity, incident.severity))
            /\ UNCHANGED <<Host, board, diagnosis, plan, review>>
      BY <1>12, <2>2 DEF finalize_node
    <3>2. memory' \in Memories
      BY <1>1, <3>1, EnrichedMemory DEF Shapes
    <3>3. report'.reward \in Rewards
      <4>1. executed \in BOOLEAN
        OBVIOUS
      <4>. HIDE DEF executed
      <4>3. diagnosis.right \in BOOLEAN
        BY <1>1 DEF Shapes, Diagnoses
      <4>2. Reward(executed, diagnosis.right, SeverityPenalty(sentinel.severity, incident.severity)) \in Rewards
        BY <1>1, <4>1, <4>3, RewardIsBounded
      <4>. QED BY ONLY <3>1, <4>2
    <3>. QED BY <1>1, <3>1, <3>2, <3>3 DEF Shapes
  <2>. QED BY <2>1, <2>2
<1>13. CASE ReplayRaises \/ GuardianRefuses \/ Hangs
  BY <1>13, RaisingKeeps, HangingKeeps DEF ReplayRaises, GuardianRefuses, EpisodeInv
<1>14. CASE RunAgain
  <2>1. /\ memory' \in Memories /\ plan' \in Plans /\ live' \in BOOLEAN
        /\ diagnosis' \in Diagnoses
        /\ UNCHANGED <<incident, runtime, tool, changes>>
    BY <1>2, <1>14, UndiagnosedTyped DEF RunAgain, Cleared
  <2>2. board' \in [Tasks -> Statuses]
    BY <1>14 DEF RunAgain, Cleared, Statuses
  <2>3. review'.decision \in Undecided /\ report'.reward = 0
    BY <1>14 DEF RunAgain, Cleared, Unreviewed, NoReport, Undecided
  <2>4. 0 \in Rewards
    BY DEF Rewards
  <2>. QED BY <1>1, <2>1, <2>2, <2>3, <2>4 DEF Shapes
<1>15. CASE ChangeTool
  <2>1. changes' \in 0 .. MaxChanges
    <3>1. MaxChanges \in Nat /\ changes \in 0 .. MaxChanges
      BY <1>1, EpisodeAssumption DEF Shapes
    <3>2. changes < MaxChanges /\ changes' = changes + 1
      BY <1>15 DEF ChangeTool
    <3>. QED BY <3>1, <3>2
  <2>2. tool' \in Tools
    BY <1>15 DEF ChangeTool
  <2>. QED BY <1>1, <1>15, <2>1, <2>2 DEF ChangeTool, Shapes
<1>. QED BY <1>3, <1>4, <1>5, <1>6, <1>7, <1>8, <1>9, <1>10, <1>11, <1>12, <1>13, <1>14, <1>15 DEF Next, Step

\* No node takes back what an earlier one has written.
LEMMA WrittenStep ==
  ASSUME EpisodeInv, Next
  PROVE  Written'
<1>. USE DEF AfterReview, AfterForge, AfterHistory, AfterDeployment, AfterEvidence, AfterSentinel
<1>1. Written /\ board \in [Tasks -> Statuses] /\ memory \in Memories
  BY DEF EpisodeInv, Shapes
<1>2. ASSUME Raises PROVE Written'
  BY <1>2, RaisingKeeps DEF EpisodeInv
<1>3. CASE fetch_context_node
  BY <1>3 DEF fetch_context_node, Written
<1>4. CASE sentinel_node
  BY <1>1, <1>4 DEF sentinel_node, Written, Marks, Tasks
<1>5. CASE prism_plan_node
  BY <1>1, <1>5 DEF prism_plan_node, Written, Marks, Tasks
<1>6. CASE prism_evidence_node
  BY <1>1, <1>6 DEF prism_evidence_node, Written, Marks, Tasks
<1>7. CASE prism_deployment_node
  BY <1>1, <1>7 DEF prism_deployment_node, Written, Marks, Tasks
<1>8. CASE prism_history_node
  BY <1>1, <1>8 DEF prism_history_node, Written, Marks, Tasks
<1>9. CASE prism_synthesize_node
  BY <1>1, <1>2, <1>9 DEF prism_synthesize_node, Written
<1>10. CASE forge_node
  <2>1. CASE Raises
    BY <1>2, <2>1
  <2>2. CASE ~Raises
    <3>1. PICK p : \E summary \in SummariesNow(p.action) :
            /\ memory' = IF memory.found THEN enrich_memory_with_runtime(memory, summary) ELSE memory
            /\ Marks([t \in {"replica-validate", "trace-debug", "forge-plan"} |->
                           CASE t = "replica-validate" -> IF summary.reproduced THEN "reproduced" ELSE "not_run"
                             [] t = "trace-debug" -> TraceStatus(summary)
                             [] OTHER -> "completed"])
            /\ node = "forge" /\ node' = "guardian"
      BY <1>10, <2>2 DEF forge_node
    <3>2. PICK summary \in SummariesNow(p.action) :
            /\ memory' = IF memory.found THEN enrich_memory_with_runtime(memory, summary) ELSE memory
            /\ Marks([t \in {"replica-validate", "trace-debug", "forge-plan"} |->
                           CASE t = "replica-validate" -> IF summary.reproduced THEN "reproduced" ELSE "not_run"
                             [] t = "trace-debug" -> TraceStatus(summary)
                             [] OTHER -> "completed"])
            /\ node = "forge" /\ node' = "guardian"
      BY <3>1
    <3>3. memory'.found = memory.found
      BY <1>1, <3>2, EnrichedMemory
    <3>. QED BY <1>1, <3>2, <3>3 DEF Written, Marks, Tasks, TraceStatus
  <2>. QED BY <2>1, <2>2
<1>11. CASE guardian_node
  <2>1. PICK summary, decision :
          /\ review' = Reviewed(decision, summary)
          /\ Marks([t \in {"guardian-policy"} |-> IF decision = "approve" THEN "completed" ELSE "blocked"])
          /\ node = "guardian" /\ node' = "finalize" /\ UNCHANGED memory
    BY <1>11 DEF guardian_node
  <2>2. review'.decision = decision
    BY <2>1 DEF Reviewed
  <2>. QED BY <1>1, <2>1, <2>2 DEF Written, Marks, Tasks
<1>12. CASE finalize_node
  <2>1. CASE Raises
    BY <1>2, <2>1
  <2>2. CASE ~Raises
    <3>1. PICK summary \in SummariesNow(plan.action) :
            /\ memory' = IF memory.found THEN enrich_memory_with_runtime(memory, summary) ELSE memory
            /\ node = "finalize" /\ node' = "done" /\ UNCHANGED <<board, review>>
      BY <1>12, <2>2 DEF finalize_node
    <3>2. memory'.found = memory.found
      BY <1>1, <3>1, EnrichedMemory
    <3>. QED BY <1>1, <3>1, <3>2 DEF Written
  <2>. QED BY <2>1, <2>2
<1>13. CASE ReplayRaises \/ GuardianRefuses \/ Hangs
  BY <1>2, <1>13, HangingKeeps DEF ReplayRaises, GuardianRefuses, EpisodeInv
<1>14. CASE RunAgain
  BY <1>14 DEF RunAgain, Cleared, Written
<1>15. CASE ChangeTool
  BY <1>1, <1>15 DEF ChangeTool, Written
<1>. QED BY <1>3, <1>4, <1>5, <1>6, <1>7, <1>8, <1>9, <1>10, <1>11, <1>12, <1>13, <1>14, <1>15 DEF Next, Step

\* Nothing that a review depends on changes after it.
LEMMA VettedStep ==
  ASSUME EpisodeInv, Next
  PROVE  Vetted'
<1>. USE DEF AfterReview, AfterForge, Done
<1>1. Vetted /\ review.decision \in Undecided
  BY DEF EpisodeInv, Shapes
<1>2. ASSUME Raises PROVE Vetted'
  BY <1>2, RaisingKeeps DEF EpisodeInv
<1>3. ASSUME node' \notin {"forge"} \cup AfterForge PROVE Vetted'
  BY <1>3 DEF Vetted
<1>5. CASE prism_synthesize_node
  <2>1. CASE Raises
    BY <1>2, <2>1
  <2>2. CASE ~Raises
    <3>1. node' = "forge" /\ diagnosis'.reading \in Readings
      BY <1>5, <2>2, Diagnosed DEF prism_synthesize_node, EpisodeInv
    <3>. QED BY <3>1 DEF Vetted
  <2>. QED BY <2>1, <2>2
<1>4. CASE \/ fetch_context_node \/ sentinel_node \/ prism_plan_node \/ prism_evidence_node
           \/ prism_deployment_node \/ prism_history_node \/ RunAgain
  BY <1>3, <1>4 DEF fetch_context_node, sentinel_node, prism_plan_node, prism_evidence_node,
                    prism_deployment_node, prism_history_node, RunAgain, Cleared, Raises
<1>10. CASE forge_node
  <2>1. CASE Raises
    BY <1>2, <2>1
  <2>2. CASE ~Raises
    <3>1. FixedRunbook \in Runbooks
      BY DEF FixedRunbook, Runbooks, Actions
    <3>2. plan' \in Runbooks /\ plan'.valid /\ node' = "guardian"
      BY <1>10, <2>2, <3>1 DEF forge_node
    <3>3. node = "forge" /\ UNCHANGED diagnosis
      BY <1>10, <2>2 DEF forge_node
    <3>. QED BY <1>1, <3>2, <3>3 DEF Vetted
  <2>. QED BY <2>1, <2>2
<1>11. CASE guardian_node
  <2>1. /\ node = "guardian" /\ node' = "finalize" /\ UNCHANGED <<sentinel, diagnosis, plan>>
        /\ review'.decision = Review(sentinel.severity, diagnosis.confidence, plan.blocked, plan.valid)
        /\ review'.rollback = IF review'.decision = "approve" THEN "ready" ELSE "needs_review"
    BY <1>11 DEF guardian_node, Reviewed
  <2>. QED BY <1>1, <2>1 DEF Vetted
<1>12. CASE finalize_node
  <2>1. CASE Raises
    BY <1>2, <2>1
  <2>2. CASE ~Raises
    <3>1. /\ node = "finalize" /\ node' = "done" /\ UNCHANGED <<board, sentinel, diagnosis, plan, review>>
          /\ report'.executed = (review.decision = "approve")
          /\ report'.status = IF review.decision = "approve" /\ plan.valid THEN "resolved"
                              ELSE "blocked_by_guardian"
          /\ report'.branches = BranchRate
      BY <1>12, <2>2 DEF finalize_node
    <3>2. BranchRate' = BranchRate
      BY <3>1 DEF BranchRate
    <3>. QED BY <1>1, <3>1, <3>2 DEF Vetted
  <2>. QED BY <2>1, <2>2
<1>13. CASE ReplayRaises \/ GuardianRefuses \/ Hangs
  BY <1>2, <1>13, HangingKeeps DEF ReplayRaises, GuardianRefuses, EpisodeInv
<1>15. CASE ChangeTool
  <2>1. UNCHANGED <<node, board, sentinel, diagnosis, plan, review, report>>
    BY <1>15 DEF ChangeTool
  <2>2. BranchRate' = BranchRate
    BY <2>1 DEF BranchRate
  <2>. QED BY <1>1, <2>1, <2>2 DEF Vetted
<1>. QED BY <1>4, <1>5, <1>10, <1>11, <1>12, <1>13, <1>15 DEF Next, Step

\* The review changes only with the summary it is of.
LEMMA RiskStep ==
  ASSUME EpisodeInv, Next
  PROVE  RiskOfSummary'
<1>1. RiskOfSummary
  BY DEF EpisodeInv
<1>2. ASSUME Raises PROVE RiskOfSummary'
  BY <1>2, RaisingKeeps DEF EpisodeInv
<1>3. ASSUME node \notin {"finalize", "done", "raised", "hung"}, UNCHANGED review
      PROVE  RiskOfSummary'
  BY <1>1, <1>3 DEF RiskOfSummary
<1>4. CASE \/ fetch_context_node \/ sentinel_node \/ prism_plan_node \/ prism_evidence_node
           \/ prism_deployment_node \/ prism_history_node \/ prism_synthesize_node
  BY <1>2, <1>3, <1>4 DEF fetch_context_node, sentinel_node, prism_plan_node, prism_evidence_node,
                          prism_deployment_node, prism_history_node, prism_synthesize_node
<1>5. CASE forge_node
  BY <1>2, <1>3, <1>5 DEF forge_node
<1>6. CASE guardian_node
  <2>1. node = "guardian"
    BY <1>6 DEF guardian_node
  <2>2. plan \in Runbooks /\ diagnosis.reading \in Readings
    BY <2>1 DEF EpisodeInv, Vetted, AfterForge
  <2>3. PICK summary \in SummariesNow(plan.action) :
          /\ review' = Reviewed(Review(sentinel.severity, diagnosis.confidence, plan.blocked, plan.valid), summary)
          /\ shown' = [forge |-> shown.forge, guardian |-> summary]
          /\ node' = "finalize" /\ UNCHANGED sentinel
    BY <1>6 DEF guardian_node
  <2>4. Gained(summary)
    <3>1. plan.action \in Actions
      BY <2>2 DEF Runbooks
    <3>. QED BY <2>2, <2>3, <3>1, SummaryNow DEF EpisodeInv
  <2>5. shown'.guardian = summary
    BY <2>3
  <2>6. \E decision \in Decisions : review' = Reviewed(decision, summary)'
    BY <2>3, ReviewDecides DEF Reviewed
  <2>. QED BY <2>3, <2>4, <2>5, <2>6 DEF RiskOfSummary, Reviewed
<1>7. CASE finalize_node
  <2>1. CASE Raises
    BY <1>2, <2>1
  <2>2. CASE ~Raises
    <3>1. node = "finalize" /\ node' = "done" /\ UNCHANGED <<sentinel, review>>
          /\ shown'.guardian = shown.guardian
      BY <1>7, <2>2 DEF finalize_node
    <3>. QED BY <1>1, <3>1 DEF RiskOfSummary, Reviewed
  <2>. QED BY <2>1, <2>2
<1>8. CASE ReplayRaises \/ GuardianRefuses \/ Hangs
  BY <1>2, <1>8, HangingKeeps DEF ReplayRaises, GuardianRefuses, EpisodeInv
<1>9. CASE RunAgain
  BY <1>9 DEF RunAgain, Cleared, RiskOfSummary
<1>10. CASE ChangeTool
  BY <1>1, <1>10 DEF ChangeTool, RiskOfSummary, Reviewed
<1>. QED BY <1>4, <1>5, <1>6, <1>7, <1>8, <1>9, <1>10 DEF Next, Step

\* The invariant, from the start and through every step.
THEOREM EpisodeIsConsistent == Spec => []EpisodeInv
<1>1. Init => EpisodeInv
  BY InitEpisode
<1>2. EpisodeInv /\ [Next]_vars => EpisodeInv'
  <2>1. ASSUME EpisodeInv, Next PROVE EpisodeInv'
    BY <2>1, ShapesStep, WrittenStep, VettedStep, RiskStep DEF EpisodeInv
  <2>2. ASSUME EpisodeInv, UNCHANGED vars PROVE EpisodeInv'
    <3>1. BranchRate' = BranchRate
      BY <2>2 DEF vars, BranchRate
    <3>2. Vetted' = Vetted
      BY <2>2, <3>1 DEF vars, Vetted, Done
    <3>3. RiskOfSummary' = RiskOfSummary
      BY <2>2 DEF vars, RiskOfSummary, Reviewed
    <3>4. Shapes'
      BY <2>2 DEF vars, EpisodeInv, Shapes
    <3>5. Written'
      BY <2>2 DEF vars, EpisodeInv, Written
    <3>. QED BY <2>2, <3>2, <3>3, <3>4, <3>5 DEF EpisodeInv
  <2>. QED BY <2>1, <2>2
<1>. QED BY <1>1, <1>2, PTL DEF Spec

-----------------------------------------------------------------------------
(* What follows *)

\* Every variable of an episode has its type, the reward stays within its
\* bounds and similarities and success rates never reach a certainty, however
\* often a summary is built again.
THEOREM EpisodeTypes == Spec => []TypeOK
<1>1. EpisodeInv => TypeOK
  <2>. SUFFICES ASSUME EpisodeInv PROVE TypeOK
    OBVIOUS
  <2>1. Shapes
    BY DEF EpisodeInv
  <2>2. memory.similarity \in 0 .. 99 /\ memory.success \in 0 .. 99
    BY <2>1 DEF Shapes, Memories
  <2>4. diagnosis.confidence \in 0 .. 100
    BY <2>1 DEF Shapes, Diagnoses
  <2>3. review.decision \in {"", "approve", "reject", "request_modification"}
    <3>1. review.decision \in Undecided
      BY <2>1, Zenon DEF Shapes
    <3>. QED BY <3>1 DEF Decisions, Undecided
  <2>. QED BY <2>1, <2>2, <2>3, <2>4 DEF Shapes, TypeOK, Rewards
<1>. QED BY <1>1, EpisodeIsConsistent, PTL

\* Whatever the models answered, what is executed parses, holds no blocked
\* pattern, and its diagnosis passed the threshold of the severity that the
\* episode reports.
THEOREM VettedPlansOnly == Spec => []OnlyVettedPlansAreExecuted
<1>1. EpisodeInv => OnlyVettedPlansAreExecuted
  <2>. SUFFICES ASSUME EpisodeInv, Done, report.executed
                PROVE  /\ plan.valid /\ plan.blocked = 0
                       /\ 60 * 100 + 40 * diagnosis.confidence >= 100 * ThresholdForSeverity(sentinel.severity)
                       /\ review.rollback = "ready" /\ report.status = "resolved"
    BY DEF OnlyVettedPlansAreExecuted
  <2>1. /\ plan \in Runbooks /\ plan.valid
        /\ Review(sentinel.severity, diagnosis.confidence, plan.blocked, plan.valid) = "approve"
        /\ review.rollback = "ready" /\ report.status = "resolved"
    BY DEF EpisodeInv, Vetted, AfterForge, AfterReview, Done
  <2>2. /\ ~(plan.blocked > 0)
        /\ 60 * SafetyScore(plan.blocked) + 40 * diagnosis.confidence >= 100 * ThresholdForSeverity(sentinel.severity)
    BY <2>1 DEF Review
  <2>3. plan.blocked = 0
    <3>1. plan.blocked \in {0, 1}
      BY <2>1 DEF Runbooks
    <3>. QED BY <2>2, <3>1
  <2>4. SafetyScore(0) = 100
    <3>1. Max({0, 100}) = 100
      BY MaxOfTwo
    <3>2. 100 - 35 * 0 = 100
      OBVIOUS
    <3>. QED BY <3>1, <3>2 DEF SafetyScore
  <2>. QED BY <2>1, <2>2, <2>3, <2>4
<1>. QED BY <1>1, EpisodeIsConsistent, PTL

\* An episode ends with a word on every task, and what it says of the finished
\* branches and of GUARDIAN is what happened.
THEOREM NothingIsForgotten == Spec => []NoTaskIsForgotten
<1>1. EpisodeInv => NoTaskIsForgotten
  <2>. SUFFICES ASSUME EpisodeInv, Done PROVE NoTaskIsForgotten
    BY DEF NoTaskIsForgotten
  <2>. DEFINE branches == {"prism-evidence", "prism-deployment", "prism-history"}
              finished == {t \in branches : board[t] = "completed"}
  <2>1. /\ board["sentinel-classify"] = "completed"
        /\ board["prism-evidence"] = "completed" /\ board["prism-deployment"] = "completed"
        /\ board["prism-history"] = IF memory.found THEN "completed" ELSE "fallback"
        /\ board["replica-validate"] \in {"reproduced", "not_run"}
        /\ board["trace-debug"] \in {"narrowed", "completed_with_inference"}
        /\ board["forge-plan"] = "completed"
        /\ board["guardian-policy"] = IF review.decision = "approve" THEN "completed" ELSE "blocked"
    BY DEF EpisodeInv, Written, Done, AfterSentinel, AfterEvidence, AfterDeployment, AfterHistory,
           AfterForge, AfterReview
  <2>2. \A t \in Tasks : board[t] \notin {"none", "queued", "active"}
    BY <2>1 DEF Tasks
  <2>3. report.executed = (review.decision = "approve") /\ report.branches = BranchRate
    BY DEF EpisodeInv, Vetted
  <2>4. BranchRate = IF memory.found THEN 100 ELSE 67
    <3>1. /\ Cardinality({"prism-evidence", "prism-deployment"}) = 2
          /\ Cardinality({"prism-evidence", "prism-deployment", "prism-history"}) = 3
      <4>1. /\ IsFiniteSet({"prism-evidence", "prism-deployment"})
            /\ Cardinality({"prism-evidence", "prism-deployment"}) = 2
        <5>1. IsFiniteSet({"prism-evidence"}) /\ Cardinality({"prism-evidence"}) = 1
          BY FS_Singleton
        <5>2. /\ {"prism-evidence", "prism-deployment"} = {"prism-evidence"} \cup {"prism-deployment"}
              /\ "prism-deployment" \notin {"prism-evidence"}
          OBVIOUS
        <5>. QED BY <5>1, <5>2, FS_AddElement
      <4>2. {"prism-evidence", "prism-deployment", "prism-history"}
              = {"prism-evidence", "prism-deployment"} \cup {"prism-history"}
        OBVIOUS
      <4>. QED BY <4>1, <4>2, FS_AddElement
    <3>2. finished = IF memory.found THEN branches ELSE {"prism-evidence", "prism-deployment"}
      BY <2>1
    <3>3. Cardinality(finished) = IF memory.found THEN 3 ELSE 2
      BY <3>1, <3>2
    <3>4. BranchRate = (100 * Cardinality(finished) + 1) \div 3
      BY DEF BranchRate
    <3>5. (100 * 3 + 1) \div 3 = 100 /\ (100 * 2 + 1) \div 3 = 67
      OBVIOUS
    <3>. HIDE DEF finished
    <3>. QED BY <3>3, <3>4, <3>5
  <2>. QED BY <2>1, <2>2, <2>3, <2>4 DEF NoTaskIsForgotten
<1>. QED BY <1>1, EpisodeIsConsistent, PTL

\* The risk of a severity, whichever it is, is changed by one thing only, and
\* downwards: a replay whose baseline failed and whose best rerun did not, or,
\* for a P2, one whose best rerun improved on a measured baseline
\* (NexusCore._guardian_node).
THEOREM OnlyAReplayLowersRisk == Spec => []RiskIsLoweredByMeasurement
<1>1. EpisodeInv => RiskIsLoweredByMeasurement
  <2>. SUFFICES ASSUME EpisodeInv, review.risk # "" PROVE RiskIsLoweredByMeasurement
    BY DEF RiskIsLoweredByMeasurement
  <2>. DEFINE rank == priority_rank(sentinel.severity)
              outcome == shown.guardian.outcome
  <2>1. /\ review.risk = RiskClass(sentinel.severity, outcome)
        /\ review.level = ApprovalLevel(review.risk)
        /\ Gained(shown.guardian)
    <3>1. review # Unreviewed
      <4>1. Unreviewed.risk = ""
        BY DEF Unreviewed
      <4>. QED BY <4>1
    <3>2. PICK decision \in Decisions : review = Reviewed(decision, shown.guardian)
      BY <3>1 DEF EpisodeInv, RiskOfSummary
    <3>3. Gained(shown.guardian)
      BY <3>1 DEF EpisodeInv, RiskOfSummary
    <3>. QED BY <3>2, <3>3 DEF Reviewed
  <2>2. rank \in 0 .. 9
    BY RankIsDigit
  <2>3. review.risk = CASE outcome = "resolved" -> IF rank <= 2 THEN "medium" ELSE "low"
                       [] outcome = "improved" -> IF rank <= 1 THEN "high" ELSE "medium"
                       [] OTHER -> IF rank <= 2 THEN "high" ELSE "medium"
    BY <2>1 DEF RiskClass
  <2>4. RiskClass(sentinel.severity, "") = IF rank <= 2 THEN "high" ELSE "medium"
    BY DEF RiskClass
  <2>5. (review.risk = "high") = (review.level = "incident_manager")
    BY <2>1 DEF ApprovalLevel
  <2>. DEFINE bare == RiskClass(sentinel.severity, "")
  <2>. HIDE DEF rank, outcome, bare
  <2>6. bare = IF rank <= 2 THEN "high" ELSE "medium"
    BY <2>4 DEF bare
  <2>7. review.risk # bare =>
           review.risk # "high" /\ (outcome = "resolved" \/ (outcome = "improved" /\ rank = 2))
    BY ONLY <2>2, <2>3, <2>6
  <2>8. /\ outcome = "resolved" => shown.guardian.executed /\ shown.guardian.base.status >= 500
        /\ outcome = "improved" => shown.guardian.executed /\ shown.guardian.base.status > 0
    BY <2>1 DEF Gained, outcome
  <2>. QED BY <2>5, <2>7, <2>8 DEF RiskIsLoweredByMeasurement, rank, outcome, bare
<1>. QED BY <1>1, EpisodeIsConsistent, PTL
====
