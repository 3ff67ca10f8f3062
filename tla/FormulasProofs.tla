---------------------------- MODULE FormulasProofs ----------------------------
(***************************************************************************)
(* Proofs about the pure rules, for every input: the status of a policy is *)
(* the run of its unpaid months, paying more never hurts, and a month of   *)
(* IFRS 17 loses nothing but cents.  And about the close of a month, which *)
(* uses the rules: a run leaves no group out, and runs that follow each    *)
(* other earn every premium and every margin once.                         *)
(***************************************************************************)
EXTENDS MCFormulas, Ifrs17Close, Sums, SequenceTheorems
-------------------------------------------------------------------------------
(* The status of a policy.                                                  *)

\* The loop's counter as a function: what it is after month m, given g[m - 1].
CountStep(p, premium, first, g, m) ==
    IF m < first THEN 0 ELSE IF p[m] < premium THEN g[m - 1] + 1 ELSE 0
CountFcn(p, premium, first, last) ==
    CHOOSE g : g = [m \in (first - 1) .. last |-> CountStep(p, premium, first, g, m)]

LEMMA ConsecutiveDef ==
    ASSUME NEW t, NEW p, NEW cutoff
    PROVE  Consecutive(t, p, cutoff) =
             IF Judged(t, cutoff) = {} THEN 0
             ELSE CountFcn(p, t.premium, t.commencement, Earlier(cutoff, t.maturity))
                    [Earlier(cutoff, t.maturity)]
  BY Zenon DEF Consecutive, CountFcn, CountStep

\* The recursion has a solution.
LEMMA CountFcnDef ==
    ASSUME NEW p, NEW premium, NEW first \in Int, NEW last \in Int, first <= last
    PROVE  \A m \in (first - 1) .. last :
             CountFcn(p, premium, first, last)[m]
               = CountStep(p, premium, first, CountFcn(p, premium, first, last), m)
  <1> DEFINE S == (first - 1) .. last
             Upto(n, g) == \A m \in S : m < first + n => g[m] = CountStep(p, premium, first, g, m)
             T == {n \in Nat : \E g \in [S -> Nat] : Upto(n, g)}
  <1>1. 0 \in T
    <2> DEFINE g == [m \in S |-> 0]
    <2>1. g \in [S -> Nat] /\ Upto(0, g)
      BY DEF CountStep
    <2> HIDE DEF g
    <2>2. QED
      BY <2>1
  <1>2. ASSUME NEW n \in T
        PROVE  n + 1 \in T
    <2>1. PICK g \in [S -> Nat] : Upto(n, g)
      OBVIOUS
    <2> DEFINE h == [m \in S |-> CountStep(p, premium, first, g, m)]
    <2>2. ASSUME NEW m \in S, m >= first
          PROVE  m - 1 \in S /\ g[m - 1] \in Nat
      BY <2>2
    <2>3. h \in [S -> Nat]
      BY <2>2 DEF CountStep
    <2>4. ASSUME NEW m \in S, m < first + n
          PROVE  h[m] = g[m]
      BY <2>1, <2>4
    <2>5. ASSUME NEW m \in S, m < first + (n + 1)
          PROVE  h[m] = CountStep(p, premium, first, h, m)
      <3>1. h[m] = CountStep(p, premium, first, g, m)
        OBVIOUS
      <3>2. CASE m < first
        BY <3>1, <3>2 DEF CountStep
      <3>3. CASE m >= first
        <4>1. m - 1 \in S /\ m - 1 < first + n
          BY <2>5, <3>3
        <4>2. h[m - 1] = g[m - 1]
          BY <2>4, <4>1
        <4> HIDE DEF h
        <4>3. QED
          BY <3>1, <3>3, <4>2 DEF CountStep
      <3> HIDE DEF h
      <3>4. QED
        BY <3>2, <3>3
    <2> HIDE DEF h
    <2>6. Upto(n + 1, h)
      BY <2>5
    <2>7. n + 1 \in Nat
      OBVIOUS
    <2> HIDE DEF Upto, S
    <2>8. QED
      BY <2>3, <2>6, <2>7
  <1>3. T = Nat
    <2> HIDE DEF T
    <2>1. T \in SUBSET Nat
      BY DEF T
    <2>2. QED
      BY <1>1, <1>2, <2>1, AllNaturals
  <1>4. \E g : g = [m \in S |-> CountStep(p, premium, first, g, m)]
    <2>1. last - first + 1 \in T
      <3> HIDE DEF T
      <3>1. QED
        BY <1>3
    <2>2. PICK g \in [S -> Nat] : Upto(last - first + 1, g)
      BY <2>1
    <2>3. \A m \in S : g[m] = CountStep(p, premium, first, g, m)
      BY <2>2
    <2>4. g = [m \in S |-> CountStep(p, premium, first, g, m)]
      BY <2>3
    <2>5. QED
      BY <2>4
  <1>5. CountFcn(p, premium, first, last) =
          [m \in S |-> CountStep(p, premium, first, CountFcn(p, premium, first, last), m)]
    <2>1. CountFcn(p, premium, first, last) =
            CHOOSE g : g = [m \in S |-> CountStep(p, premium, first, g, m)]
      BY DEF CountFcn
    <2>2. QED
      BY <1>4, <2>1, Zenon
  <1> DEFINE C == CountFcn(p, premium, first, last)
  <1> HIDE DEF C
  <1>6. QED
    BY <1>5

\* The unpaid months that end a stretch of months, and the counter after it:
\* the run is as long as the counter says.
RunTo(p, premium, first, m) ==
    {k \in first .. m : \A n \in first .. m : n >= k => p[n] < premium}
LEMMA CounterIsRun ==
    ASSUME NEW p, NEW premium, NEW first \in Int, NEW last \in Int, first <= last,
           \A m \in first .. last : p[m] \in Nat, premium \in Nat
    PROVE  LET c == CountFcn(p, premium, first, last)[last]
           IN  /\ c \in Nat
               /\ RunTo(p, premium, first, last) = (last - c + 1) .. last
  <1> DEFINE C == CountFcn(p, premium, first, last)
             Ok(m) == /\ C[m] \in Nat
                      /\ RunTo(p, premium, first, m) = (m - C[m] + 1) .. m
             T == {n \in Nat : first - 1 + n <= last => Ok(first - 1 + n)}
  <1>1. \A m \in (first - 1) .. last : C[m] = CountStep(p, premium, first, C, m)
    BY CountFcnDef
  <1> HIDE DEF C
  <1>2. 0 \in T
    <2>1. C[first - 1] = 0
      BY <1>1 DEF CountStep
    <2>2. RunTo(p, premium, first, first - 1) = {}
      BY DEF RunTo
    <2>3. ((first - 1) - 0 + 1) .. (first - 1) = {} /\ 0 \in Nat
      OBVIOUS
    <2>4. RunTo(p, premium, first, first - 1)
            = ((first - 1) - C[first - 1] + 1) .. (first - 1)
      BY <2>1, <2>2, <2>3
    <2>5. Ok(first - 1)
      BY <2>1, <2>3, <2>4
    <2>6. first - 1 + 0 = first - 1
      OBVIOUS
    <2> HIDE DEF Ok
    <2>7. QED
      BY <2>5, <2>6
  <1>3. ASSUME NEW n \in T
        PROVE  n + 1 \in T
    <2>1. SUFFICES ASSUME first - 1 + (n + 1) <= last
                   PROVE  Ok(first - 1 + (n + 1))
      OBVIOUS
    <2>2. PICK m \in Int : m = first + n /\ first - 1 + (n + 1) = m
      OBVIOUS
    <2>3. m \in first .. last /\ m - 1 \in (first - 1) .. last
      BY <2>1, <2>2
    <2>4. C[m - 1] \in Nat /\ RunTo(p, premium, first, m - 1) = (m - 1 - C[m - 1] + 1) .. (m - 1)
      <3>1. Ok(first - 1 + n)
        BY <2>1
      <3>2. first - 1 + n = m - 1
        BY <2>2
      <3>3. QED
        BY <3>1, <3>2
    <2>5. C[m] = IF p[m] < premium THEN C[m - 1] + 1 ELSE 0
      BY <1>1, <2>3 DEF CountStep
    <2>6. p[m] \in Nat
      BY <2>3
    <2>7. CASE p[m] < premium
      <3>1. RunTo(p, premium, first, m) = RunTo(p, premium, first, m - 1) \cup {m}
        BY <2>3, <2>7 DEF RunTo
      <3>2. C[m] = C[m - 1] + 1
        BY <2>5, <2>7
      <3>3. RunTo(p, premium, first, m) = (m - C[m] + 1) .. m
        BY <2>3, <2>4, <3>1, <3>2
      <3>4. QED
        BY <2>2, <2>4, <3>2, <3>3
    <2>8. CASE ~(p[m] < premium)
      <3>1. RunTo(p, premium, first, m) = {}
        BY <2>3, <2>8 DEF RunTo
      <3>2. C[m] = 0
        BY <2>5, <2>8
      <3>3. Ok(m)
        BY <2>3, <3>1, <3>2
      <3>4. QED
        BY <2>2, <3>3
    <2>9. QED
      BY <2>7, <2>8
  <1>4. T = Nat
    <2> HIDE DEF T
    <2>1. T \in SUBSET Nat
      BY DEF T
    <2>2. QED
      BY <1>2, <1>3, <2>1, AllNaturals
  <1>5. last - first + 1 \in T /\ first - 1 + (last - first + 1) = last
    <2> HIDE DEF T
    <2>1. QED
      BY <1>4
  <1>6. Ok(last)
    BY <1>5
  <1>7. QED
    BY <1>6 DEF C

LEMMA PaidDef ==
    ASSUME NEW t, NEW p, NEW cutoff
    PROVE  TotalPaid(t, p, cutoff) = SumFunctionOnSet(p, Judged(t, cutoff))
  BY Zenon DEF TotalPaid, MapThenSumSet, SumFunctionOnSet, FoldFunctionOnSet

\* The inputs of computePolicyStatus: a policy, what was received for each
\* month, the month reported on and the moment of the report.
Inputs ==
    /\ terms \in Terms
    /\ paid \in [Month -> Nat]
    /\ reporting \in Month
    /\ now \in Moment

\* The months that are judged, when there are any.
LEMMA JudgedMonths ==
    ASSUME NEW t \in Terms, NEW r \in Month, NEW w \in Moment,
           NEW cutoff, cutoff = StatusCutoffMonth(r, w)
    PROVE  /\ cutoff \in Int
           /\ Judged(t, cutoff) \subseteq Month
           /\ IsFiniteSet(Judged(t, cutoff))
           /\ Judged(t, cutoff) # {} =>
                /\ Earlier(cutoff, t.maturity) \in Int
                /\ t.commencement \in Int
                /\ t.commencement <= Earlier(cutoff, t.maturity)
                /\ Judged(t, cutoff) = t.commencement .. Earlier(cutoff, t.maturity)
           /\ cutoff < t.commencement => Judged(t, cutoff) = {}
  <1> DEFINE first == t.commencement
             last == Earlier(cutoff, t.maturity)
  <1>1. /\ Month \subseteq Nat /\ Never \in Nat
        /\ \A m, n \in Month : m .. n \subseteq Month
    BY PolicyStatusAssumption DEF PolicyStatusAssumption
  <1>2. /\ r \in Nat /\ w.month \in Nat
        /\ first \in Month /\ first \in Nat /\ t.maturity \in Nat
    BY <1>1 DEF Moment, Terms
  <1>3. cutoff \in Int /\ cutoff <= r
    BY <1>2 DEF StatusCutoffMonth, Earlier
  <1>4. last \in Int /\ last <= cutoff
    BY <1>2, <1>3 DEF Earlier
  <1>5. Judged(t, cutoff) = IF first <= cutoff THEN first .. last ELSE {}
    BY DEF Judged
  <1> HIDE DEF first, last
  <1>6. first .. last \subseteq first .. r
    BY <1>2, <1>3, <1>4
  <1>7. first .. r \subseteq Month
    BY <1>1, <1>2
  <1>8. IsFiniteSet(Judged(t, cutoff))
    <2>1. IsFiniteSet(first .. last)
      BY <1>2, <1>4, FS_Interval
    <2>2. QED
      BY <1>5, <2>1, FS_EmptySet
  <1>9. Judged(t, cutoff) # {} => first <= last /\ Judged(t, cutoff) = first .. last
    BY <1>2, <1>4, <1>5
  <1>10. cutoff < first => Judged(t, cutoff) = {}
    BY <1>2, <1>3, <1>5
  <1>11. Judged(t, cutoff) \subseteq Month
    BY <1>5, <1>6, <1>7
  <1>12. QED
    BY <1>2, <1>3, <1>4, <1>8, <1>9, <1>10, <1>11 DEF first, last

\* The run of unpaid months at the end of what is judged, for any payments.
RunOf(t, p, cutoff) ==
    {m \in Judged(t, cutoff) : \A n \in Judged(t, cutoff) : n >= m => p[n] < t.premium}

\* The loop's counter is the number of months in that run.
LEMMA ConsecutiveIsRun ==
    ASSUME NEW t \in Terms, NEW r \in Month, NEW w \in Moment, NEW p \in [Month -> Nat],
           NEW cutoff, cutoff = StatusCutoffMonth(r, w)
    PROVE  /\ IsFiniteSet(RunOf(t, p, cutoff))
           /\ Consecutive(t, p, cutoff) = Cardinality(RunOf(t, p, cutoff))
           /\ Consecutive(t, p, cutoff) \in Nat
  <1>1. CASE Judged(t, cutoff) = {}
    <2>1. RunOf(t, p, cutoff) = {}
      BY <1>1 DEF RunOf
    <2>2. Consecutive(t, p, cutoff) = 0
      BY <1>1, ConsecutiveDef
    <2>3. QED
      BY <2>1, <2>2, FS_EmptySet
  <1>2. CASE Judged(t, cutoff) # {}
    <2>1. PICK first, last, premium : /\ first = t.commencement
                                      /\ last = Earlier(cutoff, t.maturity)
                                      /\ premium = t.premium
      OBVIOUS
    <2>2. /\ first \in Int /\ last \in Int /\ first <= last
          /\ Judged(t, cutoff) = first .. last
          /\ first .. last \subseteq Month
      BY <1>2, <2>1, JudgedMonths
    <2>3. premium \in Nat /\ \A m \in first .. last : p[m] \in Nat
      BY <2>1, <2>2 DEF Terms
    <2>4. PICK c : c = CountFcn(p, premium, first, last)[last]
      OBVIOUS
    <2>5. c \in Nat /\ RunTo(p, premium, first, last) = (last - c + 1) .. last
      BY <2>2, <2>3, <2>4, CounterIsRun
    <2>6. RunOf(t, p, cutoff) = RunTo(p, premium, first, last)
      BY <2>1, <2>2 DEF RunOf, RunTo
    <2>7. Consecutive(t, p, cutoff) = c
      BY <1>2, <2>1, <2>4, ConsecutiveDef
    <2>8. /\ IsFiniteSet((last - c + 1) .. last)
          /\ Cardinality((last - c + 1) .. last) =
               IF last - c + 1 > last THEN 0 ELSE last - (last - c + 1) + 1
      <3>1. last - c + 1 \in Int
        BY <2>2, <2>5
      <3>2. QED
        BY <2>2, <3>1, FS_Interval
    <2>9. Cardinality((last - c + 1) .. last) = c
      BY <2>2, <2>5, <2>8
    <2>10. QED
      BY <2>5, <2>6, <2>7, <2>8, <2>9
  <1>3. QED
    BY <1>1, <1>2

\* The cases of the status, which exclude each other.
LEMMA StatusCases ==
    ASSUME NEW t \in Terms, NEW r \in Month, NEW w, NEW p,
           NEW cutoff, cutoff = StatusCutoffMonth(r, w),
           NEW u, u = Consecutive(t, p, cutoff)
    PROVE  \/ /\ StatusOf(t, p, r, w) = IF r < t.commencement THEN "Not Yet Commenced" ELSE "Matured"
              /\ r < t.commencement \/ r > t.maturity
           \/ /\ StatusOf(t, p, r, w) =
                    IF cutoff < t.commencement THEN "Active"
                    ELSE IF u >= LapseAfter THEN "Lapsed"
                    ELSE IF u >= WarningAfter THEN "Warning"
                    ELSE IF u = 1 THEN "One Month Outstanding"
                    ELSE "Active"
              /\ ~(r < t.commencement \/ r > t.maturity)
  <1>1. r \in Nat /\ t.commencement \in Nat /\ t.maturity \in Nat
    BY PolicyStatusAssumption DEF PolicyStatusAssumption, Terms
  <1>2. CASE r < t.commencement
    <2>1. ~(r >= t.commencement)
      BY <1>1, <1>2
    <2>2. QED
      BY <1>2, <2>1 DEF StatusOf
  <1>3. CASE ~(r < t.commencement) /\ r > t.maturity
    <2>1. r >= t.commencement
      BY <1>1, <1>3
    <2>2. QED
      BY <1>3, <2>1 DEF StatusOf
  <1>4. CASE ~(r < t.commencement) /\ ~(r > t.maturity)
    BY <1>4 DEF StatusOf
  <1>5. QED
    BY <1>2, <1>3, <1>4

\* computePolicyStatus, whose loop counts: the status is told by the run of
\* unpaid months that ends what is judged, for every policy, every payments and
\* every moment.  (A threshold for warnings above 2 would leave a policy with two
\* unpaid months Active.)
THEOREM StatusIsUnpaidRunHolds ==
    ASSUME WarningAfter <= 2, Inputs
    PROVE  StatusIsUnpaidRun
  <1>1. WarningAfter \in Nat \ {0} /\ LapseAfter \in Nat \ {0}
    BY PolicyStatusAssumption DEF PolicyStatusAssumption
  <1>2. PICK u : u = Consecutive(terms, paid, Cutoff)
    OBVIOUS
  <1>3. UnpaidRun = RunOf(terms, paid, Cutoff)
    BY DEF UnpaidRun, RunOf, MonthsJudged
  <1>4. u \in Nat /\ Cardinality(UnpaidRun) = u /\ (u = 0 => UnpaidRun = {})
    <2>1. IsFiniteSet(UnpaidRun) /\ u = Cardinality(UnpaidRun) /\ u \in Nat
      BY <1>2, <1>3, ConsecutiveIsRun DEF Inputs, Cutoff
    <2>2. QED
      BY <2>1, FS_EmptySet
  <1>5. Cutoff < terms.commencement => UnpaidRun = {}
    BY <1>3, JudgedMonths DEF Inputs, RunOf, Cutoff
  <1>6. \/ Status \in {"Not Yet Commenced", "Matured"}
        \/ Status = IF Cutoff < terms.commencement THEN "Active"
                    ELSE IF u >= LapseAfter THEN "Lapsed"
                    ELSE IF u >= WarningAfter THEN "Warning"
                    ELSE IF u = 1 THEN "One Month Outstanding"
                    ELSE "Active"
    BY <1>2, StatusCases DEF Inputs, Status, Cutoff
  <1>7. /\ Status = "Lapsed" => u >= LapseAfter
        /\ Status = "Warning" => u \in WarningAfter .. LapseAfter - 1
        /\ Status = "One Month Outstanding" => u = 1
        /\ Status = "Active" => Cutoff < terms.commencement \/ u = 0
    <2>1. u \in Nat /\ (u >= LapseAfter \/ u >= WarningAfter \/ u = 1 \/ u = 0)
      BY <1>1, <1>4
    <2>2. CASE Status \in {"Not Yet Commenced", "Matured"}
      BY <2>2
    <2>3. CASE Cutoff < terms.commencement /\ Status = "Active"
      BY <2>3
    <2>4. CASE u >= LapseAfter /\ Status = "Lapsed"
      BY <2>4
    <2>5. CASE ~(u >= LapseAfter) /\ u >= WarningAfter /\ Status = "Warning"
      BY <1>1, <2>1, <2>5
    <2>6. CASE u = 1 /\ Status = "One Month Outstanding"
      BY <2>6
    <2>7. CASE u = 0 /\ Status = "Active"
      BY <2>7
    <2>8. QED
      BY <1>6, <2>1, <2>2, <2>3, <2>4, <2>5, <2>6, <2>7
  <1>8. QED
    BY <1>4, <1>5, <1>7 DEF StatusIsUnpaidRun

\* The rank of a status follows from the counter, and a shorter run of unpaid
\* months has no higher rank.
LEMMA RankOfStatus ==
    ASSUME WarningAfter <= 2,
           NEW t \in Terms, NEW r \in Month, NEW w \in Moment,
           NEW p \in [Month -> Nat], NEW q \in [Month -> Nat], \A m \in Month : p[m] <= q[m]
    PROVE  Rank(StatusOf(t, q, r, w)) <= Rank(StatusOf(t, p, r, w))
  <1> DEFINE cutoff == StatusCutoffMonth(r, w)
             R(n) == IF n >= LapseAfter THEN 3 ELSE IF n >= WarningAfter THEN 2
                     ELSE IF n = 1 THEN 1 ELSE 0
  <1>1. WarningAfter \in Nat \ {0} /\ LapseAfter \in Nat \ {0}
    BY PolicyStatusAssumption DEF PolicyStatusAssumption
  <1>2. PICK u, v : u = Consecutive(t, p, cutoff) /\ v = Consecutive(t, q, cutoff)
    OBVIOUS
  <1>3. u \in Nat /\ v \in Nat /\ v <= u
    <2>1. /\ IsFiniteSet(RunOf(t, p, cutoff)) /\ u = Cardinality(RunOf(t, p, cutoff)) /\ u \in Nat
          /\ v = Cardinality(RunOf(t, q, cutoff)) /\ v \in Nat
      BY <1>2, ConsecutiveIsRun
    <2>2. RunOf(t, q, cutoff) \subseteq RunOf(t, p, cutoff)
      <3>1. Judged(t, cutoff) \subseteq Month
        BY JudgedMonths
      <3>2. \A n \in Judged(t, cutoff) :
               p[n] \in Nat /\ q[n] \in Nat /\ p[n] <= q[n] /\ t.premium \in Nat
        BY <3>1 DEF Terms
      <3>3. \A n \in Judged(t, cutoff) : q[n] < t.premium => p[n] < t.premium
        BY <3>2
      <3> HIDE DEF cutoff
      <3>4. QED
        BY <3>3 DEF RunOf
    <2>3. QED
      BY <2>1, <2>2, FS_Subset
  <1>4. R(v) <= R(u)
    BY <1>1, <1>3
  <1>5. ASSUME NEW n, NEW s, s = IF cutoff < t.commencement THEN "Active"
                                 ELSE IF n >= LapseAfter THEN "Lapsed"
                                 ELSE IF n >= WarningAfter THEN "Warning"
                                 ELSE IF n = 1 THEN "One Month Outstanding"
                                 ELSE "Active"
        PROVE  Rank(s) = IF cutoff < t.commencement THEN 0 ELSE R(n)
    <2> HIDE DEF cutoff
    <2>1. QED
      BY <1>5 DEF Rank
  <1>6. CASE r < t.commencement \/ r > t.maturity
    <2>1. StatusOf(t, q, r, w) = StatusOf(t, p, r, w)
      BY <1>2, <1>6, StatusCases
    <2>2. Rank(StatusOf(t, p, r, w)) \in Nat
      BY DEF Rank
    <2>3. QED
      BY <2>1, <2>2
  <1>7. CASE ~(r < t.commencement \/ r > t.maturity)
    <2>1. /\ Rank(StatusOf(t, p, r, w)) = IF cutoff < t.commencement THEN 0 ELSE R(u)
          /\ Rank(StatusOf(t, q, r, w)) = IF cutoff < t.commencement THEN 0 ELSE R(v)
      <3>1. PICK a, b : a = StatusOf(t, p, r, w) /\ b = StatusOf(t, q, r, w)
        OBVIOUS
      <3>2. a = IF cutoff < t.commencement THEN "Active"
                ELSE IF u >= LapseAfter THEN "Lapsed"
                ELSE IF u >= WarningAfter THEN "Warning"
                ELSE IF u = 1 THEN "One Month Outstanding" ELSE "Active"
        BY <1>2, <1>7, <3>1, StatusCases
      <3>3. b = IF cutoff < t.commencement THEN "Active"
                ELSE IF v >= LapseAfter THEN "Lapsed"
                ELSE IF v >= WarningAfter THEN "Warning"
                ELSE IF v = 1 THEN "One Month Outstanding" ELSE "Active"
        BY <1>2, <1>7, <3>1, StatusCases
      <3> HIDE DEF R, cutoff
      <3>4. /\ Rank(a) = IF cutoff < t.commencement THEN 0 ELSE R(u)
            /\ Rank(b) = IF cutoff < t.commencement THEN 0 ELSE R(v)
        BY <1>5, <3>2, <3>3
      <3>5. QED
        BY <3>1, <3>4
    <2>2. QED
      BY <1>4, <2>1
  <1>8. QED
    BY <1>6, <1>7

\* Money that comes in on top leaves no larger balance outstanding.
LEMMA OutstandingShrinks ==
    ASSUME NEW t \in Terms, NEW r \in Month, NEW w \in Moment,
           NEW cutoff, cutoff = StatusCutoffMonth(r, w),
           NEW p \in [Month -> Nat], NEW q \in [Month -> Nat], \A m \in Month : p[m] <= q[m]
    PROVE  TotalOutstanding(t, q, cutoff) <= TotalOutstanding(t, p, cutoff)
  <1>1. PICK J : J = Judged(t, cutoff)
    OBVIOUS
  <1>2. IsFiniteSet(J) /\ J \subseteq Month
    BY <1>1, JudgedMonths
  <1>3. IntegersOn(p, J) /\ IntegersOn(q, J) /\ \A m \in J : p[m] <= q[m]
    BY <1>2 DEF IntegersOn
  <1>4. PICK a, b : a = SumFunctionOnSet(p, J) /\ b = SumFunctionOnSet(q, J)
    OBVIOUS
  <1>5. a \in Int /\ b \in Int /\ a <= b
    BY <1>2, <1>3, <1>4, SumOnLeq, SumOnStep
  <1>6. TotalPaid(t, p, cutoff) = a /\ TotalPaid(t, q, cutoff) = b
    BY <1>1, <1>4, PaidDef
  <1>7. PICK x : x = TotalExpected(t, cutoff)
    OBVIOUS
  <1>8. x \in Int
    <2>1. Cardinality(J) \in Nat /\ t.premium \in Nat
      BY <1>2, FS_CardinalityType DEF Terms
    <2>2. QED
      BY <1>1, <1>7, <2>1 DEF TotalExpected
  <1>9. QED
    BY <1>5, <1>6, <1>7, <1>8 DEF TotalOutstanding, AtLeastZero

\* computePolicyStatus is monotone: another payment, for whatever month, makes the
\* status no worse and the balance no larger, for every policy and every moment.
THEOREM PayingNeverHurtsHolds ==
    ASSUME WarningAfter <= 2, Inputs
    PROVE  PayingNeverHurts
  <1> SUFFICES ASSUME NEW m \in Month,
                      NEW more, more = [paid EXCEPT ![m] = @ + 1]
               PROVE  /\ Rank(StatusOf(terms, more, reporting, now)) <= Rank(Status)
                      /\ TotalOutstanding(terms, more, Cutoff) <= TotalOutstanding(terms, paid, Cutoff)
    BY DEF PayingNeverHurts
  <1>1. more \in [Month -> Nat] /\ \A n \in Month : paid[n] <= more[n]
    BY DEF Inputs
  <1>2. QED
    BY <1>1, RankOfStatus, OutstandingShrinks DEF Inputs, Status, Cutoff

-------------------------------------------------------------------------------
(* IFRS 17.                                                                 *)

\* What rounding to the cent may change, without fractions.
LEMMA Rounding ==
    ASSUME NEW n \in Int, NEW d \in Nat \ {0}
    PROVE  /\ ToCents(n, d) \in Int
           /\ 2 * (d * ToCents(n, d)) <= 2 * n + d
           /\ 2 * n + d < 2 * (d * ToCents(n, d)) + 2 * d
           /\ n = 0 => ToCents(n, d) = 0
  <1>1. PICK b, a : b = 2 * d /\ a = 2 * n + d
    OBVIOUS
  <1>2. b \in Nat \ {0} /\ a \in Int
    BY <1>1
  <1>3. PICK q : q = a \div b
    OBVIOUS
  <1>4. q \in Int /\ b * q <= a /\ a < b * q + b
    BY <1>2, <1>3
  <1>5. ToCents(n, d) = q
    BY <1>1, <1>3 DEF ToCents
  <1>6. b * q = 2 * (d * q)
    BY <1>1, <1>2, <1>4
  <1>7. n = 0 => q = 0
    <2>1. SUFFICES ASSUME n = 0 PROVE q = 0
      OBVIOUS
    <2>2. a = d
      BY <1>1, <2>1
    <2>3. d * (2 * q) <= d /\ d < d * (2 * q) + 2 * d
      BY <1>1, <1>4, <1>6, <2>2
    <2>4. ~(q >= 1)
      BY <1>4, <2>3
    <2>5. ~(q <= -1)
      BY <1>4, <2>3
    <2>6. QED
      BY <1>4, <2>4, <2>5
  <1>8. QED
    BY <1>1, <1>4, <1>5, <1>6, <1>7

\* A positive factor of both sides may be left out.
LEMMA Factor ==
    ASSUME NEW d \in Nat \ {0}, NEW x \in Int, NEW y \in Int
    PROVE  /\ d * x \in Int /\ d * (x + y) = d * x + d * y /\ d * (x - y) = d * x - d * y
           /\ d * x <= d * y => x <= y
           /\ d * x < d * y => x < y
  OBVIOUS

\* What is not negative stays so.
LEMMA NotNegative ==
    ASSUME NEW n \in Nat, NEW d \in Nat \ {0}
    PROVE  ToCents(n, d) \in Nat
  <1>1. PICK q : q = ToCents(n, d)
    OBVIOUS
  <1>2. q \in Int /\ 2 * n + d < 2 * (d * q) + 2 * d
    BY <1>1, Rounding
  <1>3. PICK r : r = d * (q + 1)
    OBVIOUS
  <1>4. r = d * q + d /\ r \in Int /\ d * q \in Int
    BY <1>2, <1>3, Factor
  <1>5. 0 < r
    BY <1>2, <1>4
  <1>6. ~(q <= -1)
    BY <1>2, <1>3, <1>5
  <1>7. QED
    BY <1>1, <1>2, <1>6

\* What is shared out in two rounded parts over units of coverage is there up to
\* a cent: x + y = total * units, each part over Unit * units.
LEMMA TwoParts ==
    ASSUME NEW units \in Nat \ {0}, NEW k \in Nat \ {0}, NEW total \in Int,
           NEW x \in Int, NEW y \in Int, x + y = units * total,
           NEW d, d = k * units
    PROVE  /\ ToCents(x, d) \in Int /\ ToCents(y, d) \in Int
           /\ k * (ToCents(x, d) + ToCents(y, d)) \in Int
           /\ k * (ToCents(x, d) + ToCents(y, d)) <= total + k
           /\ total - k < k * (ToCents(x, d) + ToCents(y, d))
  <1>1. d \in Nat \ {0}
    OBVIOUS
  <1>2. PICK p, q : p = ToCents(x, d) /\ q = ToCents(y, d)
    OBVIOUS
  <1>3. /\ p \in Int /\ q \in Int
        /\ 2 * (d * p) <= 2 * x + d /\ 2 * x + d < 2 * (d * p) + 2 * d
        /\ 2 * (d * q) <= 2 * y + d /\ 2 * y + d < 2 * (d * q) + 2 * d
    BY <1>1, <1>2, Rounding
  <1>4. d * p \in Int /\ d * q \in Int /\ d * (p + q) = d * p + d * q
    BY <1>1, <1>3, Factor
  <1>5. d * (p + q) <= (x + y) + d /\ (x + y) - d < d * (p + q)
    BY <1>1, <1>3, <1>4
  <1>6. PICK s : s = k * (p + q)
    OBVIOUS
  <1>7. s \in Int /\ d * (p + q) = units * s
    BY <1>3, <1>6
  <1>8. units * s <= units * (total + k) /\ units * (total - k) < units * s
    <2>1. /\ units * (total + k) = units * total + units * k
          /\ units * (total - k) = units * total - units * k
      BY Factor
    <2>2. units * k = d /\ units * total \in Int
      OBVIOUS
    <2>3. QED
      BY <1>1, <1>5, <1>7, <2>1, <2>2
  <1>9. s <= total + k /\ total - k < s
    BY <1>7, <1>8, Factor
  <1>10. QED
    BY <1>2, <1>3, <1>6, <1>7, <1>9

\* A margin rolls forward, for every group and every month.
LEMMA MarginRolls ==
    ASSUME NEW g \in GmmGroupState, NEW m \in GmmPeriodInputs,
           NEW r, r = computeGmmPeriod(g, m)
    PROVE  /\ Near(r.closingCsm + r.csmRecognisedInPnl + m.futureService,
                   g.openingCsm + r.interestAccretionOnCsm + r.lossRecognisedInPeriod, 2)
           /\ r.csmRecognisedInPnl \in Int /\ r.interestAccretionOnCsm \in Int
           /\ m.futureService = 0 => r.lossRecognisedInPeriod = 0
  <1>1. PICK units, csm0, rate, fs, cu :
            /\ units = AtLeast(g.coverageUnitsRemainingAtOpen, 1)
            /\ csm0 = g.openingCsm /\ rate = g.lockedInRate
            /\ fs = m.futureService /\ cu = m.coverageUnits
    OBVIOUS
  <1>2. /\ units \in Nat \ {0} /\ csm0 \in Nat /\ rate \in Nat
        /\ fs \in Int /\ cu \in Nat
    BY <1>1 DEF GmmGroupState, GmmPeriodInputs, AtLeast
  <1>3. PICK csm, loss, k : /\ csm = CsmAfterUnlock(g, fs) /\ loss = LossOfPeriod(g, fs)
                            /\ k = csm0 * rate
    OBVIOUS
  <1>4. /\ csm \in Nat /\ loss \in Nat /\ k \in Nat
        /\ csm - loss = 1000 * csm0 + k - 1000 * fs
        /\ loss > 0 => csm = 0
    <2>1. PICK a, b : /\ a = csm0 * (1000 + rate) - 1000 * fs
                      /\ b = 1000 * fs - csm0 * (1000 + rate)
      OBVIOUS
    <2>2. a \in Int /\ b = -a /\ k \in Nat
      BY <1>2, <1>3, <2>1
    <2>3. csm = AtLeast(a, 0) /\ loss = AtLeast(b, 0)
      BY <1>1, <1>3, <2>1 DEF CsmAfterUnlock, LossOfPeriod, Unit
    <2>4. a = 1000 * csm0 + k - 1000 * fs
      BY <1>2, <1>3, <2>1
    <2>5. QED
      BY <2>2, <2>3, <2>4 DEF AtLeast
  <1>5. PICK den, left : den = 1000 * units /\ left = units - cu
    OBVIOUS
  <1>6. /\ r.closingCsm = ToCents(csm * left, den)
        /\ r.csmRecognisedInPnl = ToCents(csm * cu, den)
        /\ r.interestAccretionOnCsm = ToCents(k, 1000)
        /\ r.lossRecognisedInPeriod = ToCents(loss, 1000)
    BY <1>1, <1>3, <1>5 DEF computeGmmPeriod, Unit
  <1>7. PICK p, q, i, l : /\ p = ToCents(csm * left, den) /\ q = ToCents(csm * cu, den)
                          /\ i = ToCents(k, 1000) /\ l = ToCents(loss, 1000)
    OBVIOUS
  <1>8. /\ p \in Int /\ q \in Int
        /\ 1000 * (p + q) <= csm + 1000 /\ csm - 1000 < 1000 * (p + q)
    <2>1. csm * left \in Int /\ csm * cu \in Int /\ csm * left + csm * cu = units * csm
      BY <1>2, <1>4, <1>5
    <2>2. 1000 \in Nat \ {0} /\ csm \in Int
      BY <1>4
    <2>3. QED
      BY <1>2, <1>5, <1>7, <2>1, <2>2, TwoParts
  <1>9. /\ i \in Int /\ 2 * (1000 * i) <= 2 * k + 1000 /\ 2 * k + 1000 < 2 * (1000 * i) + 2000
        /\ l \in Int /\ 2 * (1000 * l) <= 2 * loss + 1000 /\ 2 * loss + 1000 < 2 * (1000 * l) + 2000
    <2>1. 1000 \in Nat \ {0} /\ k \in Int /\ loss \in Int
      BY <1>4
    <2>2. /\ i \in Int /\ 2 * (1000 * i) <= 2 * k + 1000 /\ 2 * k + 1000 < 2 * (1000 * i) + 2 * 1000
          /\ l \in Int /\ 2 * (1000 * l) <= 2 * loss + 1000 /\ 2 * loss + 1000 < 2 * (1000 * l) + 2 * 1000
      BY <1>7, <2>1, Rounding
    <2>3. QED
      BY <2>2
  <1>10. /\ (p + q + fs) - (csm0 + i + l) <= 2
         /\ (csm0 + i + l) - (p + q + fs) <= 2
    <2>1. PICK u : u = p + q
      OBVIOUS
    <2>2. /\ u \in Int /\ 1000 * u <= csm + 1000 /\ csm - 1000 < 1000 * u
      BY <1>8, <2>1
    <2>3. /\ 1000 * i <= k + 500 /\ k - 500 < 1000 * i /\ i \in Int
          /\ 1000 * l <= loss + 500 /\ loss - 500 < 1000 * l /\ l \in Int
      BY <1>4, <1>9
    <2>4. csm = 1000 * csm0 + k - 1000 * fs + loss
      BY <1>2, <1>4
    <2>5. /\ 1000 * u - 1000 * i - 1000 * l - 1000 * csm0 + 1000 * fs < 3000
          /\ 1000 * u - 1000 * i - 1000 * l - 1000 * csm0 + 1000 * fs > -3000
      BY <1>2, <1>4, <2>2, <2>3, <2>4
    <2>6. PICK e : e = u - i - l - csm0 + fs
      OBVIOUS
    <2>7. e \in Int /\ 1000 * e < 3000 /\ 1000 * e > -3000
      BY <1>2, <2>2, <2>3, <2>5, <2>6
    <2>8. e <= 2 /\ -e <= 2
      BY <2>7
    <2>9. /\ (p + q + fs) - (csm0 + i + l) = e
          /\ (csm0 + i + l) - (p + q + fs) = -e
      BY <1>2, <1>8, <2>1, <2>3, <2>6
    <2>10. QED
      BY <2>8, <2>9
  <1>11. fs = 0 => l = 0
    <2>1. SUFFICES ASSUME fs = 0 PROVE l = 0
      OBVIOUS
    <2>2. loss = 0
      <3>1. PICK x : x = csm0 * (1000 + rate)
        OBVIOUS
      <3>2. x \in Nat /\ loss = AtLeast(1000 * 0 - x, 0)
        BY <1>1, <1>2, <1>3, <2>1, <3>1 DEF LossOfPeriod, Unit
      <3>3. QED
        BY <3>2 DEF AtLeast
    <2>3. 1000 \in Nat \ {0} /\ 0 \in Int
      OBVIOUS
    <2>4. ToCents(0, 1000) = 0
      BY <2>3, Rounding
    <2>5. QED
      BY <1>7, <2>2, <2>4, Zenon
  <1>12. r.csmRecognisedInPnl \in Int /\ r.interestAccretionOnCsm \in Int
    BY <1>6, <1>7, <1>8, <1>9
  <1>13. Near(p + q + fs, csm0 + i + l, 2)
    BY <1>10 DEF Near
  <1>14. /\ r.closingCsm + r.csmRecognisedInPnl + m.futureService = p + q + fs
         /\ g.openingCsm + r.interestAccretionOnCsm + r.lossRecognisedInPeriod = csm0 + i + l
    BY <1>1, <1>6, <1>7
  <1>15. m.futureService = 0 => r.lossRecognisedInPeriod = 0
    BY <1>1, <1>6, <1>7, <1>11
  <1>16. QED
    BY <1>12, <1>13, <1>14, <1>15

\* What a month closes with is what another may open with.
LEMMA ClosingGmm ==
    ASSUME NEW g \in GmmGroupState, NEW m \in GmmPeriodInputs, m.coverageUnits = 1,
           NEW r, r = computeGmmPeriod(g, m)
    PROVE  r.closingFcf \in Int /\ r.closingRiskAdjustment \in Nat /\ r.closingCsm \in Nat
  <1>1. PICK units, left, den : /\ units = AtLeast(g.coverageUnitsRemainingAtOpen, 1)
                                /\ left = units - 1 /\ den = Unit * units
    OBVIOUS
  <1>2. units \in Nat \ {0} /\ left \in Nat /\ den \in Nat \ {0}
    BY <1>1 DEF GmmGroupState, AtLeast, Unit
  <1>3. PICK flow : flow = g.openingFcf * (Unit + m.currentRate)
                 + Unit * (m.claimsPaid + m.pastService + m.futureService - m.premiums)
    OBVIOUS
  <1>4. PICK a : a = g.openingCsm * (Unit + g.lockedInRate) - Unit * m.futureService
    OBVIOUS
  <1>5. PICK csm, base, rate : /\ csm = CsmAfterUnlock(g, m.futureService)
                               /\ base = g.openingRiskAdjustment
                               /\ rate = Unit + m.currentRate
    OBVIOUS
  <1>6. flow \in Int /\ base \in Nat /\ rate \in Nat
    BY <1>3, <1>5 DEF GmmGroupState, GmmPeriodInputs, Unit
  <1>7. csm \in Nat
    <2>1. a \in Int
      BY <1>4 DEF GmmGroupState, GmmPeriodInputs, Unit
    <2>2. QED
      BY <1>4, <1>5, <2>1 DEF CsmAfterUnlock, AtLeast
  <1>8. PICK x, y, z : x = units * flow /\ y = base * left * rate /\ z = csm * left
    OBVIOUS
  <1>9. x \in Int /\ y \in Nat /\ z \in Nat
    <2>1. base * left \in Nat
      BY <1>2, <1>6
    <2>2. y \in Nat
      BY <1>6, <1>8, <2>1
    <2>3. QED
      BY <1>2, <1>6, <1>7, <1>8, <2>2
  <1>10. /\ r.closingFcf = ToCents(x, den)
         /\ r.closingRiskAdjustment = ToCents(y, den)
         /\ r.closingCsm = ToCents(z, den)
    BY <1>1, <1>3, <1>5, <1>8 DEF computeGmmPeriod
  <1>11. QED
    BY <1>2, <1>9, <1>10, Rounding, NotNegative

\* A premium is earned or still to be earned.
LEMMA PremiumsEarned ==
    ASSUME NEW g \in PaaGroupState, NEW m \in PaaPeriodInputs, m.monthsElapsed = 1,
           NEW r, r = computePaaPeriod(g, m)
    PROVE  /\ r.closingLrc \in Int /\ r.insuranceRevenue \in Int
           /\ Near(r.closingLrc + r.insuranceRevenue, g.openingLrc + m.premiums, 1)
  <1>1. PICK remaining, available : /\ remaining = RemainingMonthsAtOpen(g, m)
                                    /\ available = g.openingLrc + m.premiums
    OBVIOUS
  <1>2. remaining \in Nat \ {0} /\ available \in Nat
    BY <1>1 DEF RemainingMonthsAtOpen, AtLeast, PaaGroupState, PaaPeriodInputs
  <1>3. PICK x, y : x = available * (remaining - 1) /\ y = available * 1
    OBVIOUS
  <1>4. x \in Nat /\ y \in Int /\ x + y = remaining * available
    BY <1>2, <1>3
  <1>5. PICK p, q : p = ToCents(x, remaining) /\ q = ToCents(y, remaining)
    OBVIOUS
  <1>6. r.closingLrc = p /\ r.insuranceRevenue = q
    <2>1. AtLeast(x, 0) = x
      BY <1>4 DEF AtLeast
    <2>2. /\ r.closingLrc = ToCents(AtLeast(x, 0), remaining)
          /\ r.insuranceRevenue = ToCents(y, remaining)
      BY <1>1, <1>3 DEF computePaaPeriod
    <2>3. QED
      BY <1>5, <2>1, <2>2
  <1>7. p \in Int /\ q \in Int /\ p + q <= available + 1 /\ available - 1 < p + q
    <2>1. remaining = 1 * remaining /\ 1 \in Nat \ {0} /\ available \in Int /\ x \in Int
      BY <1>2, <1>4
    <2>2. /\ p \in Int /\ q \in Int /\ 1 * (p + q) <= available + 1
          /\ available - 1 < 1 * (p + q)
      BY <1>2, <1>4, <1>5, <2>1, TwoParts
    <2>3. QED
      BY <2>2
  <1>8. Near(p + q, available, 1)
    BY <1>2, <1>7 DEF Near
  <1>9. QED
    BY <1>1, <1>6, <1>7, <1>8

LEMMA ClosingPaa ==
    ASSUME NEW g \in PaaGroupState, NEW m \in PaaPeriodInputs, m.monthsElapsed = 1,
           NEW r, r = computePaaPeriod(g, m)
    PROVE  r.closingLrc \in Nat /\ r.closingLicBestEstimate \in Nat
  <1>1. PICK remaining, available :
            /\ remaining = RemainingMonthsAtOpen(g, m)
            /\ available = g.openingLrc + m.premiums
    OBVIOUS
  <1>2. remaining \in Nat \ {0} /\ available \in Nat
    BY <1>1 DEF RemainingMonthsAtOpen, AtLeast, PaaGroupState, PaaPeriodInputs
  <1>3. PICK lic, rate : /\ lic = AtLeast(g.openingLicBestEstimate + m.newClaims - m.claimsPaid, 0)
                         /\ rate = Unit + m.rate
    OBVIOUS
  <1>4. lic \in Nat /\ rate \in Nat
    BY <1>3 DEF AtLeast, PaaGroupState, PaaPeriodInputs, Unit
  <1>5. PICK x, y : x = AtLeast(available * (remaining - 1), 0) /\ y = lic * rate
    OBVIOUS
  <1>6. x \in Nat /\ y \in Nat
    <2>1. available * (remaining - 1) \in Int
      BY <1>2
    <2>2. QED
      BY <1>4, <1>5, <2>1 DEF AtLeast
  <1>7. r.closingLrc = ToCents(x, remaining) /\ r.closingLicBestEstimate = ToCents(y, Unit)
    BY <1>1, <1>3, <1>5 DEF computePaaPeriod
  <1>8. QED
    BY <1>2, <1>6, <1>7, NotNegative DEF Unit

-------------------------------------------------------------------------------
(* The month-end close.                                                     *)

CloseSpec == CloseInit /\ [][CloseNext]_closeVars

IsRun(q) ==
    q = [step |-> q.step, period |-> q.period, todo |-> q.todo, group |-> q.group,
         previous |-> q.previous, row |-> q.row]
Closable(g) == Groups[g].measurementModel = "PAA" \/ GmmClosable(g, << >>)
MeasuredIn(g, period) ==
    \E i \in DOMAIN measurements : measurements[i].group = g /\ measurements[i].period = period
\* A group that can be closed waits, is in hand or is measured.
Placed(q, g) ==
    \/ \E n \in DOMAIN q.todo : q.todo[n] = g
    \/ q.step \in {"aggregate", "save"} /\ q.group = g
    \/ MeasuredIn(g, q.period)
RunOK(q) ==
    /\ IsRun(q)
    /\ q.step # "idle" =>
         /\ q.todo \in Seq(DOMAIN Groups)
         /\ \A g \in DOMAIN Groups : Closable(g) => Placed(q, g)
    /\ q.step = "save" => q.row.group = q.group /\ q.row.period = q.period
CloseInv ==
    /\ \E S : measurements \in Seq(S)
    /\ close = [r \in CloseRuns |-> close[r]]
    /\ \A r \in CloseRuns : RunOK(close[r])

\* No measurement is changed or lost.
RowsStay ==
    \A i \in DOMAIN measurements : i \in DOMAIN measurements' /\ measurements'[i] = measurements[i]
LEMMA RunStays ==
    ASSUME RowsStay, NEW q, RunOK(q)
    PROVE  RunOK(q)'
  <1>1. \A g, period : MeasuredIn(g, period) => MeasuredIn(g, period)'
    BY DEF RowsStay, MeasuredIn
  <1>2. \A g : Placed(q, g) => Placed(q, g)'
    BY <1>1 DEF Placed
  <1>3. QED
    BY <1>2 DEF RunOK
LEMMA RunTurns ==
    ASSUME CloseInv, RowsStay, NEW r \in CloseRuns, NEW q, close' = [close EXCEPT ![r] = q],
           RunOK(q)', \E S : measurements' \in Seq(S)
    PROVE  CloseInv'
  <1>1. \A s \in CloseRuns : close'[s] = IF s = r THEN q ELSE close[s]
    BY DEF CloseInv
  <1>2. ASSUME NEW s \in CloseRuns PROVE RunOK(close[s])'
    <2>1. PICK v : v = close[s]
      OBVIOUS
    <2>2. RunOK(v)'
      BY <2>1, RunStays DEF CloseInv
    <2>3. QED
      BY <1>1, <2>1, <2>2
  <1>3. QED
    BY <1>2 DEF CloseInv
LEMMA NoRowStays == ASSUME UNCHANGED measurements PROVE RowsStay
  BY DEF RowsStay

LEMMA StartCloseStep ==
    ASSUME CloseInv, Groups \in Seq(Ifrs17Group), NEW r \in CloseRuns, NEW period,
           StartClose(r, period)
    PROVE  CloseInv'
  <1>1. PICK todo : todo = [g \in DOMAIN Groups |-> g]
    OBVIOUS
  <1>2. PICK q : q = [Off EXCEPT !.step = "next", !.period = period, !.todo = todo]
    OBVIOUS
  <1>3. IsRun(q) /\ q.step = "next" /\ q.period = period /\ q.todo = todo
    BY <1>2 DEF Off, IsRun
  <1>4. todo \in Seq(DOMAIN Groups)
    <2>1. DOMAIN Groups = 1 .. Len(Groups) /\ Len(Groups) \in Nat
      BY LenProperties
    <2>2. QED
      BY <1>1, <2>1, SeqDef
  <1>5. \A g \in DOMAIN Groups : Placed(q, g)
    BY <1>1, <1>3 DEF Placed
  <1>6. RunOK(q) /\ close' = [close EXCEPT ![r] = q] /\ UNCHANGED measurements
    BY <1>1, <1>2, <1>3, <1>4, <1>5 DEF RunOK, StartClose, Proceed
  <1>7. RowsStay /\ RunOK(q)'
    BY <1>6, NoRowStays, RunStays
  <1>8. QED
    BY <1>6, <1>7, RunTurns DEF CloseInv

LEMMA ReadPreviousStep ==
    ASSUME CloseInv, NEW r \in CloseRuns, ReadPrevious(r)
    PROVE  CloseInv'
  <1>1. PICK v : v = close[r]
    OBVIOUS
  <1>2. /\ v.step = "next" /\ RunOK(v) /\ v.todo # << >> /\ v.todo \in Seq(DOMAIN Groups)
        /\ UNCHANGED measurements
    BY <1>1 DEF ReadPrevious, CloseAt, CloseInv, RunOK
  <1>3. PICK previous : close' = [close EXCEPT ![r] =
           [v EXCEPT !.step = "aggregate", !.group = Head(v.todo), !.todo = Tail(@),
                     !.previous = previous]]
    BY <1>1 DEF ReadPrevious, Proceed
  <1>4. PICK q : q = [v EXCEPT !.step = "aggregate", !.group = Head(v.todo), !.todo = Tail(@),
                               !.previous = previous]
    OBVIOUS
  <1>5. IsRun(q) /\ q.step = "aggregate" /\ q.period = v.period /\ q.group = Head(v.todo)
        /\ q.todo = Tail(v.todo)
    BY <1>2, <1>4 DEF RunOK, IsRun
  <1>6. Tail(v.todo) \in Seq(DOMAIN Groups)
    BY <1>2, HeadTailProperties
  <1>7. ASSUME NEW g \in DOMAIN Groups, Closable(g) PROVE Placed(q, g)
    <2>1. Placed(v, g)
      BY <1>2, <1>7 DEF RunOK
    <2>2. ASSUME NEW n \in DOMAIN v.todo, v.todo[n] = g, n # 1
          PROVE  n - 1 \in DOMAIN Tail(v.todo) /\ Tail(v.todo)[n - 1] = g
      BY <1>2, <2>2, HeadTailProperties, LenProperties
    <2>3. v.todo[1] = Head(v.todo)
      BY <1>2, HeadTailProperties
    <2>4. QED
      BY <1>2, <1>5, <2>1, <2>2, <2>3 DEF Placed
  <1>8. RunOK(q) /\ close' = [close EXCEPT ![r] = q]
    BY <1>3, <1>4, <1>5, <1>6, <1>7 DEF RunOK
  <1>9. RowsStay /\ RunOK(q)'
    BY <1>2, <1>8, NoRowStays, RunStays
  <1>10. QED
    BY <1>2, <1>8, <1>9, RunTurns DEF CloseInv

LEMMA SkipGroupStep ==
    ASSUME CloseInv, NEW r \in CloseRuns, SkipGroup(r)
    PROVE  CloseInv'
  <1>1. PICK v : v = close[r]
    OBVIOUS
  <1>2. /\ v.step = "aggregate" /\ RunOK(v) /\ UNCHANGED measurements
        /\ Groups[v.group].measurementModel = "GMM" /\ ~GmmClosable(v.group, v.previous)
    BY <1>1 DEF SkipGroup, CloseAt, CloseInv
  <1>3. ~Closable(v.group)
    BY <1>2 DEF Closable, GmmClosable
  <1>4. PICK q : q = [v EXCEPT !.step = "next", !.group = 0, !.previous = << >>]
    OBVIOUS
  <1>5. IsRun(q) /\ q.step = "next" /\ q.period = v.period /\ q.todo = v.todo
    BY <1>2, <1>4 DEF RunOK, IsRun
  <1>6. ASSUME NEW g \in DOMAIN Groups, Closable(g) PROVE Placed(q, g)
    BY <1>2, <1>3, <1>5, <1>6 DEF RunOK, Placed
  <1>7. RunOK(q) /\ close' = [close EXCEPT ![r] = q]
    BY <1>1, <1>2, <1>4, <1>5, <1>6 DEF RunOK, SkipGroup, Proceed
  <1>8. RowsStay /\ RunOK(q)'
    BY <1>2, <1>7, NoRowStays, RunStays
  <1>9. QED
    BY <1>2, <1>7, <1>8, RunTurns DEF CloseInv

LEMMA AggregateStep ==
    ASSUME CloseInv, NEW r \in CloseRuns, Aggregate(r)
    PROVE  CloseInv'
  <1>1. PICK v : v = close[r]
    OBVIOUS
  <1>2. v.step = "aggregate" /\ RunOK(v) /\ UNCHANGED measurements
    BY <1>1 DEF Aggregate, CloseAt, CloseInv
  <1>3. PICK row : /\ row.group = v.group /\ row.period = v.period
                   /\ close' = [close EXCEPT ![r] = [v EXCEPT !.step = "save", !.row = row]]
    <2>1. PICK settled, row :
             /\ \/ row = PaaRow(v.group, v.period, v.previous, recorded[v.group][v.period],
                               claimed[v.group][v.period], settled)
                \/ row = GmmRow(v.group, v.period, v.previous, recorded[v.group][v.period],
                               claimed[v.group][v.period], settled)
             /\ close' = [close EXCEPT ![r] = [v EXCEPT !.step = "save", !.row = row]]
      BY <1>1 DEF Aggregate, Proceed
    <2>2. ASSUME NEW g, NEW m, NEW previous, NEW premiums, NEW claims, NEW cash
          PROVE  /\ PaaRow(g, m, previous, premiums, claims, cash).group = g
                 /\ PaaRow(g, m, previous, premiums, claims, cash).period = m
                 /\ GmmRow(g, m, previous, premiums, claims, cash).group = g
                 /\ GmmRow(g, m, previous, premiums, claims, cash).period = m
      BY DEF PaaRow, GmmRow
    <2>3. row.group = v.group /\ row.period = v.period
      BY <2>1, <2>2
    <2>4. QED
      BY <2>1, <2>3
  <1>4. PICK q : q = [v EXCEPT !.step = "save", !.row = row]
    OBVIOUS
  <1>5. IsRun(q) /\ q.step = "save" /\ q.period = v.period /\ q.todo = v.todo
        /\ q.group = v.group /\ q.row = row
    BY <1>2, <1>4 DEF RunOK, IsRun
  <1>6. ASSUME NEW g \in DOMAIN Groups, Closable(g) PROVE Placed(q, g)
    BY <1>2, <1>5, <1>6 DEF RunOK, Placed
  <1>7. RunOK(q) /\ close' = [close EXCEPT ![r] = q]
    BY <1>2, <1>3, <1>4, <1>5, <1>6 DEF RunOK
  <1>8. RowsStay /\ RunOK(q)'
    BY <1>2, <1>7, NoRowStays, RunStays
  <1>9. QED
    BY <1>2, <1>7, <1>8, RunTurns DEF CloseInv

LEMMA SaveMeasurementStep ==
    ASSUME CloseInv, NEW r \in CloseRuns, SaveMeasurement(r)
    PROVE  CloseInv' /\ RowsStay
  <1>1. PICK v : v = close[r]
    OBVIOUS
  <1>2. v.step = "save" /\ RunOK(v) /\ measurements' = Append(measurements, v.row)
    BY <1>1 DEF SaveMeasurement, CloseAt, CloseInv
  <1>3. PICK T : v.row \in T /\ measurements \in Seq(T)
    <2>1. PICK S : measurements \in Seq(S)
      BY DEF CloseInv
    <2>2. PICK T : T = S \union {v.row}
      OBVIOUS
    <2>3. measurements \in Seq(T)
      BY <2>1, <2>2
    <2>4. QED
      BY <2>2, <2>3
  <1>4. /\ measurements' \in Seq(T) /\ RowsStay
        /\ Len(measurements) + 1 \in DOMAIN measurements'
        /\ measurements'[Len(measurements) + 1] = v.row
    BY <1>2, <1>3, AppendProperties, LenProperties DEF RowsStay
  <1>5. MeasuredIn(v.group, v.period)'
    BY <1>2, <1>4 DEF MeasuredIn, RunOK
  <1>6. PICK q : q = [v EXCEPT !.step = "next", !.group = 0, !.previous = << >>, !.row = << >>]
    OBVIOUS
  <1>7. IsRun(q) /\ q.step = "next" /\ q.period = v.period /\ q.todo = v.todo
    BY <1>2, <1>6 DEF RunOK, IsRun
  <1>8. RunOK(v)'
    BY <1>2, <1>4, RunStays
  <1>9. ASSUME NEW g \in DOMAIN Groups, Closable(g) PROVE Placed(q, g)'
    BY <1>2, <1>5, <1>7, <1>8, <1>9 DEF RunOK, Placed
  <1>10. RunOK(q)' /\ close' = [close EXCEPT ![r] = q]
    BY <1>1, <1>2, <1>6, <1>7, <1>8, <1>9 DEF RunOK, SaveMeasurement, Proceed
  <1>11. QED
    BY <1>4, <1>10, RunTurns

LEMMA EndCloseStep ==
    ASSUME CloseInv, NEW r \in CloseRuns, EndClose(r)
    PROVE  /\ CloseInv'
           /\ \A g \in DOMAIN Groups : Closable(g) => MeasuredIn(g, close[r].period)
  <1>1. PICK v : v = close[r]
    OBVIOUS
  <1>2. /\ v.step = "next" /\ RunOK(v) /\ v.todo = << >> /\ UNCHANGED measurements
        /\ close' = [close EXCEPT ![r] = Off]
    BY <1>1 DEF EndClose, CloseAt, CloseInv, Proceed
  <1>3. ASSUME NEW g \in DOMAIN Groups, Closable(g) PROVE MeasuredIn(g, v.period)
    BY <1>2, <1>3 DEF RunOK, Placed
  <1>4. RunOK(Off)
    BY DEF RunOK, IsRun, Off
  <1>5. RowsStay /\ RunOK(Off)'
    BY <1>2, <1>4, NoRowStays, RunStays
  <1>6. QED
    BY <1>1, <1>2, <1>3, <1>5, RunTurns DEF CloseInv

\* What a step of the close does to a run that is at work.
RestClosed ==
    \A r \in CloseRuns : ~CloseAt(r, "idle") /\ close'[r].step = "idle" =>
        \A g \in DOMAIN Groups : Closable(g) => MeasuredIn(g, close[r].period)
LEMMA OtherRuns ==
    ASSUME CloseInv, NEW r \in CloseRuns, NEW q, close' = [close EXCEPT ![r] = q],
           \/ q.step # "idle"
           \/ \A g \in DOMAIN Groups : Closable(g) => MeasuredIn(g, close[r].period)
    PROVE  RestClosed
  <1>1. ASSUME NEW s \in CloseRuns PROVE close'[s] = IF s = r THEN q ELSE close[s]
    BY DEF CloseInv
  <1>2. QED
    BY <1>1 DEF RestClosed, CloseAt
LEMMA CloseNextStep ==
    ASSUME CloseInv, Groups \in Seq(Ifrs17Group), [CloseNext]_closeVars
    PROVE  CloseInv' /\ RestClosed
  <1>1. ASSUME UNCHANGED <<measurements, close>> PROVE CloseInv' /\ RestClosed
    <2>1. RowsStay
      BY <1>1, NoRowStays
    <2>2. ASSUME NEW s \in CloseRuns PROVE RunOK(close[s])'
      <3>1. PICK v : v = close[s]
        OBVIOUS
      <3>2. QED
        BY <1>1, <2>1, <3>1, RunStays DEF CloseInv
    <2>3. QED
      BY <1>1, <2>2 DEF CloseInv, RestClosed, CloseAt
  <1>2. ASSUME NEW r \in CloseRuns, CloseStep(r) \/ \E m \in 1 .. Months : StartClose(r, m)
        PROVE  CloseInv' /\ RestClosed
    <2>1. CASE ReadPrevious(r)
      <3>1. PICK q : q.step # "idle" /\ close' = [close EXCEPT ![r] = q]
        <4>1. PICK v : v = close[r]
          OBVIOUS
        <4>2. IsRun(v)
          BY <4>1 DEF CloseInv, RunOK
        <4>3. PICK previous : close' = [close EXCEPT ![r] =
                 [v EXCEPT !.step = "aggregate", !.group = Head(v.todo), !.todo = Tail(@),
                           !.previous = previous]]
          BY <2>1, <4>1 DEF ReadPrevious, Proceed
        <4>4. PICK q : q = [v EXCEPT !.step = "aggregate", !.group = Head(v.todo),
                                     !.todo = Tail(@), !.previous = previous]
          OBVIOUS
        <4>5. q.step = "aggregate"
          BY <4>2, <4>4 DEF IsRun
        <4>6. QED
          BY <4>3, <4>4, <4>5
      <3>2. QED
        BY <2>1, <3>1, OtherRuns, ReadPreviousStep
    <2>2. CASE SkipGroup(r)
      <3>1. PICK v : v = close[r]
        OBVIOUS
      <3>2. IsRun(v)
        BY <3>1 DEF CloseInv, RunOK
      <3>3. PICK q : q = [v EXCEPT !.step = "next", !.group = 0, !.previous = << >>]
        OBVIOUS
      <3>4. q.step = "next"
        BY <3>2, <3>3 DEF IsRun
      <3>5. close' = [close EXCEPT ![r] = q]
        BY <2>2, <3>1, <3>3 DEF SkipGroup, Proceed
      <3>6. QED
        BY <2>2, <3>4, <3>5, OtherRuns, SkipGroupStep
    <2>3. CASE Aggregate(r)
      <3>1. PICK v : v = close[r]
        OBVIOUS
      <3>2. IsRun(v)
        BY <3>1 DEF CloseInv, RunOK
      <3>3. PICK row : close' = [close EXCEPT ![r] = [v EXCEPT !.step = "save", !.row = row]]
        BY <2>3, <3>1 DEF Aggregate, Proceed
      <3>4. PICK q : q = [v EXCEPT !.step = "save", !.row = row]
        OBVIOUS
      <3>5. q.step = "save"
        BY <3>2, <3>4 DEF IsRun
      <3>6. QED
        BY <2>3, <3>3, <3>4, <3>5, OtherRuns, AggregateStep
    <2>4. CASE SaveMeasurement(r)
      <3>1. PICK v : v = close[r]
        OBVIOUS
      <3>2. IsRun(v)
        BY <3>1 DEF CloseInv, RunOK
      <3>3. PICK q : q = [v EXCEPT !.step = "next", !.group = 0, !.previous = << >>,
                                   !.row = << >>]
        OBVIOUS
      <3>4. q.step = "next"
        BY <3>2, <3>3 DEF IsRun
      <3>5. close' = [close EXCEPT ![r] = q]
        BY <2>4, <3>1, <3>3 DEF SaveMeasurement, Proceed
      <3>6. QED
        BY <2>4, <3>4, <3>5, OtherRuns, SaveMeasurementStep
    <2>5. CASE EndClose(r)
      <3>1. PICK q : q = Off
        OBVIOUS
      <3>2. close' = [close EXCEPT ![r] = q]
        BY <2>5, <3>1 DEF EndClose, Proceed
      <3>3. QED
        BY <2>5, <3>2, OtherRuns, EndCloseStep
    <2>6. ASSUME NEW m \in 1 .. Months, StartClose(r, m) PROVE CloseInv' /\ RestClosed
      <3>1. PICK todo : todo = [g \in DOMAIN Groups |-> g]
        OBVIOUS
      <3>2. PICK q : q = [Off EXCEPT !.step = "next", !.period = m, !.todo = todo]
        OBVIOUS
      <3>3. q.step = "next"
        BY <3>2 DEF Off
      <3>4. close' = [close EXCEPT ![r] = q]
        BY <2>6, <3>1, <3>2 DEF StartClose, Proceed
      <3>5. QED
        BY <2>6, <3>3, <3>4, OtherRuns, StartCloseStep
    <2>7. QED
      BY <1>2, <2>1, <2>2, <2>3, <2>4, <2>5, <2>6 DEF CloseStep
  <1>3. QED
    BY <1>1, <1>2 DEF CloseNext, RecordPremium, closeVars

LEMMA CloseStarts == CloseInit => CloseInv
  <1>1. RunOK(Off)
    BY DEF RunOK, IsRun, Off
  <1>2. << >> \in Seq({})
    BY EmptySeq
  <1>3. QED
    BY <1>1, <1>2 DEF CloseInit, CloseInv

THEOREM CloseInvariant == ASSUME GroupsTyped PROVE CloseSpec => []CloseInv
  <1>1. CloseInv /\ [CloseNext]_closeVars => CloseInv'
    BY CloseNextStep DEF GroupsTyped
  <1>2. QED
    BY <1>1, CloseStarts, PTL DEF CloseSpec

\* process and runForPeriod, "one group's failure must not block the rest of the
\* book from closing" (ifrs17-batch-close.processor.ts): whatever groups there
\* are, however many runs of the job and of the endpoint work at once and whatever
\* premiums come in between, a run that ends leaves a measurement of its month for
\* every group that can be closed.
THEOREM RunClosesTheRestHolds == ASSUME GroupsTyped PROVE CloseSpec => RunClosesTheRest
  <1>1. CloseInv /\ [CloseNext]_closeVars =>
            [\A r \in CloseRuns : ~CloseAt(r, "idle") /\ close'[r].step = "idle" =>
               \A g \in DOMAIN Groups :
                  Groups[g].measurementModel = "PAA" \/ GmmClosable(g, << >>) =>
                     \E i \in DOMAIN measurements :
                        measurements[i].group = g /\ measurements[i].period = close[r].period
            ]_closeVars
    BY CloseNextStep DEF GroupsTyped, RestClosed, Closable, MeasuredIn
  <1>2. CloseSpec => []CloseInv
    BY CloseInvariant
  <1>3. QED
    BY <1>1, <1>2, PTL DEF CloseSpec, RunClosesTheRest
-------------------------------------------------------------------------------
(* What the closes of a group earn, month after month.                      *)

IsPaa(g) == Groups[g].measurementModel = "PAA"
\* The row of a PAA group holds amounts; the cash flows of a GMM group may be negative.
RowTyped(row) ==
    /\ row.group \in DOMAIN Groups
    /\ row.period \in 1 .. Months
    /\ IsPaa(row.group) =>
         /\ row.premiums \in Nat /\ row.closingLrc \in Nat /\ row.closingLicBestEstimate \in Nat
         /\ row.insuranceRevenue \in Int
    /\ ~IsPaa(row.group) =>
         /\ row.closingFcf \in Int /\ row.closingRiskAdjustment \in Nat /\ row.closingCsm \in Nat
         /\ row.interestAccretionOnCsm \in Int /\ row.csmRecognisedInPnl \in Int
\* No month of the group from this one on is measured.
Ahead(g, period) ==
    \A i \in DOMAIN measurements : measurements[i].group = g => measurements[i].period < period
LastIs(g, previous) ==
    \/ RowsOf(g) = {} /\ previous = << >>
    \/ \E last \in RowsOf(g) :
          (\A i \in RowsOf(g) : i <= last) /\ previous = <<measurements[last]>>
\* What a run at work may rely on.
InHand(q) ==
    /\ q.group \in DOMAIN Groups
    /\ Ahead(q.group, q.period)
    /\ \A n \in DOMAIN q.todo : q.todo[n] # q.group
    /\ LastIs(q.group, q.previous)
BookOK(q) ==
    q.step # "idle" =>
      /\ q.period \in 1 .. Months
      /\ \A n, k \in DOMAIN q.todo : q.todo[n] = q.todo[k] => n = k
      /\ \A n \in DOMAIN q.todo : Ahead(q.todo[n], q.period)
      /\ q.step \in {"next", "aggregate", "save"}
      /\ q.step # "next" => InHand(q)
      /\ q.step = "save" /\ IsPaa(q.group) =>
           \E premiums, claims, settled \in Nat :
              q.row = PaaRow(q.group, q.period, q.previous, premiums, claims, settled)
      /\ q.step = "save" /\ ~IsPaa(q.group) =>
           /\ GmmClosable(q.group, q.previous)
           /\ \E premiums, claims, settled \in Nat :
                q.row = GmmRow(q.group, q.period, q.previous, premiums, claims, settled)
Ascending ==
    \A i, n \in DOMAIN measurements :
       i < n /\ measurements[i].group = measurements[n].group =>
          measurements[i].period < measurements[n].period
Earned(g) ==
    \A last \in RowsOf(g) :
       (IsPaa(g) /\ \A i \in RowsOf(g) : i <= last) =>
          Near(PremiumsFound(g), RevenueEarned(g) + measurements[last].closingLrc,
               Cardinality(RowsOf(g)))
MarginKept(g) ==
    \A last \in RowsOf(g) :
       (~IsPaa(g) /\ \A i \in RowsOf(g) : i <= last) =>
          Near(CsmAtRecognition(Groups[g]) + InterestAccreted(g),
               MarginRecognised(g) + measurements[last].closingCsm,
               2 * Cardinality(RowsOf(g)))
\* Closed one month after the other by one run at a time.
OrderInv ==
    /\ \A r, s \in CloseRuns : ~CloseAt(r, "idle") /\ ~CloseAt(s, "idle") => r = s
    /\ \A i \in DOMAIN measurements : RowTyped(measurements[i])
    /\ Ascending
    /\ \A r \in CloseRuns : BookOK(close[r])
    /\ \A g \in DOMAIN Groups : Earned(g) /\ MarginKept(g)
EarnedInv ==
    /\ CloseInv
    /\ recorded \in [DOMAIN Groups -> [1 .. Months -> Nat]]
    /\ claimed \in [DOMAIN Groups -> [1 .. Months -> Nat]]
    /\ inOrder \in BOOLEAN
    /\ inOrder => OrderInv

\* What the history variable says of a step.
OneAtWork == \A r, s \in CloseRuns : ~CloseAt(r, "idle") /\ ~CloseAt(s, "idle") => r = s
OrderStep ==
    /\ inOrder' \in BOOLEAN
    /\ inOrder' => /\ inOrder
                   /\ OneAtWork'
                   /\ \A r \in CloseRuns : close'[r].step # "idle" /\ close[r].step = "idle" =>
                         \A i \in DOMAIN measurements : measurements[i].period < close'[r].period
LEMMA OrderKept ==
    ASSUME BookTyped, CloseNext
    PROVE  OrderStep
  <1>1. PICK W : W = {r \in CloseRuns : close'[r].step # "idle"}
    OBVIOUS
  <1>2. IsFiniteSet(W) /\ Cardinality(W) \in Nat
    BY <1>1, FS_Subset, FS_CardinalityType DEF BookTyped
  <1>3. inOrder' = /\ inOrder
                   /\ Cardinality(W) <= 1
                   /\ \A r \in CloseRuns : close'[r].step # "idle" /\ close[r].step = "idle" =>
                         \A i \in DOMAIN measurements : measurements[i].period < close'[r].period
    BY <1>1, Zenon DEF CloseNext
  <1>4. ASSUME Cardinality(W) <= 1, NEW r \in W, NEW s \in W PROVE r = s
    <2>1. SUFFICES ASSUME r # s PROVE FALSE
      OBVIOUS
    <2>2. Cardinality({r, s}) = 2 /\ {r, s} \subseteq W
      <3>1. IsFiniteSet({r}) /\ Cardinality({r}) = 1
        BY FS_Singleton
      <3>2. Cardinality({r} \union {s}) = 2
        BY <2>1, <3>1, FS_AddElement
      <3>3. {r, s} = {r} \union {s}
        OBVIOUS
      <3>4. QED
        BY <3>2, <3>3
    <2>3. Cardinality({r, s}) <= Cardinality(W)
      BY <1>2, <2>2, FS_Subset
    <2>4. QED
      BY <1>2, <1>4, <2>2, <2>3
  <1>5. Cardinality(W) <= 1 => OneAtWork'
    BY <1>1, <1>4 DEF OneAtWork, CloseAt
  <1>6. QED
    BY <1>3, <1>5 DEF OrderStep

\* A step that leaves the measurements as they are, and a run that goes on.
LEMMA BookTurns ==
    ASSUME EarnedInv, OrderStep, CloseInv', UNCHANGED <<measurements, claimed>>,
           recorded' \in [DOMAIN Groups -> [1 .. Months -> Nat]],
           \A r \in CloseRuns : close'[r] = close[r] \/ (inOrder' => BookOK(close'[r]))
    PROVE  EarnedInv'
  <1>1. ASSUME NEW q PROVE BookOK(q)' <=> BookOK(q)
    BY DEF EarnedInv, BookOK, InHand, Ahead, LastIs, RowsOf
  <1>2. ASSUME inOrder' PROVE OrderInv'
    <2>1. OrderInv /\ OneAtWork'
      BY <1>2 DEF EarnedInv, OrderStep
    <2>2. ASSUME NEW r \in CloseRuns PROVE BookOK(close[r])'
      <3>1. PICK q : q = close'[r]
        OBVIOUS
      <3>2. BookOK(q)
        BY <1>2, <2>1, <3>1 DEF OrderInv
      <3>3. QED
        BY <1>1, <3>1, <3>2
    <2>3. ASSUME NEW g \in DOMAIN Groups PROVE Earned(g)' /\ MarginKept(g)'
      BY <2>1 DEF OrderInv, Earned, RowsOf, PremiumsFound, RevenueEarned, MarginKept,
                  InterestAccreted, MarginRecognised
    <2>4. QED
      BY <2>1, <2>2, <2>3 DEF OrderInv, OneAtWork, RowTyped, Ascending
  <1>3. QED
    BY <1>2 DEF EarnedInv, OrderStep

LEMMA StartCloseEarned ==
    ASSUME BookTyped, EarnedInv, OrderStep, NEW r \in CloseRuns, NEW period \in 1 .. Months,
           StartClose(r, period)
    PROVE  EarnedInv'
  <1>1. PICK todo : todo = [g \in DOMAIN Groups |-> g]
    OBVIOUS
  <1>2. PICK q : q = [Off EXCEPT !.step = "next", !.period = period, !.todo = todo]
    OBVIOUS
  <1>3. q.step = "next" /\ q.period = period /\ q.todo = todo
    BY <1>2 DEF Off
  <1>4. \A s \in CloseRuns : close'[s] = IF s = r THEN q ELSE close[s]
    BY <1>1, <1>2 DEF StartClose, Proceed, EarnedInv, CloseInv
  <1>5. ASSUME inOrder' PROVE BookOK(q)
    <2>1. \A i \in DOMAIN measurements : measurements[i].period < period
      BY <1>3, <1>4, <1>5 DEF OrderStep, StartClose, CloseAt
    <2>2. QED
      BY <1>1, <1>3, <2>1 DEF BookOK, Ahead
  <1>6. CloseInv'
    BY StartCloseStep DEF EarnedInv, BookTyped, GroupsTyped
  <1>7. QED
    BY <1>4, <1>5, <1>6, BookTurns DEF StartClose, EarnedInv

LEMMA ReadPreviousEarned ==
    ASSUME BookTyped, EarnedInv, OrderStep, NEW r \in CloseRuns, ReadPrevious(r)
    PROVE  EarnedInv'
  <1>1. PICK v : v = close[r]
    OBVIOUS
  <1>2. /\ v.step = "next" /\ RunOK(v) /\ v.todo # << >> /\ v.todo \in Seq(DOMAIN Groups)
        /\ UNCHANGED <<measurements, recorded, claimed>>
    BY <1>1 DEF ReadPrevious, CloseAt, EarnedInv, CloseInv, RunOK
  <1>3. PICK previous \in LastMeasurements(Head(v.todo)) : close' = [close EXCEPT ![r] =
           [v EXCEPT !.step = "aggregate", !.group = Head(v.todo), !.todo = Tail(@),
                     !.previous = previous]]
    BY <1>1 DEF ReadPrevious, Proceed
  <1>4. PICK q : q = [v EXCEPT !.step = "aggregate", !.group = Head(v.todo), !.todo = Tail(@),
                               !.previous = previous]
    OBVIOUS
  <1>5. IsRun(q) /\ q.step = "aggregate" /\ q.period = v.period /\ q.group = Head(v.todo)
        /\ q.todo = Tail(v.todo) /\ q.previous = previous
    BY <1>2, <1>4 DEF RunOK, IsRun
  <1>6. \A s \in CloseRuns : close'[s] = IF s = r THEN q ELSE close[s]
    BY <1>3, <1>4 DEF EarnedInv, CloseInv
  <1>7. ASSUME inOrder' PROVE BookOK(q)
    <2>1. OrderInv /\ BookOK(v)
      BY <1>1, <1>7 DEF EarnedInv, OrderStep, OrderInv
    <2>2. /\ 1 \in DOMAIN v.todo /\ Head(v.todo) = v.todo[1] /\ Head(v.todo) \in DOMAIN Groups
          /\ \A n \in DOMAIN Tail(v.todo) :
                n + 1 \in DOMAIN v.todo /\ Tail(v.todo)[n] = v.todo[n + 1] /\ n \in Nat \ {0}
      BY <1>2, HeadTailProperties, LenProperties
    <2>3. LastIs(Head(v.todo), previous)
      <3>1. CASE RowsOf(Head(v.todo)) = {}
        BY <3>1 DEF LastIs, LastMeasurements
      <3>2. CASE RowsOf(Head(v.todo)) # {}
        <4>1. PICK S : measurements \in Seq(S)
          BY DEF EarnedInv, CloseInv
        <4>2. DOMAIN measurements \in SUBSET Nat
          BY <4>1, LenProperties
        <4>3. PICK rows : rows = {i \in RowsOf(Head(v.todo)) : \A n \in RowsOf(Head(v.todo)) :
                                      measurements[n].period <= measurements[i].period}
          OBVIOUS
        <4>4. (previous = << >> /\ rows = {}) \/ \E i \in rows : previous = <<measurements[i]>>
          BY <4>3 DEF LastMeasurements
        <4>5. rows # {}
          <5>1. PICK R : R = RowsOf(Head(v.todo)) /\ R \in SUBSET Nat /\ R # {}
            BY <3>2, <4>2 DEF RowsOf
          <5>2. Len(measurements) \in Nat /\ R \in SUBSET (0 .. Len(measurements))
            BY <4>1, <5>1, LenProperties DEF RowsOf
          <5>3. PICK last \in R : \A i \in R : i <= last
            BY <5>1, <5>2, GreatestNatural
          <5>4. \A i \in R : measurements[i].period <= measurements[last].period
            <6>1. ASSUME NEW i \in R PROVE measurements[i].period <= measurements[last].period
              <7>1. measurements[i].period \in Int /\ measurements[last].period \in Int
                BY <2>1, <5>1 DEF OrderInv, RowTyped, RowsOf, BookTyped
              <7>2. i = last \/ i < last
                BY <5>1, <5>3
              <7>3. QED
                BY <2>1, <5>1, <7>1, <7>2 DEF OrderInv, Ascending, RowsOf
            <6>2. QED
              BY <6>1
          <5>5. QED
            BY <4>3, <5>1, <5>3, <5>4
        <4>6. PICK i \in rows : previous = <<measurements[i]>>
          BY <4>4, <4>5
        <4>7. ASSUME NEW n \in RowsOf(Head(v.todo)) PROVE n <= i
          <5>1. n \in Nat /\ i \in Nat /\ i \in RowsOf(Head(v.todo))
            BY <4>2, <4>3 DEF RowsOf
          <5>2. /\ measurements[n].period <= measurements[i].period
                /\ measurements[n].period \in Int /\ measurements[i].period \in Int
            BY <2>1, <4>3, <5>1 DEF OrderInv, RowTyped, RowsOf, BookTyped
          <5>3. ~(i < n)
            BY <2>1, <5>1, <5>2 DEF OrderInv, Ascending, RowsOf
          <5>4. QED
            BY <5>1, <5>3
        <4>8. QED
          BY <4>3, <4>6, <4>7 DEF LastIs
      <3>3. QED
        BY <3>1, <3>2
    <2>4. InHand(q)
      BY <1>2, <1>5, <2>1, <2>2, <2>3 DEF InHand, BookOK
    <2>5. \A n, k \in DOMAIN q.todo : q.todo[n] = q.todo[k] => n = k
      BY <1>2, <1>5, <2>1, <2>2 DEF BookOK
    <2>6. \A n \in DOMAIN q.todo : Ahead(q.todo[n], q.period)
      BY <1>2, <1>5, <2>1, <2>2 DEF BookOK
    <2>7. QED
      BY <1>2, <1>5, <2>1, <2>4, <2>5, <2>6 DEF BookOK
  <1>8. CloseInv'
    BY ReadPreviousStep DEF EarnedInv
  <1>9. QED
    BY <1>2, <1>6, <1>7, <1>8, BookTurns DEF EarnedInv

LEMMA SkipGroupEarned ==
    ASSUME BookTyped, EarnedInv, OrderStep, NEW r \in CloseRuns, SkipGroup(r)
    PROVE  EarnedInv'
  <1>1. PICK v : v = close[r]
    OBVIOUS
  <1>2. RunOK(v) /\ v.step = "aggregate" /\ UNCHANGED <<measurements, recorded, claimed>>
    BY <1>1 DEF SkipGroup, CloseAt, EarnedInv, CloseInv
  <1>3. PICK q : q = [v EXCEPT !.step = "next", !.group = 0, !.previous = << >>]
    OBVIOUS
  <1>4. q.step = "next" /\ q.period = v.period /\ q.todo = v.todo
    BY <1>2, <1>3 DEF RunOK, IsRun
  <1>5. \A s \in CloseRuns : close'[s] = IF s = r THEN q ELSE close[s]
    BY <1>1, <1>3 DEF SkipGroup, Proceed, EarnedInv, CloseInv
  <1>6. inOrder' => BookOK(v)
    BY <1>1 DEF EarnedInv, OrderStep, OrderInv
  <1>7. inOrder' => BookOK(q)
    BY <1>2, <1>4, <1>6 DEF BookOK
  <1>8. CloseInv'
    BY SkipGroupStep DEF EarnedInv
  <1>9. QED
    BY <1>2, <1>5, <1>7, <1>8, BookTurns DEF EarnedInv

LEMMA AggregateEarned ==
    ASSUME BookTyped, EarnedInv, OrderStep, NEW r \in CloseRuns, Aggregate(r)
    PROVE  EarnedInv'
  <1>1. PICK v : v = close[r]
    OBVIOUS
  <1>2. RunOK(v) /\ v.step = "aggregate" /\ UNCHANGED <<measurements, recorded, claimed>>
    BY <1>1 DEF Aggregate, CloseAt, EarnedInv, CloseInv
  <1>3. PICK settled \in {0, claimed[v.group][v.period]} :
             \/ /\ IsPaa(v.group)
                /\ \E row :
                     /\ row = PaaRow(v.group, v.period, v.previous, recorded[v.group][v.period],
                                     claimed[v.group][v.period], settled)
                     /\ close' = [close EXCEPT ![r] = [v EXCEPT !.step = "save", !.row = row]]
             \/ /\ ~IsPaa(v.group) /\ GmmClosable(v.group, v.previous)
                /\ \E row :
                     /\ row = GmmRow(v.group, v.period, v.previous, recorded[v.group][v.period],
                                     claimed[v.group][v.period], settled)
                     /\ close' = [close EXCEPT ![r] = [v EXCEPT !.step = "save", !.row = row]]
    BY <1>1 DEF Aggregate, Proceed, IsPaa
  <1>4. PICK row :
          /\ IsPaa(v.group) =>
               row = PaaRow(v.group, v.period, v.previous, recorded[v.group][v.period],
                            claimed[v.group][v.period], settled)
          /\ ~IsPaa(v.group) =>
               /\ GmmClosable(v.group, v.previous)
               /\ row = GmmRow(v.group, v.period, v.previous, recorded[v.group][v.period],
                               claimed[v.group][v.period], settled)
          /\ close' = [close EXCEPT ![r] = [v EXCEPT !.step = "save", !.row = row]]
    BY <1>3, Zenon
  <1>5. PICK q : q = [v EXCEPT !.step = "save", !.row = row]
    OBVIOUS
  <1>6. q.step = "save" /\ q.period = v.period /\ q.todo = v.todo /\ q.group = v.group
        /\ q.previous = v.previous /\ q.row = row
    BY <1>2, <1>5 DEF RunOK, IsRun
  <1>7. \A s \in CloseRuns : close'[s] = IF s = r THEN q ELSE close[s]
    BY <1>4, <1>5 DEF EarnedInv, CloseInv
  <1>8. ASSUME inOrder' PROVE BookOK(q)
    <2>1. BookOK(v)
      BY <1>1, <1>8 DEF EarnedInv, OrderStep, OrderInv
    <2>2. v.group \in DOMAIN Groups /\ v.period \in 1 .. Months
      BY <1>2, <2>1 DEF BookOK, InHand
    <2>3. recorded[v.group][v.period] \in Nat /\ claimed[v.group][v.period] \in Nat
      BY <2>2 DEF EarnedInv
    <2>4. settled \in Nat
      <3>1. settled = 0 \/ settled = claimed[v.group][v.period]
        BY <1>3
      <3>2. QED
        BY <2>3, <3>1
    <2>5. /\ IsPaa(q.group) => \E premiums, claims, cash \in Nat :
                q.row = PaaRow(q.group, q.period, q.previous, premiums, claims, cash)
          /\ ~IsPaa(q.group) =>
               /\ GmmClosable(q.group, q.previous)
               /\ \E premiums, claims, cash \in Nat :
                    q.row = GmmRow(q.group, q.period, q.previous, premiums, claims, cash)
      BY <1>4, <1>6, <2>3, <2>4
    <2>6. InHand(q)
      BY <1>2, <1>6, <2>1 DEF BookOK, InHand
    <2>7. QED
      BY <1>2, <1>6, <2>1, <2>5, <2>6 DEF BookOK
  <1>9. CloseInv'
    BY AggregateStep DEF EarnedInv
  <1>10. QED
    BY <1>2, <1>7, <1>8, <1>9, BookTurns DEF EarnedInv

LEMMA EndCloseEarned ==
    ASSUME BookTyped, EarnedInv, OrderStep, NEW r \in CloseRuns, EndClose(r)
    PROVE  EarnedInv'
  <1>1. \A s \in CloseRuns : close'[s] = IF s = r THEN Off ELSE close[s]
    BY DEF EndClose, Proceed, EarnedInv, CloseInv
  <1>2. BookOK(Off)
    BY DEF BookOK, Off
  <1>3. CloseInv'
    BY EndCloseStep DEF EarnedInv
  <1>4. QED
    BY <1>1, <1>2, <1>3, BookTurns DEF EarnedInv, EndClose

CarriedLrc(previous) == IF previous = << >> THEN 0 ELSE previous[1].closingLrc
CarriedLic(previous) == IF previous = << >> THEN 0 ELSE previous[1].closingLicBestEstimate
\* closePaaGroup: what is available is earned or carried forward.
LEMMA PaaRowEarns ==
    ASSUME GroupsTyped, NEW g \in DOMAIN Groups, NEW period, NEW previous,
           CarriedLrc(previous) \in Nat, CarriedLic(previous) \in Nat,
           NEW premiums \in Nat, NEW claims \in Nat, NEW cash \in Nat,
           NEW row, row = PaaRow(g, period, previous, premiums, claims, cash)
    PROVE  /\ row.premiums \in Nat /\ row.closingLrc \in Nat /\ row.closingLicBestEstimate \in Nat
           /\ row.insuranceRevenue \in Int
           /\ Near(row.closingLrc + row.insuranceRevenue, CarriedLrc(previous) + row.premiums, 1)
  <1>1. PICK state : state =
          [openingLrc |-> CarriedLrc(previous), openingLicBestEstimate |-> CarriedLic(previous),
           totalCoverageMonths |-> Groups[g].paaCoverageMonths,
           coverageMonthsElapsedAtOpen |-> IF previous = << >> THEN 0 ELSE 1]
    OBVIOUS
  <1>2. PICK month : month =
          [premiums |-> premiums, newClaims |-> claims, claimsPaid |-> cash, monthsElapsed |-> 1,
           rate |-> Groups[g].rate, marginPct |-> Groups[g].marginPct]
    OBVIOUS
  <1>3. Groups[g] \in Ifrs17Group
    BY ElementOfSeq, LenProperties DEF GroupsTyped
  <1>4. state \in PaaGroupState /\ month \in PaaPeriodInputs
    BY <1>1, <1>2, <1>3 DEF PaaGroupState, PaaPeriodInputs, Ifrs17Group
  <1>5. PICK result : result = computePaaPeriod(state, month)
    OBVIOUS
  <1>6. row = [group |-> g, period |-> period, premiums |-> premiums, closingFcf |-> 0,
               closingRiskAdjustment |-> 0, closingCsm |-> 0, closingLrc |-> result.closingLrc,
               closingLicBestEstimate |-> result.closingLicBestEstimate,
               interestAccretionOnCsm |-> 0, csmRecognisedInPnl |-> 0,
               insuranceRevenue |-> result.insuranceRevenue]
    BY <1>1, <1>2, <1>5 DEF PaaRow, CarriedLrc, CarriedLic
  <1>7. /\ row.premiums = premiums /\ row.closingLrc = result.closingLrc
        /\ row.closingLicBestEstimate = result.closingLicBestEstimate
        /\ row.insuranceRevenue = result.insuranceRevenue
    BY <1>6
  <1>8. month.monthsElapsed = 1 /\ month.premiums = premiums /\ state.openingLrc = CarriedLrc(previous)
    BY <1>1, <1>2
  <1>9. /\ Near(result.closingLrc + result.insuranceRevenue, state.openingLrc + month.premiums, 1)
        /\ result.insuranceRevenue \in Int
    BY <1>4, <1>5, <1>8, PremiumsEarned
  <1>10. result.closingLrc \in Nat /\ result.closingLicBestEstimate \in Nat
    BY <1>4, <1>5, <1>8, ClosingPaa
  <1>11. QED
    BY <1>7, <1>8, <1>9, <1>10

FirstFcf(g, previous) ==
    IF previous = << >> THEN Groups[g].initialFcf ELSE previous[1].closingFcf
FirstRisk(g, previous) ==
    IF previous = << >> THEN Groups[g].initialRiskAdjustment ELSE previous[1].closingRiskAdjustment
\* closeGmmGroup: the margin with its interest is released or carried forward.
LEMMA GmmRowEarns ==
    ASSUME GroupsTyped, NEW g \in DOMAIN Groups, NEW period, NEW previous, GmmClosable(g, previous),
           FirstFcf(g, previous) \in Int, FirstRisk(g, previous) \in Nat,
           NEW csm \in Nat, csm = OpeningCsm(Groups[g], previous),
           NEW premiums \in Nat, NEW claims \in Nat, NEW cash \in Nat,
           NEW row, row = GmmRow(g, period, previous, premiums, claims, cash)
    PROVE  /\ row.closingFcf \in Int /\ row.closingRiskAdjustment \in Nat /\ row.closingCsm \in Nat
           /\ row.interestAccretionOnCsm \in Int /\ row.csmRecognisedInPnl \in Int
           /\ Near(row.closingCsm + row.csmRecognisedInPnl, csm + row.interestAccretionOnCsm, 2)
  <1>1. PICK state : state =
          [openingFcf |-> FirstFcf(g, previous), openingRiskAdjustment |-> FirstRisk(g, previous),
           openingCsm |-> csm, lockedInRate |-> Groups[g].rate,
           coverageUnitsRemainingAtOpen |->
              IF previous = << >> THEN Groups[g].gmmCoverageUnitsTotal
                                  ELSE Groups[g].gmmCoverageUnitsTotal - 1]
    OBVIOUS
  <1>2. PICK month : month =
          [currentRate |-> Groups[g].rate, premiums |-> premiums, claimsPaid |-> cash,
           expectedClaims |-> claims, futureService |-> 0, pastService |-> 0,
           coverageUnits |-> 1, acquisitionCosts |-> 0]
    OBVIOUS
  <1>3. Groups[g] \in Ifrs17Group /\ Groups[g].gmmCoverageUnitsTotal # 0
    BY ElementOfSeq, LenProperties DEF GroupsTyped, GmmClosable
  <1>4. state \in GmmGroupState /\ month \in GmmPeriodInputs
    BY <1>1, <1>2, <1>3 DEF GmmGroupState, GmmPeriodInputs, Ifrs17Group
  <1>5. PICK result : result = computeGmmPeriod(state, month)
    OBVIOUS
  <1>6. /\ row.closingFcf = result.closingFcf
        /\ row.closingRiskAdjustment = result.closingRiskAdjustment
        /\ row.closingCsm = result.closingCsm
        /\ row.interestAccretionOnCsm = result.interestAccretionOnCsm
        /\ row.csmRecognisedInPnl = result.csmRecognisedInPnl
    BY <1>1, <1>2, <1>5 DEF GmmRow, FirstFcf, FirstRisk
  <1>7. month.coverageUnits = 1 /\ month.futureService = 0 /\ state.openingCsm = csm
    BY <1>1, <1>2
  <1>8. /\ Near(result.closingCsm + result.csmRecognisedInPnl + month.futureService,
                state.openingCsm + result.interestAccretionOnCsm + result.lossRecognisedInPeriod, 2)
        /\ result.csmRecognisedInPnl \in Int /\ result.interestAccretionOnCsm \in Int
        /\ result.lossRecognisedInPeriod = 0
    BY <1>4, <1>5, <1>7, MarginRolls
  <1>9. /\ result.closingFcf \in Int /\ result.closingRiskAdjustment \in Nat
        /\ result.closingCsm \in Nat
    BY <1>4, <1>5, <1>7, ClosingGmm
  <1>10. Near(result.closingCsm + result.csmRecognisedInPnl, csm + result.interestAccretionOnCsm, 2)
    BY <1>7, <1>8, <1>9 DEF Near
  <1>11. QED
    BY <1>6, <1>8, <1>9, <1>10

\* Over c rows p was found and w earned; one more row found u and earned v.
LEMMA BalanceRolls ==
    ASSUME NEW p \in Int, NEW w \in Int, NEW c \in Nat, NEW u \in Int, NEW v \in Int,
           NEW start \in Int, NEW opening \in Int, NEW closing \in Int, NEW cents \in Nat,
           Near(closing + v, opening + u, cents),
           Near(start + p, w + opening, cents * c)
    PROVE  Near(start + (p + u), (w + v) + closing, cents * (c + 1))
  <1>1. PICK d : d = cents * c
    OBVIOUS
  <1>2. d \in Nat /\ cents * (c + 1) = d + cents
    BY <1>1
  <1>3. Near(start + (p + u), (w + v) + closing, d + cents)
    BY <1>1, <1>2 DEF Near
  <1>4. QED
    BY <1>2, <1>3

LEMMA SavedRow ==
    ASSUME BookTyped, EarnedInv, OrderInv, NEW r \in CloseRuns, NEW v, v = close[r],
           v.step = "save"
    PROVE  /\ RowTyped(v.row)
           /\ IsPaa(v.group) =>
                \/ /\ RowsOf(v.group) = {}
                   /\ Near(v.row.closingLrc + v.row.insuranceRevenue, v.row.premiums, 1)
                \/ \E last \in RowsOf(v.group) :
                     /\ \A i \in RowsOf(v.group) : i <= last
                     /\ Near(v.row.closingLrc + v.row.insuranceRevenue,
                             measurements[last].closingLrc + v.row.premiums, 1)
           /\ ~IsPaa(v.group) =>
                \E opening \in Nat :
                   /\ Near(v.row.closingCsm + v.row.csmRecognisedInPnl,
                           opening + v.row.interestAccretionOnCsm, 2)
                   /\ \/ RowsOf(v.group) = {} /\ opening = CsmAtRecognition(Groups[v.group])
                      \/ \E last \in RowsOf(v.group) :
                           /\ \A i \in RowsOf(v.group) : i <= last
                           /\ opening = measurements[last].closingCsm
  <1>1. /\ RunOK(v) /\ BookOK(v) /\ InHand(v) /\ v.group \in DOMAIN Groups
        /\ v.row.group = v.group /\ v.row.period = v.period /\ v.period \in 1 .. Months
    <2>1. RunOK(v) /\ BookOK(v)
      BY DEF EarnedInv, CloseInv, OrderInv
    <2>2. InHand(v) /\ v.period \in 1 .. Months
      BY <2>1 DEF BookOK
    <2>3. v.row.group = v.group /\ v.row.period = v.period
      BY <2>1 DEF RunOK
    <2>4. QED
      BY <2>1, <2>2, <2>3 DEF InHand
  <1>2. CASE ~IsPaa(v.group)
    <2>1. PICK premiums \in Nat, claims \in Nat, cash \in Nat :
             v.row = GmmRow(v.group, v.period, v.previous, premiums, claims, cash)
      BY <1>1, <1>2 DEF BookOK
    <2>2. GmmClosable(v.group, v.previous)
      BY <1>1, <1>2 DEF BookOK
    <2>3. PICK opening : opening = OpeningCsm(Groups[v.group], v.previous)
      OBVIOUS
    <2>4. /\ FirstFcf(v.group, v.previous) \in Int /\ FirstRisk(v.group, v.previous) \in Nat
          /\ opening \in Nat
          /\ \/ RowsOf(v.group) = {} /\ opening = CsmAtRecognition(Groups[v.group])
             \/ \E last \in RowsOf(v.group) :
                  /\ \A i \in RowsOf(v.group) : i <= last
                  /\ opening = measurements[last].closingCsm
      <3>1. CASE RowsOf(v.group) = {} /\ v.previous = << >>
        <4>1. Groups[v.group] \in Ifrs17Group
          BY <1>1, ElementOfSeq, LenProperties DEF BookTyped, GroupsTyped
        <4>2. Groups[v.group].initialFcf \in Int /\ Groups[v.group].initialRiskAdjustment \in Nat
          BY <4>1 DEF Ifrs17Group
        <4>3. CsmAtRecognition(Groups[v.group]) \in Nat
          BY <4>2 DEF CsmAtRecognition, AtLeast
        <4>4. QED
          BY <2>3, <3>1, <4>2, <4>3 DEF FirstFcf, FirstRisk, OpeningCsm
      <3>2. ASSUME NEW last \in RowsOf(v.group), \A i \in RowsOf(v.group) : i <= last,
                   v.previous = <<measurements[last]>>
            PROVE  /\ FirstFcf(v.group, v.previous) \in Int
                   /\ FirstRisk(v.group, v.previous) \in Nat
                   /\ opening \in Nat /\ opening = measurements[last].closingCsm
        <4>1. /\ measurements[last].closingFcf \in Int
              /\ measurements[last].closingRiskAdjustment \in Nat
              /\ measurements[last].closingCsm \in Nat
          BY <1>2 DEF OrderInv, RowTyped, RowsOf
        <4>2. v.previous # << >> /\ v.previous[1] = measurements[last]
          BY <3>2
        <4>3. QED
          BY <2>3, <4>1, <4>2 DEF FirstFcf, FirstRisk, OpeningCsm
      <3>3. QED
        BY <1>1, <3>1, <3>2 DEF InHand, LastIs
    <2>5. /\ v.row.closingFcf \in Int /\ v.row.closingRiskAdjustment \in Nat
          /\ v.row.closingCsm \in Nat
          /\ v.row.interestAccretionOnCsm \in Int /\ v.row.csmRecognisedInPnl \in Int
          /\ Near(v.row.closingCsm + v.row.csmRecognisedInPnl,
                  opening + v.row.interestAccretionOnCsm, 2)
      BY <1>1, <2>1, <2>2, <2>3, <2>4, GmmRowEarns DEF BookTyped
    <2>6. RowTyped(v.row)
      BY <1>1, <1>2, <2>5 DEF RowTyped
    <2>7. QED
      BY <1>2, <2>4, <2>5, <2>6
  <1>3. CASE IsPaa(v.group)
    <2>1. PICK premiums \in Nat, claims \in Nat, cash \in Nat :
             v.row = PaaRow(v.group, v.period, v.previous, premiums, claims, cash)
      BY <1>1, <1>3 DEF BookOK
    <2>2. ASSUME CarriedLrc(v.previous) \in Nat, CarriedLic(v.previous) \in Nat
          PROVE  /\ RowTyped(v.row) /\ v.row.premiums \in Nat
                 /\ Near(v.row.closingLrc + v.row.insuranceRevenue,
                         CarriedLrc(v.previous) + v.row.premiums, 1)
      <3>1. /\ v.row.premiums \in Nat /\ v.row.closingLrc \in Nat
            /\ v.row.closingLicBestEstimate \in Nat /\ v.row.insuranceRevenue \in Int
            /\ Near(v.row.closingLrc + v.row.insuranceRevenue,
                    CarriedLrc(v.previous) + v.row.premiums, 1)
        BY <1>1, <2>1, <2>2, PaaRowEarns DEF BookTyped
      <3>2. QED
        BY <1>1, <1>3, <3>1 DEF RowTyped
    <2>3. CASE RowsOf(v.group) = {} /\ v.previous = << >>
      <3>1. CarriedLrc(v.previous) = 0 /\ CarriedLic(v.previous) = 0
        BY <2>3 DEF CarriedLrc, CarriedLic
      <3>2. v.row.premiums \in Nat => CarriedLrc(v.previous) + v.row.premiums = v.row.premiums
        BY <3>1
      <3>3. QED
        BY <1>3, <2>2, <2>3, <3>1, <3>2
    <2>4. ASSUME NEW last \in RowsOf(v.group), \A i \in RowsOf(v.group) : i <= last,
                 v.previous = <<measurements[last]>>
          PROVE  /\ RowTyped(v.row)
                 /\ Near(v.row.closingLrc + v.row.insuranceRevenue,
                         measurements[last].closingLrc + v.row.premiums, 1)
      <3>1. /\ measurements[last].closingLrc \in Nat
            /\ measurements[last].closingLicBestEstimate \in Nat
        BY <1>3 DEF OrderInv, RowTyped, RowsOf
      <3>2. /\ CarriedLrc(v.previous) = measurements[last].closingLrc
            /\ CarriedLic(v.previous) = measurements[last].closingLicBestEstimate
        BY <2>4 DEF CarriedLrc, CarriedLic
      <3>3. QED
        BY <2>2, <3>1, <3>2
    <2>5. QED
      BY <1>1, <1>3, <2>3, <2>4 DEF InHand, LastIs
  <1>4. QED
    BY <1>2, <1>3

LEMMA SaveMeasurementEarned ==
    ASSUME BookTyped, EarnedInv, OrderStep, NEW r \in CloseRuns, SaveMeasurement(r)
    PROVE  EarnedInv'
  <1>1. PICK v : v = close[r]
    OBVIOUS
  <1>2. /\ RunOK(v) /\ v.step = "save" /\ UNCHANGED <<recorded, claimed>>
        /\ measurements' = Append(measurements, v.row)
    BY <1>1 DEF SaveMeasurement, CloseAt, EarnedInv, CloseInv
  <1>3. PICK q : q = [v EXCEPT !.step = "next", !.group = 0, !.previous = << >>, !.row = << >>]
    OBVIOUS
  <1>4. q.step = "next" /\ q.period = v.period /\ q.todo = v.todo
    BY <1>2, <1>3 DEF RunOK, IsRun
  <1>5. \A s \in CloseRuns : close'[s] = IF s = r THEN q ELSE close[s]
    BY <1>1, <1>3 DEF SaveMeasurement, Proceed, EarnedInv, CloseInv
  <1>6. PICK n : n = Len(measurements) + 1
    OBVIOUS
  <1>7. /\ n \in Nat \ {0} /\ DOMAIN measurements = 1 .. (n - 1) /\ DOMAIN measurements' = 1 .. n
        /\ measurements'[n] = v.row
        /\ \A i \in 1 .. (n - 1) : measurements'[i] = measurements[i]
    <2>1. PICK S : measurements \in Seq(S)
      BY DEF EarnedInv, CloseInv
    <2>2. PICK T : T = S \union {v.row}
      OBVIOUS
    <2>3. measurements \in Seq(T) /\ v.row \in T
      BY <2>1, <2>2
    <2>4. QED
      BY <1>2, <1>6, <2>3, AppendProperties, LenProperties
  <1>8. ASSUME inOrder' PROVE OrderInv'
    <2>1. OrderInv /\ OneAtWork' /\ OneAtWork
      BY <1>8 DEF EarnedInv, OrderStep, OrderInv, OneAtWork
    <2>2. /\ BookOK(v) /\ InHand(v) /\ v.row.group = v.group /\ v.row.period = v.period
          /\ v.period \in 1 .. Months
      BY <1>1, <1>2, <2>1 DEF OrderInv, BookOK, RunOK
    <2>3. RowTyped(v.row)
      BY <1>1, <1>2, <2>1, SavedRow
    <2>4. \A i \in DOMAIN measurements' : RowTyped(measurements'[i])
      BY <1>7, <2>1, <2>3 DEF OrderInv
    <2>5. Ascending'
      BY <1>7, <2>1, <2>2 DEF OrderInv, Ascending, InHand, Ahead
    <2>6. BookOK(q)'
      <3>1. ASSUME NEW k \in DOMAIN q.todo PROVE Ahead(q.todo[k], q.period)'
        BY <1>2, <1>4, <1>7, <2>2, <3>1 DEF BookOK, InHand, Ahead
      <3>2. QED
        BY <1>2, <1>4, <2>2, <3>1 DEF BookOK
    <2>7. ASSUME NEW s \in CloseRuns PROVE BookOK(close[s])'
      <3>1. CASE s = r
        BY <1>5, <2>6, <3>1
      <3>2. CASE s # r
        <4>1. close'[s].step = "idle"
          BY <1>1, <1>2, <1>5, <2>1, <3>2 DEF OneAtWork, CloseAt
        <4>2. QED
          BY <4>1 DEF BookOK
      <3>3. QED
        BY <3>1, <3>2
    <2>8. ASSUME NEW g
          PROVE  RowsOf(g)' = IF g = v.group THEN RowsOf(g) \union {n} ELSE RowsOf(g)
      <3>1. ASSUME NEW i
            PROVE  i \in RowsOf(g)' <=> i \in RowsOf(g) \/ (g = v.group /\ i = n)
        <4>1. i \in 1 .. n <=> i \in 1 .. (n - 1) \/ i = n
          BY <1>7
        <4>2. CASE i = n
          BY <1>7, <2>2, <4>1, <4>2 DEF RowsOf
        <4>3. CASE i # n
          BY <1>7, <4>1, <4>3 DEF RowsOf
        <4>4. QED
          BY <4>2, <4>3
      <3>2. QED
        BY <3>1
    <2>9. ASSUME NEW g \in DOMAIN Groups, g # v.group PROVE Earned(g)' /\ MarginKept(g)'
      <3>1. RowsOf(g)' = RowsOf(g) /\ \A i \in RowsOf(g) : measurements'[i] = measurements[i]
        BY <1>7, <2>8, <2>9 DEF RowsOf
      <3>2. /\ PremiumsFound(g)' = PremiumsFound(g) /\ RevenueEarned(g)' = RevenueEarned(g)
            /\ InterestAccreted(g)' = InterestAccreted(g)
            /\ MarginRecognised(g)' = MarginRecognised(g)
        <4>1. /\ [i \in RowsOf(g)' |-> measurements'[i].premiums]
                    = [i \in RowsOf(g) |-> measurements[i].premiums]
              /\ [i \in RowsOf(g)' |-> measurements'[i].insuranceRevenue]
                    = [i \in RowsOf(g) |-> measurements[i].insuranceRevenue]
          BY <3>1
        <4>2. /\ [i \in RowsOf(g)' |-> measurements'[i].interestAccretionOnCsm]
                    = [i \in RowsOf(g) |-> measurements[i].interestAccretionOnCsm]
              /\ [i \in RowsOf(g)' |-> measurements'[i].csmRecognisedInPnl]
                    = [i \in RowsOf(g) |-> measurements[i].csmRecognisedInPnl]
          BY <3>1
        <4>3. PremiumsFound(g)' = PremiumsFound(g) /\ RevenueEarned(g)' = RevenueEarned(g)
          BY <3>1, <4>1, Zenon DEF PremiumsFound, RevenueEarned
        <4>4. /\ InterestAccreted(g)' = InterestAccreted(g)
              /\ MarginRecognised(g)' = MarginRecognised(g)
          BY <3>1, <4>2, Zenon DEF InterestAccreted, MarginRecognised
        <4>5. QED
          BY <4>3, <4>4
      <3>3. Earned(g) /\ MarginKept(g)
        BY <2>1 DEF OrderInv
      <3>4. Earned(g)'
        BY <3>1, <3>2, <3>3 DEF Earned
      <3>5. MarginKept(g)'
        BY <3>1, <3>2, <3>3 DEF MarginKept
      <3>6. QED
        BY <3>4, <3>5
    <2>10. Earned(v.group)' /\ MarginKept(v.group)'
      <3>1. PICK R, R2 : R = RowsOf(v.group) /\ R2 = R \union {n}
        OBVIOUS
      <3>2. /\ IsFiniteSet(R) /\ R \in SUBSET (1 .. (n - 1)) /\ n \notin R
            /\ RowsOf(v.group)' = R2
        <4>1. R \in SUBSET (1 .. (n - 1)) /\ n \notin R
          BY <1>7, <3>1 DEF RowsOf
        <4>2. IsFiniteSet(1 .. (n - 1))
          BY <1>7, FS_Interval
        <4>3. QED
          BY <2>8, <3>1, <4>1, <4>2, FS_Subset
      <3>3. /\ v.group \in DOMAIN Groups /\ v.row.group = v.group
            /\ \A i \in R : /\ measurements'[i] = measurements[i] /\ RowTyped(measurements[i])
                             /\ measurements[i].group = v.group
        BY <1>7, <2>1, <2>2, <3>1 DEF RowsOf, OrderInv, InHand
      <3>4. ASSUME NEW last \in R2, \A i \in R2 : i <= last
            PROVE  measurements'[last] = v.row
        BY <1>7, <3>1, <3>2, <3>4
      <3>5. Cardinality(R) \in Nat /\ Cardinality(R2) = Cardinality(R) + 1
        BY <3>1, <3>2, FS_CardinalityType, FS_AddElement
      <3>6. ASSUME NEW a, IntegersOn(a, R), NEW b, \A i \in R : b[i] = a[i], b[n] \in Int
             PROVE  /\ SumFunctionOnSet(a, R) \in Int
                    /\ SumFunctionOnSet(b, R2) = SumFunctionOnSet(a, R) + b[n]
        <4>1. IsFiniteSet(R) /\ n \notin R /\ R2 = R \union {n}
          BY <3>1, <3>2
        <4>2. QED
          BY <3>6, <4>1, SumGrows
      <3>7. ASSUME R = {}
            PROVE  /\ Cardinality(R) = 0
                   /\ \A a : IntegersOn(a, R) => SumFunctionOnSet(a, R) = 0
        BY <3>2, <3>7, FS_EmptySet, SumOnStep
      <3>8. CASE IsPaa(v.group)
        <4>1. PICK f, h : /\ f = [i \in R |-> measurements[i].premiums]
                          /\ h = [i \in R2 |-> measurements'[i].premiums]
          OBVIOUS
        <4>2. PICK e, k : /\ e = [i \in R |-> measurements[i].insuranceRevenue]
                          /\ k = [i \in R2 |-> measurements'[i].insuranceRevenue]
          OBVIOUS
        <4>3. /\ IntegersOn(f, R) /\ \A i \in R : h[i] = f[i]
              /\ h[n] = v.row.premiums /\ v.row.premiums \in Nat
          BY <1>7, <2>3, <3>1, <3>3, <3>8, <4>1 DEF IntegersOn, RowTyped
        <4>4. /\ IntegersOn(e, R) /\ \A i \in R : k[i] = e[i]
              /\ k[n] = v.row.insuranceRevenue /\ v.row.insuranceRevenue \in Int
          BY <1>7, <2>3, <3>1, <3>3, <3>8, <4>2 DEF IntegersOn, RowTyped
        <4>5. PICK closing \in Nat : closing = v.row.closingLrc
          BY <2>3, <3>3, <3>8 DEF RowTyped
        <4>6. PICK opening \in Nat :
                 /\ Near(closing + k[n], opening + h[n], 1)
                 /\ R = {} => opening = 0
                 /\ R # {} => Near(SumFunctionOnSet(f, R), SumFunctionOnSet(e, R) + opening,
                                   Cardinality(R))
          <5>1. CASE R = {} /\ Near(v.row.closingLrc + v.row.insuranceRevenue, v.row.premiums, 1)
            <6>1. Near(closing + k[n], 0 + h[n], 1)
              BY <4>3, <4>4, <4>5, <5>1
            <6>2. QED
              BY <5>1, <6>1
          <5>2. ASSUME NEW last \in R, \A i \in R : i <= last,
                       Near(v.row.closingLrc + v.row.insuranceRevenue,
                            measurements[last].closingLrc + v.row.premiums, 1)
                PROVE  \E opening \in Nat :
                          /\ Near(closing + k[n], opening + h[n], 1)
                          /\ R = {} => opening = 0
                          /\ R # {} => Near(SumFunctionOnSet(f, R), SumFunctionOnSet(e, R) + opening,
                                            Cardinality(R))
            <6>1. PICK opening \in Nat : opening = measurements[last].closingLrc
              BY <3>3, <3>8 DEF RowTyped
            <6>2. Near(SumFunctionOnSet(f, R), SumFunctionOnSet(e, R) + opening, Cardinality(R))
              BY <2>1, <3>1, <3>3, <3>8, <4>1, <4>2, <5>2, <6>1
                 DEF OrderInv, Earned, PremiumsFound, RevenueEarned
            <6>3. QED
              BY <4>3, <4>4, <4>5, <5>2, <6>1, <6>2
          <5>3. QED
            BY <1>1, <1>2, <2>1, <3>1, <3>8, <5>1, <5>2, SavedRow
        <4>7. PICK p, w, c : /\ p = SumFunctionOnSet(f, R) /\ w = SumFunctionOnSet(e, R)
                             /\ c = Cardinality(R)
          OBVIOUS
        <4>8. /\ p \in Int /\ SumFunctionOnSet(h, R2) = p + h[n]
              /\ w \in Int /\ SumFunctionOnSet(k, R2) = w + k[n]
              /\ c \in Nat /\ Cardinality(R2) = c + 1
          BY <3>5, <3>6, <4>3, <4>4, <4>7
        <4>9. Near(SumFunctionOnSet(h, R2), SumFunctionOnSet(k, R2) + closing, Cardinality(R2))
          <5>1. PICK x, y : x = h[n] /\ y = k[n]
            OBVIOUS
          <5>2. x \in Int /\ y \in Int
            BY <4>3, <4>4, <5>1
          <5>3. Near(0 + p, w + opening, 1 * c)
            <6>1. CASE R = {}
              <7>1. p = 0 /\ w = 0 /\ c = 0 /\ opening = 0
                BY <3>7, <4>3, <4>4, <4>6, <4>7, <6>1
              <7>2. QED
                BY <7>1 DEF Near
            <6>2. CASE R # {}
              <7>1. Near(p, w + opening, c) /\ 0 + p = p /\ 1 * c = c
                BY <4>6, <4>7, <4>8, <6>2
              <7>2. QED
                BY <7>1
            <6>3. QED
              BY <6>1, <6>2
          <5>4. Near(0 + (p + x), (w + y) + closing, 1 * (c + 1))
            <6>1. Near(closing + y, opening + x, 1) /\ 0 \in Int /\ 1 \in Nat
              BY <4>6, <5>1
            <6>2. p \in Int /\ w \in Int /\ c \in Nat /\ opening \in Int /\ closing \in Int
              BY <4>8
            <6>3. QED
              BY <5>2, <5>3, <6>1, <6>2, BalanceRolls
          <5>5. 0 + (p + x) = p + x /\ 1 * (c + 1) = c + 1
            BY <4>8, <5>2
          <5>6. QED
            BY <4>8, <5>1, <5>4, <5>5
        <4>10. PremiumsFound(v.group)' = SumFunctionOnSet(h, R2)
               /\ RevenueEarned(v.group)' = SumFunctionOnSet(k, R2)
          BY <3>2, <4>1, <4>2 DEF PremiumsFound, RevenueEarned
        <4>11. Earned(v.group)'
          BY <3>2, <3>4, <4>5, <4>9, <4>10 DEF Earned
        <4>12. QED
          BY <3>8, <4>11 DEF MarginKept, IsPaa
      <3>9. CASE ~IsPaa(v.group)
        <4>1. PICK f, h : /\ f = [i \in R |-> measurements[i].interestAccretionOnCsm]
                          /\ h = [i \in R2 |-> measurements'[i].interestAccretionOnCsm]
          OBVIOUS
        <4>2. PICK e, k : /\ e = [i \in R |-> measurements[i].csmRecognisedInPnl]
                          /\ k = [i \in R2 |-> measurements'[i].csmRecognisedInPnl]
          OBVIOUS
        <4>3. /\ IntegersOn(f, R) /\ \A i \in R : h[i] = f[i]
              /\ h[n] = v.row.interestAccretionOnCsm /\ v.row.interestAccretionOnCsm \in Int
          BY <1>7, <2>3, <3>1, <3>3, <3>9, <4>1 DEF IntegersOn, RowTyped
        <4>4. /\ IntegersOn(e, R) /\ \A i \in R : k[i] = e[i]
              /\ k[n] = v.row.csmRecognisedInPnl /\ v.row.csmRecognisedInPnl \in Int
          BY <1>7, <2>3, <3>1, <3>3, <3>9, <4>2 DEF IntegersOn, RowTyped
        <4>5. PICK closing \in Nat : closing = v.row.closingCsm
          BY <2>3, <3>3, <3>9 DEF RowTyped
        <4>6. PICK start : start = CsmAtRecognition(Groups[v.group])
          OBVIOUS
        <4>7. start \in Nat
          <5>1. Groups[v.group] \in Ifrs17Group
            BY <3>3, ElementOfSeq, LenProperties DEF BookTyped, GroupsTyped
          <5>2. Groups[v.group].initialFcf \in Int /\ Groups[v.group].initialRiskAdjustment \in Nat
            BY <5>1 DEF Ifrs17Group
          <5>3. QED
            BY <4>6, <5>2 DEF CsmAtRecognition, AtLeast
        <4>8. PICK opening \in Nat :
                 /\ Near(closing + k[n], opening + h[n], 2)
                 /\ \/ R = {} /\ opening = start
                    \/ \E last \in R : /\ \A i \in R : i <= last
                                       /\ opening = measurements[last].closingCsm
          <5>1. \E opening \in Nat :
                   /\ Near(v.row.closingCsm + v.row.csmRecognisedInPnl,
                           opening + v.row.interestAccretionOnCsm, 2)
                   /\ \/ RowsOf(v.group) = {} /\ opening = CsmAtRecognition(Groups[v.group])
                      \/ \E last \in RowsOf(v.group) :
                           /\ \A i \in RowsOf(v.group) : i <= last
                           /\ opening = measurements[last].closingCsm
            BY <1>1, <1>2, <2>1, <3>9, SavedRow
          <5>2. QED
            BY <3>1, <4>3, <4>4, <4>5, <4>6, <5>1
        <4>9. R # {} => Near(start + SumFunctionOnSet(f, R), SumFunctionOnSet(e, R) + opening,
                             2 * Cardinality(R))
          BY <2>1, <3>1, <3>3, <3>9, <4>1, <4>2, <4>6, <4>8
             DEF OrderInv, MarginKept, InterestAccreted, MarginRecognised
        <4>10. Near(start + SumFunctionOnSet(h, R2), SumFunctionOnSet(k, R2) + closing,
                    2 * Cardinality(R2))
          <5>1. PICK p, w, c, x, y :
                   /\ p = SumFunctionOnSet(f, R) /\ w = SumFunctionOnSet(e, R)
                   /\ c = Cardinality(R) /\ x = h[n] /\ y = k[n]
            OBVIOUS
          <5>2. /\ p \in Int /\ SumFunctionOnSet(h, R2) = p + x
                /\ w \in Int /\ SumFunctionOnSet(k, R2) = w + y
                /\ c \in Nat /\ Cardinality(R2) = c + 1
            BY <3>5, <3>6, <4>3, <4>4, <5>1
          <5>3. x \in Int /\ y \in Int
            BY <4>3, <4>4, <5>1
          <5>4. Near(start + p, w + opening, 2 * c)
            <6>1. CASE R = {}
              <7>1. p = 0 /\ w = 0 /\ c = 0 /\ opening = start
                BY <3>7, <4>3, <4>4, <4>8, <5>1, <6>1
              <7>2. QED
                BY <4>7, <7>1 DEF Near
            <6>2. CASE R # {}
              BY <4>9, <5>1, <6>2
            <6>3. QED
              BY <6>1, <6>2
          <5>5. Near(closing + y, opening + x, 2)
            BY <4>8, <5>1
          <5>6. Near(start + (p + x), (w + y) + closing, 2 * (c + 1))
            <6>1. /\ p \in Int /\ w \in Int /\ c \in Nat /\ start \in Int /\ opening \in Int
                  /\ closing \in Int /\ 2 \in Nat
              BY <4>7, <5>2
            <6>2. QED
              BY <5>3, <5>4, <5>5, <6>1, BalanceRolls
          <5>7. QED
            BY <5>2, <5>6
        <4>11. InterestAccreted(v.group)' = SumFunctionOnSet(h, R2)
               /\ MarginRecognised(v.group)' = SumFunctionOnSet(k, R2)
          BY <3>2, <4>1, <4>2 DEF InterestAccreted, MarginRecognised
        <4>12. MarginKept(v.group)'
          BY <3>2, <3>4, <4>5, <4>6, <4>10, <4>11 DEF MarginKept
        <4>13. QED
          BY <3>9, <4>12 DEF Earned, IsPaa
      <3>10. QED
        BY <3>8, <3>9
    <2>11. ASSUME NEW g \in DOMAIN Groups PROVE Earned(g)' /\ MarginKept(g)'
      BY <2>9, <2>10
    <2>12. QED
      BY <2>1, <2>4, <2>5, <2>7, <2>11 DEF OrderInv, OneAtWork, RowTyped
  <1>9. CloseInv'
    BY SaveMeasurementStep DEF EarnedInv
  <1>10. QED
    BY <1>2, <1>8, <1>9 DEF EarnedInv, OrderStep

LEMMA RecordPremiumEarned ==
    ASSUME BookTyped, EarnedInv, OrderStep, NEW g \in DOMAIN Groups, NEW m \in 1 .. Months,
           NEW amount \in Premiums, RecordPremium(g, m, amount), CloseInv'
    PROVE  EarnedInv'
  <1>1. amount \in Nat /\ recorded[g][m] \in Nat
    BY DEF BookTyped, EarnedInv
  <1>2. recorded' = [recorded EXCEPT ![g] = [recorded[g] EXCEPT ![m] = recorded[g][m] + amount]]
    BY DEF RecordPremium
  <1>3. PICK month : month = [recorded[g] EXCEPT ![m] = recorded[g][m] + amount]
    OBVIOUS
  <1>4. month \in [1 .. Months -> Nat]
    BY <1>1, <1>3 DEF EarnedInv
  <1>5. recorded' \in [DOMAIN Groups -> [1 .. Months -> Nat]]
    BY <1>2, <1>3, <1>4 DEF EarnedInv
  <1>6. QED
    BY <1>5, BookTurns DEF RecordPremium

THEOREM EarnedInvariant == ASSUME BookTyped PROVE CloseSpec => []EarnedInv
  <1>1. CloseInit => EarnedInv
    <2>1. CloseInit => CloseInv
      BY CloseStarts
    <2>2. ASSUME CloseInit PROVE OrderInv
      <3>1. measurements = << >> /\ DOMAIN measurements = {}
        BY <2>2 DEF CloseInit
      <3>2. \A r \in CloseRuns : close[r].step = "idle"
        BY <2>2 DEF CloseInit, Off
      <3>3. QED
        BY <3>1, <3>2 DEF OrderInv, CloseAt, Ascending, BookOK, Earned, MarginKept, RowsOf
    <2>3. QED
      BY <2>1, <2>2 DEF CloseInit, EarnedInv, BookTyped
  <1>2. EarnedInv /\ [CloseNext]_closeVars => EarnedInv'
    <2>1. ASSUME EarnedInv, CloseNext PROVE EarnedInv'
      <3>1. OrderStep
        BY <2>1, OrderKept
      <3>2. CloseInv'
        BY <2>1, CloseNextStep DEF EarnedInv, BookTyped, GroupsTyped
      <3>3. QED
        BY <2>1, <3>1, <3>2, StartCloseEarned, ReadPreviousEarned, SkipGroupEarned, AggregateEarned,
           SaveMeasurementEarned, EndCloseEarned, RecordPremiumEarned DEF CloseNext, CloseStep
    <2>2. ASSUME EarnedInv, UNCHANGED closeVars PROVE EarnedInv'
      <3>1. CloseInv'
        BY <2>2, CloseNextStep DEF EarnedInv, BookTyped, GroupsTyped
      <3>2. OrderStep
        BY <2>2 DEF closeVars, OrderStep, EarnedInv, OrderInv, OneAtWork, CloseAt
      <3>3. QED
        BY <2>2, <3>1, <3>2, BookTurns DEF closeVars, EarnedInv
    <2>3. QED
      BY <2>1, <2>2
  <1>3. QED
    BY <1>1, <1>2, PTL DEF CloseSpec

\* closeGroupPeriod reads the last measurement, adds up the month and saves a new
\* one awaits later: whatever groups and months there are, as long as one run works
\* at a time and months are closed in ascending order, what the closes of a PAA group
\* found paid is what they earned and what the last one carries forward, up to a cent
\* a close.
THEOREM PremiumsEarnedOnceHolds == ASSUME BookTyped PROVE CloseSpec => []PremiumsEarnedOnce
  <1>1. EarnedInv => PremiumsEarnedOnce
    BY DEF EarnedInv, OrderInv, Earned, IsPaa, PremiumsEarnedOnce
  <1>2. QED
    BY <1>1, EarnedInvariant, PTL

\* closeGmmGroup opens each month with the margin of the last measurement: whatever
\* groups, rates and months there are, as long as one run works at a time and months
\* are closed in ascending order, what a GMM group was recognised with and the interest
\* of every close are what the closes released and what the last one carries forward,
\* up to two cents a close.
THEOREM MarginsEarnedOnceHolds == ASSUME BookTyped PROVE CloseSpec => []MarginsEarnedOnce
  <1>1. EarnedInv => MarginsEarnedOnce
    BY DEF EarnedInv, OrderInv, MarginKept, IsPaa, MarginsEarnedOnce
  <1>2. QED
    BY <1>1, EarnedInvariant, PTL
===============================================================================
