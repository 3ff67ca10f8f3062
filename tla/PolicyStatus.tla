------------------------------ MODULE PolicyStatus ------------------------------
(***************************************************************************)
(* policy-status.util.ts: the arrears, warning and lapse rules as pure     *)
(* operators.  Months are consecutive integers; a moment `now' is the      *)
(* calendar month and whether its premium due day has passed.              *)
(***************************************************************************)
EXTENDS Integers, FiniteSets, FiniteSetsExt

CONSTANTS
    Month,        \* months, an interval of integers
    WarningAfter, \* warningThresholdMonths
    LapseAfter,   \* lapseThresholdMonths
    Never         \* the month used for a policy without maturity, 2099-12

ASSUME PolicyStatusAssumption ==
    /\ Month \subseteq Nat /\ Never \in Nat
    /\ \A m, n \in Month : m .. n \subseteq Month
    /\ WarningAfter \in Nat \ {0} /\ LapseAfter \in Nat \ {0}

Moment == [month: Month, pastDue: BOOLEAN]
Terms == [commencement: Month, maturity: Month \cup {Never}, premium: Nat \ {0}]

Statuses == {"Not Yet Commenced", "Active", "One Month Outstanding", "Warning",
             "Lapsed", "Matured"}

Earlier(a, b) == IF a < b THEN a ELSE b
AtLeastZero(n) == IF n > 0 THEN n ELSE 0

\* No policy is judged on a month whose due day has not passed.
StatusCutoffMonth(reporting, now) ==
    Earlier(reporting, IF now.pastDue THEN now.month ELSE now.month - 1)

\* The months the loop runs over, none when it ends before it starts.
Judged(terms, cutoff) ==
    IF terms.commencement <= cutoff
    THEN terms.commencement .. Earlier(cutoff, terms.maturity)
    ELSE {}

\* Faults: the counter is not reset; any amount but the premium counts as unpaid.
NeverReset(terms, paid, cutoff) ==
    Cardinality({m \in Judged(terms, cutoff) : paid[m] < terms.premium})
ExactPremium(terms, paid, cutoff) ==
    Cardinality({m \in Judged(terms, cutoff) :
        \A n \in Judged(terms, cutoff) : n >= m => paid[n] # terms.premium})

\* The loop's counter after month m: a month not paid in full adds one, a paid
\* one resets it.
Consecutive(terms, paid, cutoff) ==
    LET first == terms.commencement
        last == Earlier(cutoff, terms.maturity)
        count[m \in (first - 1) .. last] ==
            IF m < first THEN 0
            ELSE IF paid[m] < terms.premium THEN count[m - 1] + 1 ELSE 0
    IN  IF Judged(terms, cutoff) = {} THEN 0 ELSE count[last]

TotalExpected(terms, cutoff) == terms.premium * Cardinality(Judged(terms, cutoff))
TotalPaid(terms, paid, cutoff) ==
    MapThenSumSet(LAMBDA m : paid[m], Judged(terms, cutoff))
TotalOutstanding(terms, paid, cutoff) ==
    AtLeastZero(TotalExpected(terms, cutoff) - TotalPaid(terms, paid, cutoff))

StatusOf(terms, paid, reporting, now) ==
    LET cutoff == StatusCutoffMonth(reporting, now)
        unpaid == Consecutive(terms, paid, cutoff)
    IN  CASE reporting < terms.commencement -> "Not Yet Commenced"
          [] reporting >= terms.commencement /\ reporting > terms.maturity -> "Matured"
          [] OTHER ->
               IF cutoff < terms.commencement THEN "Active"
               ELSE IF unpaid >= LapseAfter THEN "Lapsed"
               ELSE IF unpaid >= WarningAfter THEN "Warning"
               ELSE IF unpaid = 1 THEN "One Month Outstanding"
               ELSE "Active"
===============================================================================
