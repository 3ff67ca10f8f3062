------------------------------ MODULE MCFormulas ------------------------------
(***************************************************************************)
(* computePolicyStatus over small inputs: every policy, everything that    *)
(* was paid for each month and every moment of a report is an initial      *)
(* state.  A step is one more unit of money received for a month.          *)
(***************************************************************************)
EXTENDS PolicyStatus

CONSTANT MaxPaid    \* the most a month can receive, in premiums of 2

VARIABLES terms, paid, reporting, now
vars == <<terms, paid, reporting, now>>

AnyPolicy ==
    /\ terms \in [commencement: Month, maturity: Month \cup {Never}, premium: {2}]
    /\ paid \in [Month -> 0 .. MaxPaid]
    /\ now \in Moment
    /\ reporting \in Month

ReceiveMore ==
    /\ \E m \in Month : /\ paid[m] < MaxPaid
                        /\ paid' = [paid EXCEPT ![m] = @ + 1]
    /\ UNCHANGED <<terms, reporting, now>>

Spec == AnyPolicy /\ [][ReceiveMore]_vars
-------------------------------------------------------------------------------
Cutoff == StatusCutoffMonth(reporting, now)
Status == StatusOf(terms, paid, reporting, now)
MonthsJudged == Judged(terms, Cutoff)

\* The loop of computePolicyStatus against a definition without one: the
\* counter is the number of judged months after the last fully paid one, and
\* Lapsed, Warning and One Month Outstanding are exactly the lengths of that run.
UnpaidRun ==
    {m \in MonthsJudged : \A n \in MonthsJudged : n >= m => paid[n] < terms.premium}
StatusIsUnpaidRun ==
    /\ Status = "Lapsed" => Cardinality(UnpaidRun) >= LapseAfter
    /\ Status = "Warning" => Cardinality(UnpaidRun) \in WarningAfter .. LapseAfter - 1
    /\ Status = "One Month Outstanding" => Cardinality(UnpaidRun) = 1
    /\ Status = "Active" => UnpaidRun = {}

\* More money in any month never makes the status worse, and never leaves a
\* larger balance outstanding: overpaying is not being in arrears.
Rank(status) ==
    CASE status = "Lapsed" -> 3 [] status = "Warning" -> 2
      [] status = "One Month Outstanding" -> 1 [] OTHER -> 0
PayingNeverHurts ==
    \A m \in Month :
        LET more == [paid EXCEPT ![m] = @ + 1]
        IN  /\ Rank(StatusOf(terms, more, reporting, now)) <= Rank(Status)
            /\ TotalOutstanding(terms, more, Cutoff) <= TotalOutstanding(terms, paid, Cutoff)
===============================================================================
