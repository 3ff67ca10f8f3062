------------------------------ MODULE MCJournal ------------------------------
(* Instances of Journal for TLC. *)
EXTENDS Journal, FinancialStatements, TLC

CONSTANTS
    h1, h2, u1, u2,
    Chart,       \* the type of every account
    Cash         \* the cash account

ASSUME ChartAssumption ==
    /\ IsFiniteSet(Accounts)
    /\ Chart \in [Accounts -> AccountTypes]
    /\ Cash \in Accounts /\ Chart[Cash] = "Asset"

Line(account, debit, credit) ==
    [account |-> account, debit |-> debit, credit |-> credit]

\* Cash from a premium and from the owners, less a cost.
Even == <<Line("1010", 1000, 0), Line("5000", 300, 0), Line("4000", 0, 600),
          Line("3000", 0, 700)>>
Uneven == <<Line("1010", 1000, 0), Line("4000", 0, 2000)>>
Unknown == <<Line("1010", 1000, 0), Line("9999", 0, 1000)>>
\* Three times 0.333 on one side, 0.999 on the other.
Thirds == <<Line("1010", 333, 0), Line("1020", 333, 0), Line("2300", 333, 0),
            Line("4000", 0, 999)>>

WholeInputs == {Even, Uneven, Unknown}
OneInput == {Even}
FractionInputs == {Even, Thirds}
MCChart ==
    [code \in {"1010", "1020", "2300", "3000", "4000", "5000"} |->
        CASE code \in {"1010", "1020"} -> "Asset"
          [] code = "2300" -> "Liability"
          [] code = "3000" -> "Equity"
          [] code = "4000" -> "Income"
          [] code = "5000" -> "Expense"]
MCAccounts == DOMAIN MCChart

Symmetry == Permutations(Handlers) \cup Permutations(Users)
-------------------------------------------------------------------------------
\* Whatever posts, approvals, reversals and stale saves have left in the
\* journal, for every period: the statements meet, and every drill-down, the
\* budget report and the cash flow show the figures of the statement.
StatementsAgree ==
    \A period \in (SUBSET Months) \ {{}} :
        /\ StatementsMeet(entries, Chart, period)
        /\ DrillDownsAddUp(entries, Chart, period)
        /\ CashFlowExplains(entries, Chart, period, Cash)
-------------------------------------------------------------------------------
(* What the checks of the code achieve while calls come one after the other *)
(* and a restart comes between two calls: history of whether that was so.   *)

VARIABLE alone

MCInit == Init /\ alone = TRUE
MCNext ==
    /\ Next
    /\ alone' = /\ alone
                /\ crashes' = crashes \/ \A h \in Handlers : At(h, "idle")
                /\ Cardinality({h \in Handlers : handler'[h].step # "idle"}) <= 1
MCSpec == MCInit /\ [][MCNext]_<<vars, alone>>

\* "This entry has already been reversed": of one call after another only the
\* first offsets an entry.
ReversedOnceAlone == alone => ReversedOnce

\* A month is closed only when it has no pending entry, and no call that comes
\* later leaves one in it: neither a post nor a reversal dated in it.
SettledAlone == alone => ClosedMonthsSettled

\* Both, over restarts between the calls.
InOrderAlone == ReversedOnceAlone /\ SettledAlone

\* "Nothing can land in a closed month", reversals and events included.
FrozenAlone == [][alone' => ~AddsToClosedMonth]_vars
==============================================================================
