-------------------------- MODULE FinancialStatements --------------------------
(***************************************************************************)
(* The reports that are derived from the journal: trial balance, ledger    *)
(* and detail of one account, profit or loss, financial position, budget   *)
(* against actual, cash flow.  Each is a query of its own over the lines   *)
(* of posted entries, so that they can disagree.                           *)
(*                                                                         *)
(* entries is the journal of module Journal, chart maps the code of an     *)
(* account to its type, period is the set of months asked for.             *)
(***************************************************************************)
EXTENDS Integers, Sequences, FiniteSets, Functions

AccountTypes == {"Asset", "Liability", "Equity", "Income", "Expense"}

\* A line <<entry, position>> of a posted entry of the period, on an account.
LinesOf(entries, period, code) ==
    UNION {{<<i, n>> : n \in {k \in DOMAIN entries[i].lines :
                                 entries[i].lines[k].account = code}} :
           i \in {j \in DOMAIN entries : /\ entries[j].status = "Posted"
                                         /\ entries[j].month \in period}}

LineAt(entries, line) == entries[line[1]].lines[line[2]]
DebitOf(entries, lines) == SumFunction([l \in lines |-> LineAt(entries, l).debit])
CreditOf(entries, lines) == SumFunction([l \in lines |-> LineAt(entries, l).credit])

\* One row per account with its two sums.
TrialBalance(entries, chart, period) ==
    [code \in {c \in DOMAIN chart : LinesOf(entries, period, c) # {}} |->
        LET lines == LinesOf(entries, period, code)
        IN  [debit |-> DebitOf(entries, lines), credit |-> CreditOf(entries, lines)]]

\* The running balance on the last line of an account's ledger.
ClosingBalance(entries, period, code) ==
    SumFunction([l \in LinesOf(entries, period, code) |->
                    LineAt(entries, l).debit - LineAt(entries, l).credit])

\* The transactions behind an account: one amount and the side it is on.
AccountDetail(entries, period, code) ==
    {LET l == LineAt(entries, line)
     IN  [line |-> line,
          amount |-> IF l.debit # 0 THEN l.debit ELSE l.credit,
          side |-> IF l.debit > 0 THEN "debit" ELSE "credit"] :
        line \in LinesOf(entries, period, code)}

\* Fault: equity is taken for an account that grows on the debit side.
CreditNormalButEquity(type) == type \in {"Income", "Liability"}
CreditNormal(type) == type \in {"Income", "Liability", "Equity"}

\* Every account's figure in its section of the statement.
StatementAmounts(entries, chart, period) ==
    LET rows == TrialBalance(entries, chart, period)
    IN  [code \in DOMAIN chart |->
            IF code \notin DOMAIN rows THEN 0
            ELSE IF CreditNormal(chart[code]) THEN rows[code].credit - rows[code].debit
                                              ELSE rows[code].debit - rows[code].credit]

\* Profit or loss and financial position.
FinancialStatement(entries, chart, period) ==
    LET amounts == StatementAmounts(entries, chart, period)
        Total(type) == SumFunctionOnSet(amounts, {code \in DOMAIN chart : chart[code] = type})
    IN  [netResult |-> Total("Income") - Total("Expense"),
         netAssets |-> Total("Asset") - Total("Liability"),
         equityTotal |-> Total("Equity")]

\* The actual figure beside a budget line: its own query and its own test of
\* the account's type.
BudgetActual(entries, chart, period, code) ==
    LET lines == LinesOf(entries, period, code)
        debit == DebitOf(entries, lines)
        credit == CreditOf(entries, lines)
    IN  IF code \in DOMAIN chart /\ chart[code] \in {"Income", "Liability", "Equity"}
        THEN credit - debit
        ELSE debit - credit

\* In- and outflow of the cash account by the module the entries come from.
CashCategories(entries, period, cash) ==
    LET lines == LinesOf(entries, period, cash)
    IN  [source \in {entries[l[1]].source : l \in lines} |->
            LET own == {l \in lines : entries[l[1]].source = source}
            IN  [inflow |-> DebitOf(entries, own), outflow |-> CreditOf(entries, own)]]
NetCashFlow(entries, period, cash) ==
    LET rows == CashCategories(entries, period, cash)
    IN  SumFunction([source \in DOMAIN rows |-> rows[source].inflow - rows[source].outflow])
-------------------------------------------------------------------------------
(* Properties of the reports over one journal.                              *)

\* What the business owns is what its owners put in and what it has earned:
\* the two statements are two views of one balanced journal.
StatementsMeet(entries, chart, period) ==
    LET s == FinancialStatement(entries, chart, period)
    IN  s.netAssets = s.equityTotal + s.netResult

\* The drill-downs of an account add up to its figure on the statement, and
\* the budget report shows the same figure.
DrillDownsAddUp(entries, chart, period) ==
    LET amounts == StatementAmounts(entries, chart, period)
    IN  \A code \in DOMAIN chart :
            LET sign == IF CreditNormal(chart[code]) THEN -1 ELSE 1
            IN  /\ amounts[code] = BudgetActual(entries, chart, period, code)
                /\ amounts[code] = sign * ClosingBalance(entries, period, code)
                /\ amounts[code] =
                     SumFunction([d \in AccountDetail(entries, period, code) |->
                                    IF d.side = "debit" THEN sign * d.amount
                                                        ELSE -sign * d.amount])

\* The cash flow statement explains the whole movement of the cash account.
CashFlowExplains(entries, chart, period, cash) ==
    NetCashFlow(entries, period, cash) = StatementAmounts(entries, chart, period)[cash]
===============================================================================
