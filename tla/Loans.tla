--------------------------------- MODULE Loans ---------------------------------
(***************************************************************************)
(* Loans: LoansService.create, the two approvals, disburse and             *)
(* recordRepayment.  Every operation reads the row it works on, checks it, *)
(* and writes by id some awaits later without checking again.  Only        *)
(* disburse has a transaction.  Amounts are in cents.                      *)
(***************************************************************************)
EXTENDS Integers, Sequences, FiniteSets, FiniteSetsExt

CONSTANTS
    Handlers,     \* calls the server works on at the same time
    Loans,
    Users,
    Tenure,       \* installments of a loan
    AmountDue,    \* of one installment
    Amounts,      \* repayments recorded by the office
    NULL,
    MaxRecorded,  \* bound: repayments recorded
    MaxCrashes    \* bound: restarts of the process

VARIABLES
    loan,          \* table loans, NULL before the request
    installments,  \* table loan_repayments, in insertion order
    taken,         \* history: per installment, the sum of what was recorded
    handler,       \* what each call is doing
    recorded, crashes

vars == <<loan, installments, taken, handler, recorded, crashes>>

PendingLife == "Pending Life Manager Approval"
PendingFinance == "Pending Finance Director Approval"
LoanStatuses ==
    {PendingLife, PendingFinance, "Approved", "Rejected", "Disbursed", "Completed"}
Decisions == {"Approved", "Rejected"}

LoanRow ==
    [status: LoanStatuses, requestedBy: Users,
     lifeManagerDecision: Decisions \cup {NULL}, lifeManagerBy: Users \cup {NULL},
     financeDirectorDecision: Decisions \cup {NULL}, financeDirectorBy: Users \cup {NULL}]
Installment ==
    [loan: Loans, month: Nat, amountPaid: Nat, status: {"Due", "Paid", "Partial"}]

ASSUME LoansAssumption ==
    /\ Tenure \in Nat \ {0} /\ AmountDue \in Nat \ {0}
    /\ Amounts \subseteq Nat \ {0}
    /\ NULL \notin Users \cup Loans \cup LoanStatuses \cup LoanRow
    /\ MaxRecorded \in Nat /\ MaxCrashes \in Nat

Schedule(l) ==
    [m \in 1 .. Tenure |-> [loan |-> l, month |-> m, amountPaid |-> 0, status |-> "Due"]]
Of(l) == {i \in DOMAIN installments : installments[i].loan = l}

\* Paid up to a cent.
FullyPaid(amount) == amount >= AmountDue - 1

Steps == {"idle", "life", "finance", "disburse", "repay", "list", "complete"}
Idle == [step |-> "idle", loan |-> NULL, user |-> NULL, decision |-> NULL,
         installment |-> 0, amount |-> 0, amountPaid |-> 0]

At(h, step) == handler[h].step = step
Begin(h, call) == At(h, "idle") /\ handler' = [handler EXCEPT ![h] = call]
Goto(h, step) == handler' = [handler EXCEPT ![h].step = step]
Done(h) == handler' = [handler EXCEPT ![h] = Idle]
Status(l) == IF loan[l] = NULL THEN NULL ELSE loan[l].status

Init ==
    /\ loan = [l \in Loans |-> NULL]
    /\ installments = << >>
    /\ taken = << >>
    /\ handler = [h \in Handlers |-> Idle]
    /\ recorded = 0
    /\ crashes = 0
-------------------------------------------------------------------------------
(* Request and approvals.                                                   *)

\* create, for a client that is eligible by the premiums paid.
Request(l, u) ==
    /\ loan[l] = NULL
    /\ loan' = [loan EXCEPT ![l] =
         [status |-> PendingLife, requestedBy |-> u,
          lifeManagerDecision |-> NULL, lifeManagerBy |-> NULL,
          financeDirectorDecision |-> NULL, financeDirectorBy |-> NULL]]
    /\ UNCHANGED <<installments, taken, handler, recorded, crashes>>

\* Both decisions: not in another state, not on one's own request.
ReadDecision(h, l, u, decision, step, awaited) ==
    /\ Status(l) = awaited
    /\ loan[l].requestedBy # u
    /\ Begin(h, [Idle EXCEPT !.step = step, !.loan = l, !.user = u, !.decision = decision])
    /\ UNCHANGED <<loan, installments, taken, recorded, crashes>>

LifeManagerDecide(h, l, u, decision) == ReadDecision(h, l, u, decision, "life", PendingLife)
FinanceDirectorDecide(h, l, u, decision) ==
    ReadDecision(h, l, u, decision, "finance", PendingFinance)

WriteLifeManager(h) ==
    LET call == handler[h]
    IN  /\ At(h, "life")
        /\ loan' = [loan EXCEPT
             ![call.loan].lifeManagerDecision = call.decision,
             ![call.loan].lifeManagerBy = call.user,
             ![call.loan].status =
                 IF call.decision = "Approved" THEN PendingFinance ELSE "Rejected"]
        /\ Done(h)
        /\ UNCHANGED <<installments, taken, recorded, crashes>>

WriteFinanceDirector(h) ==
    LET call == handler[h]
    IN  /\ At(h, "finance")
        /\ loan' = [loan EXCEPT
             ![call.loan].financeDirectorDecision = call.decision,
             ![call.loan].financeDirectorBy = call.user,
             ![call.loan].status = call.decision]
        /\ Done(h)
        /\ UNCHANGED <<installments, taken, recorded, crashes>>
-------------------------------------------------------------------------------
(* disburse                                                                 *)

\* Fault: a loan in any state is disbursed.
DisburseAny(h, l) ==
    /\ loan[l] # NULL
    /\ Begin(h, [Idle EXCEPT !.step = "disburse", !.loan = l])
    /\ UNCHANGED <<loan, installments, taken, recorded, crashes>>

Disburse(h, l) ==
    /\ Status(l) = "Approved"
    /\ Begin(h, [Idle EXCEPT !.step = "disburse", !.loan = l])
    /\ UNCHANGED <<loan, installments, taken, recorded, crashes>>

\* The transaction: the status and the whole schedule.
WriteDisbursed(h) ==
    LET l == handler[h].loan
    IN  /\ At(h, "disburse")
        /\ loan' = [loan EXCEPT ![l].status = "Disbursed"]
        /\ installments' = installments \o Schedule(l)
        /\ taken' = taken \o [m \in 1 .. Tenure |-> 0]
        /\ Done(h)
        /\ UNCHANGED <<recorded, crashes>>
-------------------------------------------------------------------------------
(* recordRepayment                                                          *)

\* The installment is read and the new total computed.
RecordRepayment(h, i, amount) ==
    /\ recorded < MaxRecorded
    /\ recorded' = recorded + 1
    /\ Begin(h, [Idle EXCEPT !.step = "repay", !.loan = installments[i].loan,
                   !.installment = i, !.amount = amount,
                   !.amountPaid = installments[i].amountPaid + amount])
    /\ UNCHANGED <<loan, installments, taken, crashes>>

\* Fault: any repayment marks the installment paid.
WriteUnmarked(h) ==
    LET i == handler[h].installment
        paid == handler[h].amountPaid
    IN  /\ At(h, "repay")
        /\ installments' = [installments EXCEPT ![i].amountPaid = paid, ![i].status = "Paid"]
        /\ taken' = [taken EXCEPT ![i] = @ + handler[h].amount]
        /\ Goto(h, "list")
        /\ UNCHANGED <<loan, recorded, crashes>>

WriteRepayment(h) ==
    LET i == handler[h].installment
        paid == handler[h].amountPaid
    IN  /\ At(h, "repay")
        /\ installments' = [installments EXCEPT
             ![i].amountPaid = paid,
             ![i].status = IF FullyPaid(paid) THEN "Paid" ELSE "Partial"]
        /\ taken' = [taken EXCEPT ![i] = @ + handler[h].amount]
        /\ Goto(h, "list")
        /\ UNCHANGED <<loan, recorded, crashes>>

\* Fault: paid to the cent.
ListToTheCent(h) ==
    /\ At(h, "list")
    /\ IF \A i \in Of(handler[h].loan) : installments[i].amountPaid >= AmountDue
       THEN Goto(h, "complete") ELSE Done(h)
    /\ UNCHANGED <<loan, installments, taken, recorded, crashes>>

\* The schedule is read again; the row of this call counts as paid if it was
\* computed so.
ListInstallments(h) ==
    LET call == handler[h]
        paid(i) == \/ installments[i].status = "Paid"
                   \/ i = call.installment /\ FullyPaid(call.amountPaid)
    IN  /\ At(h, "list")
        /\ IF \A i \in Of(call.loan) : paid(i) THEN Goto(h, "complete") ELSE Done(h)
        /\ UNCHANGED <<loan, installments, taken, recorded, crashes>>

MarkCompleted(h) ==
    /\ At(h, "complete")
    /\ loan' = [loan EXCEPT ![handler[h].loan].status = "Completed"]
    /\ Done(h)
    /\ UNCHANGED <<installments, taken, recorded, crashes>>
-------------------------------------------------------------------------------
\* The process restarts between two steps.
Crash ==
    /\ crashes < MaxCrashes
    /\ crashes' = crashes + 1
    /\ handler' = [h \in Handlers |-> Idle]
    /\ UNCHANGED <<loan, installments, taken, recorded>>

Call(h) ==
    \/ \E l \in Loans, u \in Users, decision \in Decisions :
          LifeManagerDecide(h, l, u, decision) \/ FinanceDirectorDecide(h, l, u, decision)
    \/ \E l \in Loans : Disburse(h, l)
    \/ \E i \in DOMAIN installments, amount \in Amounts : RecordRepayment(h, i, amount)

Continue(h) ==
    \/ WriteLifeManager(h)
    \/ WriteFinanceDirector(h)
    \/ WriteDisbursed(h)
    \/ WriteRepayment(h)
    \/ ListInstallments(h)
    \/ MarkCompleted(h)

Next ==
    \/ \E l \in Loans, u \in Users : Request(l, u)
    \/ \E h \in Handlers : Call(h) \/ Continue(h)
    \/ Crash

Spec == Init /\ [][Next]_vars

\* A call that has begun ends; nobody has to begin one.
FairSpec == Spec /\ \A h \in Handlers : WF_vars(Continue(h))
-------------------------------------------------------------------------------
(* Properties.                                                              *)

\* Type invariant.
HandlerState ==
    [step: Steps, loan: Loans \cup {NULL}, user: Users \cup {NULL},
     decision: Decisions \cup {NULL}, installment: Nat, amount: Nat, amountPaid: Nat]
TypeOK ==
    /\ loan \in [Loans -> LoanRow \cup {NULL}]
    /\ installments \in Seq(Installment)
    /\ taken \in Seq(Nat) /\ DOMAIN taken = DOMAIN installments
    /\ handler \in [Handlers -> HandlerState]
    /\ recorded \in 0 .. MaxRecorded
    /\ crashes \in 0 .. MaxCrashes

PaidOut(l) == Status(l) \in {"Disbursed", "Completed"}

\* "Only a fully-approved loan can be disbursed": money has left only for a
\* loan with both approvals, neither by the person who requested it.
FullyApproved ==
    \A l \in Loans : PaidOut(l) =>
        /\ loan[l].lifeManagerDecision = "Approved"
        /\ loan[l].financeDirectorDecision = "Approved"
        /\ loan[l].requestedBy \notin {loan[l].lifeManagerBy, loan[l].financeDirectorBy}

\* "One row per monthly installment, created all at once when a loan is
\* disbursed": a loan paid out has one installment a month, no other loan any.
ScheduleOnce ==
    \A l \in Loans :
        /\ Of(l) # {} <=> PaidOut(l)
        /\ Of(l) # {} => \A m \in 1 .. Tenure :
                            Cardinality({i \in Of(l) : installments[i].month = m}) = 1

\* Every repayment recorded is in the total of its installment.
RepaymentsKept ==
    \A i \in DOMAIN installments : installments[i].amountPaid = taken[i]

\* A loan is completed only when every installment is paid, up to a cent.
CompletedIsPaid ==
    \A l \in Loans : Status(l) = "Completed" =>
        \A i \in Of(l) : FullyPaid(installments[i].amountPaid)

\* "Marks the loan Completed once every installment is fully paid", also when
\* the last two installments are paid at the same time and each of the two
\* calls may have listed the other's as unpaid - unless a restart cuts off the
\* call that would have done it.
AllPaid(l) == /\ Of(l) # {}
              /\ \A i \in Of(l) : FullyPaid(installments[i].amountPaid)
MarksCompleted ==
    \A l \in Loans : <>[](AllPaid(l) /\ crashes = 0) => <>(Status(l) = "Completed")
===============================================================================
