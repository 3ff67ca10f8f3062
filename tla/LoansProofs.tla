------------------------------- MODULE LoansProofs -------------------------------
(***************************************************************************)
(* Proofs about Loans, for every set of loans, users and calls at work,    *)
(* every tenure and amount due.  Calls write by id what they read some     *)
(* steps before: first what is always so, then what is so while calls come *)
(* one after the other, restarts that cut them off included.               *)
(***************************************************************************)
EXTENDS MCLoans, FiniteSetTheorems, TLAPS

\* A call works on a loan that was requested, a repayment on one of its installments.
CallOK(c) ==
    /\ c.step # "idle" => c.loan \in Loans /\ loan[c.loan] # NULL
    /\ c.step \in {"life", "finance"} => c.user \in Users /\ c.decision \in Decisions
    /\ c.step \in {"repay", "list"} =>
          c.installment \in DOMAIN installments /\ installments[c.installment].loan = c.loan
LoansInv ==
    /\ TypeOK
    /\ \A h \in Handlers : CallOK(handler[h])
    /\ \A i \in DOMAIN installments : loan[installments[i].loan] # NULL

\* Requests and installments stay.
RowsKept ==
    /\ \A l \in Loans : loan[l] # NULL => loan'[l] # NULL
    /\ \A i \in DOMAIN installments : /\ i \in DOMAIN installments'
                                      /\ installments'[i].loan = installments[i].loan

\* The rows of the schedule.
LEMMA InstallmentType ==
    ASSUME TypeOK, NEW i \in DOMAIN installments
    PROVE  /\ installments[i] \in Installment
           /\ installments[i].loan \in Loans /\ installments[i].month \in Nat
           /\ installments[i].amountPaid \in Nat
           /\ installments[i].status \in {"Due", "Paid", "Partial"}
           /\ i \in Nat /\ taken[i] \in Nat
  <1>1. /\ installments \in Seq(Installment)
        /\ taken \in Seq(Nat) /\ DOMAIN taken = DOMAIN installments
    BY DEF TypeOK
  <1>2. installments[i] \in Installment /\ i \in Nat /\ taken[i] \in Nat
    BY <1>1
  <1>3. QED
    BY <1>2 DEF Installment
-------------------------------------------------------------------------------
(* Calls.                                                                   *)

\* Goto changes the place of a call only, Done makes it idle, Begin begins it; no
\* other call moves.
LEMMA OneCall ==
    ASSUME handler \in [Handlers -> HandlerState], NEW h \in Handlers
    PROVE  /\ \A step \in Steps : Goto(h, step) =>
                /\ handler' \in [Handlers -> HandlerState]
                /\ handler'[h].step = step
                /\ handler'[h].loan = handler[h].loan
                /\ handler'[h].installment = handler[h].installment
                /\ handler'[h].amountPaid = handler[h].amountPaid
                /\ \A g \in Handlers \ {h} : handler'[g] = handler[g]
           /\ Done(h) => /\ handler' \in [Handlers -> HandlerState]
                         /\ handler'[h] = Idle
                         /\ \A g \in Handlers \ {h} : handler'[g] = handler[g]
           /\ \A call \in HandlerState : Begin(h, call) =>
                /\ handler' \in [Handlers -> HandlerState]
                /\ handler'[h] = call
                /\ handler[h].step = "idle"
                /\ \A g \in Handlers \ {h} : handler'[g] = handler[g]
  <1>1. Idle \in HandlerState
    BY DEF Idle, HandlerState, Steps
  <1>2. ASSUME NEW c \in HandlerState, handler' = [handler EXCEPT ![h] = c]
        PROVE  /\ handler' \in [Handlers -> HandlerState]
               /\ handler'[h] = c
               /\ \A g \in Handlers \ {h} : handler'[g] = handler[g]
    BY <1>2
  <1>3. ASSUME NEW step \in Steps, Goto(h, step)
        PROVE  /\ handler' \in [Handlers -> HandlerState]
               /\ handler'[h].step = step
               /\ handler'[h].loan = handler[h].loan
               /\ handler'[h].installment = handler[h].installment
               /\ handler'[h].amountPaid = handler[h].amountPaid
               /\ \A g \in Handlers \ {h} : handler'[g] = handler[g]
    <2>1. PICK c : c = [handler[h] EXCEPT !.step = step]
      OBVIOUS
    <2>2. handler[h] \in HandlerState
      OBVIOUS
    <2>3. /\ c \in HandlerState
          /\ c.step = step
          /\ c.loan = handler[h].loan
          /\ c.installment = handler[h].installment
          /\ c.amountPaid = handler[h].amountPaid
      BY <2>1, <2>2 DEF HandlerState
    <2>4. handler' = [handler EXCEPT ![h] = c]
      BY <1>3, <2>1 DEF Goto
    <2>5. QED
      BY <1>2, <2>3, <2>4
  <1>4. Done(h) => /\ handler' \in [Handlers -> HandlerState]
                   /\ handler'[h] = Idle
                   /\ \A g \in Handlers \ {h} : handler'[g] = handler[g]
    BY <1>1, <1>2 DEF Done
  <1>5. ASSUME NEW call \in HandlerState, Begin(h, call)
        PROVE  /\ handler' \in [Handlers -> HandlerState]
               /\ handler'[h] = call
               /\ handler[h].step = "idle"
               /\ \A g \in Handlers \ {h} : handler'[g] = handler[g]
    BY <1>2, <1>5 DEF Begin, At
  <1>6. QED
    BY <1>3, <1>4, <1>5

\* If rows stay and the call that moves may assume what it holds, all may.
LEMMA OneCallOK ==
    ASSUME LoansInv, RowsKept, NEW h \in Handlers,
           \A g \in Handlers \ {h} : handler'[g] = handler[g],
           CallOK(handler[h])'
    PROVE  \A g \in Handlers : CallOK(handler[g])'
  <1>1. ASSUME NEW g \in Handlers \ {h}, NEW c, c = handler[g]
        PROVE  CallOK(c)' /\ handler'[g] = c
    <2>1. CallOK(c)
      BY <1>1 DEF LoansInv
    <2>2. QED
      BY <1>1, <2>1 DEF CallOK, RowsKept
  <1>2. \A g \in Handlers \ {h} : CallOK(handler[g])'
    BY <1>1
  <1>3. QED
    BY <1>2

\* A write to the row of one loan.
LEMMA LoanWrite ==
    ASSUME LoansInv, NEW l \in Loans, NEW row \in LoanRow, loan' = [loan EXCEPT ![l] = row]
    PROVE  /\ loan' \in [Loans -> LoanRow \cup {NULL}]
           /\ loan'[l] = row /\ loan'[l] # NULL
           /\ \A k \in Loans \ {l} : loan'[k] = loan[k]
           /\ \A k \in Loans : loan[k] # NULL => loan'[k] # NULL
  BY LoansAssumption DEF LoansInv, TypeOK, LoansAssumption

\* A write to one installment.
LEMMA InstallmentWrite ==
    ASSUME LoansInv, NEW i \in DOMAIN installments, NEW row \in Installment,
           installments' = [installments EXCEPT ![i] = row], row.loan = installments[i].loan
    PROVE  /\ installments' \in Seq(Installment)
           /\ DOMAIN installments' = DOMAIN installments
           /\ installments'[i] = row
           /\ \A j \in DOMAIN installments \ {i} : installments'[j] = installments[j]
           /\ \A j \in DOMAIN installments : installments'[j].loan = installments[j].loan
  BY DEF LoansInv, TypeOK

\* Two sequences, one behind the other.
LEMMA Concatenation ==
    ASSUME NEW T, NEW s \in Seq(T), NEW t \in Seq(T)
    PROVE  /\ s \o t \in Seq(T) /\ Len(s \o t) = Len(s) + Len(t)
           /\ \A i \in 1 .. Len(s) : (s \o t)[i] = s[i]
           /\ \A i \in 1 .. Len(t) : (s \o t)[Len(s) + i] = t[i]
  OBVIOUS

\* The schedule of a loan behind the installments there are.
LEMMA ScheduleWrite ==
    ASSUME LoansInv, NEW l \in Loans, installments' = installments \o Schedule(l)
    PROVE  /\ installments' \in Seq(Installment)
           /\ DOMAIN installments' = 1 .. Len(installments) + Tenure
           /\ DOMAIN installments = 1 .. Len(installments)
           /\ Len(installments) \in Nat /\ Tenure \in Nat
           /\ \A i \in DOMAIN installments : installments'[i] = installments[i]
           /\ \A m \in 1 .. Tenure :
                installments'[Len(installments) + m]
                  = [loan |-> l, month |-> m, amountPaid |-> 0, status |-> "Due"]
  <1>1. Tenure \in Nat /\ Tenure # 0
    BY LoansAssumption DEF LoansAssumption
  <1>2. installments \in Seq(Installment)
    BY DEF LoansInv, TypeOK
  <1>3. PICK S : S = Schedule(l)
    OBVIOUS
  <1>4. \A m \in 1 .. Tenure :
          [loan |-> l, month |-> m, amountPaid |-> 0, status |-> "Due"] \in Installment
    BY DEF Installment
  <1>5. S \in [1 .. Tenure -> Installment]
    BY <1>3, <1>4 DEF Schedule
  <1>6. S \in Seq(Installment) /\ Len(S) = Tenure
    BY <1>1, <1>5
  <1>7. \A m \in 1 .. Tenure :
          S[m] = [loan |-> l, month |-> m, amountPaid |-> 0, status |-> "Due"]
    BY <1>3 DEF Schedule
  <1>8. /\ installments' = installments \o S
        /\ installments' \in Seq(Installment)
        /\ Len(installments') = Len(installments) + Tenure
    BY <1>2, <1>3, <1>6, Concatenation
  <1>9. /\ \A i \in 1 .. Len(installments) : installments'[i] = installments[i]
        /\ \A m \in 1 .. Tenure : installments'[Len(installments) + m] = S[m]
    BY <1>2, <1>3, <1>6, Concatenation
  <1>10. QED
    BY <1>1, <1>2, <1>7, <1>8, <1>9
-------------------------------------------------------------------------------
(* Types.                                                                   *)

\* What a call reads when it begins.
LEMMA CallStep ==
    ASSUME LoansInv, NEW h \in Handlers, Call(h)
    PROVE  LoansInv'
  <1>1. PICK old : old = handler[h]
    OBVIOUS
  <1>2. /\ handler \in [Handlers -> HandlerState]
        /\ installments \in Seq(Installment)
        /\ loan \in [Loans -> LoanRow \cup {NULL}]
    BY DEF LoansInv, TypeOK
  <1>3. UNCHANGED <<loan, installments, taken, crashes>>
    BY DEF Call, LifeManagerDecide, FinanceDirectorDecide, ReadDecision, Disburse,
       RecordRepayment
  <1>4. RowsKept
    BY <1>3 DEF RowsKept
  <1>5. recorded' \in 0 .. MaxRecorded
    <2>1. recorded' = recorded \/ (recorded < MaxRecorded /\ recorded' = recorded + 1)
      BY DEF Call, LifeManagerDecide, FinanceDirectorDecide, ReadDecision, Disburse,
         RecordRepayment
    <2>2. recorded \in 0 .. MaxRecorded /\ MaxRecorded \in Nat
      BY LoansAssumption DEF LoansInv, TypeOK, LoansAssumption
    <2>3. QED
      BY <2>1, <2>2
  <1>6. ASSUME NEW l \in Loans, Status(l) \in LoanStatuses
        PROVE  loan[l] # NULL
    BY <1>6, LoansAssumption DEF Status, LoansAssumption
  <1>7. \E c \in HandlerState : Begin(h, c) /\ CallOK(c)
    <2>1. ASSUME NEW l \in Loans, NEW u \in Users, NEW decision \in Decisions,
                 NEW step \in {"life", "finance"}, NEW awaited \in LoanStatuses,
                 ReadDecision(h, l, u, decision, step, awaited)
          PROVE  \E c \in HandlerState : Begin(h, c) /\ CallOK(c)
      <3>1. PICK c : c = [Idle EXCEPT !.step = step, !.loan = l, !.user = u,
                                      !.decision = decision]
        OBVIOUS
      <3>2. /\ c \in HandlerState /\ c.step = step /\ c.loan = l
            /\ c.user = u /\ c.decision = decision
        BY <3>1 DEF Idle, HandlerState, Steps
      <3>3. loan[l] # NULL
        BY <1>6, <2>1 DEF ReadDecision
      <3>4. Begin(h, c) /\ CallOK(c)
        BY <2>1, <3>1, <3>2, <3>3 DEF ReadDecision, CallOK
      <3>5. QED
        BY <3>2, <3>4
    <2>2. ASSUME NEW l \in Loans, Disburse(h, l)
          PROVE  \E c \in HandlerState : Begin(h, c) /\ CallOK(c)
      <3>1. PICK c : c = [Idle EXCEPT !.step = "disburse", !.loan = l]
        OBVIOUS
      <3>2. c \in HandlerState /\ c.step = "disburse" /\ c.loan = l
        BY <3>1 DEF Idle, HandlerState, Steps
      <3>3. loan[l] # NULL
        BY <1>6, <2>2 DEF Disburse, LoanStatuses
      <3>4. Begin(h, c) /\ CallOK(c)
        BY <2>2, <3>1, <3>2, <3>3 DEF Disburse, CallOK
      <3>5. QED
        BY <3>2, <3>4
    <2>3. ASSUME NEW i \in DOMAIN installments, NEW amount \in Amounts,
                 RecordRepayment(h, i, amount)
          PROVE  \E c \in HandlerState : Begin(h, c) /\ CallOK(c)
      <3>1. PICK row : row = installments[i]
        OBVIOUS
      <3>2. PICK c : c = [Idle EXCEPT !.step = "repay", !.loan = row.loan, !.installment = i,
                                      !.amount = amount, !.amountPaid = row.amountPaid + amount]
        OBVIOUS
      <3>3. row \in Installment /\ i \in Nat /\ loan[row.loan] # NULL
        BY <1>2, <3>1 DEF LoansInv
      <3>4. row.loan \in Loans /\ row.amountPaid + amount \in Nat /\ amount \in Nat
        BY <3>3, LoansAssumption DEF Installment, LoansAssumption
      <3>5. c \in HandlerState /\ c.step = "repay" /\ c.loan = row.loan /\ c.installment = i
        BY <3>2, <3>3, <3>4 DEF Idle, HandlerState, Steps
      <3>6. Begin(h, c)
        BY <2>3, <3>1, <3>2 DEF RecordRepayment
      <3>7. CallOK(c)
        BY <3>1, <3>3, <3>4, <3>5 DEF CallOK
      <3>8. QED
        BY <3>5, <3>6, <3>7
    <2>4. QED
      BY <2>1, <2>2, <2>3 DEF Call, LifeManagerDecide, FinanceDirectorDecide, LoanStatuses
  <1>8. PICK c \in HandlerState : Begin(h, c) /\ CallOK(c)
    BY <1>7
  <1>9. /\ handler' \in [Handlers -> HandlerState]
        /\ handler'[h] = c
        /\ \A g \in Handlers \ {h} : handler'[g] = handler[g]
    BY <1>2, <1>8, OneCall
  <1>10. CallOK(c)'
    BY <1>3, <1>8 DEF CallOK
  <1>11. \A g \in Handlers : CallOK(handler[g])'
    BY <1>4, <1>9, <1>10, OneCallOK
  <1>12. TypeOK'
    BY <1>3, <1>5, <1>9 DEF LoansInv, TypeOK
  <1>13. QED
    BY <1>3, <1>11, <1>12 DEF LoansInv

\* The writes to the row of a loan: the decisions and the completion.
LEMMA LoanRowStep ==
    ASSUME LoansInv, NEW h \in Handlers,
           WriteLifeManager(h) \/ WriteFinanceDirector(h) \/ MarkCompleted(h)
    PROVE  /\ LoansInv'
           /\ \A l \in Loans \ {handler[h].loan} : loan'[l] = loan[l]
  <1>1. PICK call : call = handler[h]
    OBVIOUS
  <1>2. /\ handler \in [Handlers -> HandlerState]
        /\ loan \in [Loans -> LoanRow \cup {NULL}]
        /\ CallOK(call)
    BY <1>1 DEF LoansInv, TypeOK
  <1>3. /\ call.loan \in Loans /\ loan[call.loan] \in LoanRow
        /\ UNCHANGED <<installments, taken, recorded, crashes>> /\ Done(h)
    BY <1>1, <1>2
    DEF WriteLifeManager, WriteFinanceDirector, MarkCompleted, At, CallOK
  <1>4. \E row \in LoanRow : loan' = [loan EXCEPT ![call.loan] = row]
    <2>1. CASE WriteLifeManager(h)
      <3>1. PICK row : row = [loan[call.loan] EXCEPT
                         !.lifeManagerDecision = call.decision, !.lifeManagerBy = call.user,
                         !.status = IF call.decision = "Approved" THEN PendingFinance
                                                                  ELSE "Rejected"]
        OBVIOUS
      <3>2. call.decision \in Decisions /\ call.user \in Users
        BY <1>1, <1>2, <2>1 DEF WriteLifeManager, At, CallOK
      <3>3. row \in LoanRow
        BY <1>3, <3>1, <3>2 DEF LoanRow, LoanStatuses
      <3>4. loan' = [loan EXCEPT ![call.loan] = row]
        BY <1>1, <1>2, <1>3, <2>1, <3>1 DEF WriteLifeManager
      <3>5. QED
        BY <3>3, <3>4
    <2>2. CASE WriteFinanceDirector(h)
      <3>1. PICK row : row = [loan[call.loan] EXCEPT
                         !.financeDirectorDecision = call.decision,
                         !.financeDirectorBy = call.user, !.status = call.decision]
        OBVIOUS
      <3>2. call.decision \in Decisions /\ call.user \in Users
        BY <1>1, <1>2, <2>2 DEF WriteFinanceDirector, At, CallOK
      <3>3. row \in LoanRow
        BY <1>3, <3>1, <3>2 DEF LoanRow, LoanStatuses, Decisions
      <3>4. loan' = [loan EXCEPT ![call.loan] = row]
        BY <1>1, <1>2, <1>3, <2>2, <3>1 DEF WriteFinanceDirector
      <3>5. QED
        BY <3>3, <3>4
    <2>3. CASE MarkCompleted(h)
      <3>1. PICK row : row = [loan[call.loan] EXCEPT !.status = "Completed"]
        OBVIOUS
      <3>2. row \in LoanRow
        BY <1>3, <3>1 DEF LoanRow, LoanStatuses
      <3>3. loan' = [loan EXCEPT ![call.loan] = row]
        BY <1>1, <2>3, <3>1 DEF MarkCompleted
      <3>4. QED
        BY <3>2, <3>3
    <2>4. QED
      BY <2>1, <2>2, <2>3
  <1>5. /\ loan' \in [Loans -> LoanRow \cup {NULL}]
        /\ \A k \in Loans \ {call.loan} : loan'[k] = loan[k]
        /\ \A k \in Loans : loan[k] # NULL => loan'[k] # NULL
    BY <1>3, <1>4, LoanWrite
  <1>6. RowsKept
    BY <1>3, <1>5 DEF RowsKept
  <1>7. /\ handler' \in [Handlers -> HandlerState]
        /\ handler'[h] = Idle
        /\ \A g \in Handlers \ {h} : handler'[g] = handler[g]
    BY <1>2, <1>3, OneCall
  <1>8. CallOK(Idle)'
    BY DEF CallOK, Idle
  <1>9. \A g \in Handlers : CallOK(handler[g])'
    BY <1>6, <1>7, <1>8, OneCallOK
  <1>10. TypeOK'
    BY <1>3, <1>5, <1>7 DEF LoansInv, TypeOK
  <1>11. \A i \in DOMAIN installments' : (loan[installments[i].loan] # NULL)'
    <2>1. \A i \in DOMAIN installments : installments[i].loan \in Loans
      BY InstallmentType DEF LoansInv
    <2>2. QED
      BY <1>3, <1>5, <2>1 DEF LoansInv
  <1>12. QED
    BY <1>1, <1>5, <1>9, <1>10, <1>11 DEF LoansInv

\* The transaction of disburse: the row, and behind the others the installments of
\* this loan, of which nothing is recorded yet.
DisbursedFacts(h) ==
    LET l == handler[h].loan
    IN  /\ l \in Loans /\ loan[l] \in LoanRow
        /\ loan'[l] = [loan[l] EXCEPT !.status = "Disbursed"]
        /\ \A k \in Loans \ {l} : loan'[k] = loan[k]
        /\ DOMAIN installments = 1 .. Len(installments)
        /\ DOMAIN installments' = 1 .. Len(installments) + Tenure
        /\ Len(installments) \in Nat /\ Tenure \in Nat
        /\ \A i \in DOMAIN installments :
             installments'[i] = installments[i] /\ taken'[i] = taken[i]
        /\ \A m \in 1 .. Tenure :
             /\ installments'[Len(installments) + m]
                  = [loan |-> l, month |-> m, amountPaid |-> 0, status |-> "Due"]
             /\ taken'[Len(installments) + m] = 0
        /\ handler'[h] = Idle

\* The transaction keeps the invariant and does just that.
LEMMA DisburseStep ==
    ASSUME LoansInv, NEW h \in Handlers, WriteDisbursed(h)
    PROVE  LoansInv' /\ DisbursedFacts(h)
  <1>1. PICK l : l = handler[h].loan
    OBVIOUS
  <1>2. /\ handler \in [Handlers -> HandlerState]
        /\ loan \in [Loans -> LoanRow \cup {NULL}]
        /\ installments \in Seq(Installment)
        /\ taken \in Seq(Nat) /\ DOMAIN taken = DOMAIN installments
        /\ CallOK(handler[h])
    BY DEF LoansInv, TypeOK
  <1>3. /\ l \in Loans /\ loan[l] \in LoanRow
        /\ UNCHANGED <<recorded, crashes>> /\ Done(h)
        /\ loan' = [loan EXCEPT ![l].status = "Disbursed"]
        /\ installments' = installments \o Schedule(l)
        /\ taken' = taken \o [m \in 1 .. Tenure |-> 0]
    BY <1>1, <1>2 DEF WriteDisbursed, At, CallOK
  <1>4. PICK row : row = [loan[l] EXCEPT !.status = "Disbursed"]
    OBVIOUS
  <1>5. row \in LoanRow /\ loan' = [loan EXCEPT ![l] = row]
    BY <1>3, <1>4 DEF LoanRow, LoanStatuses
  <1>6. /\ loan' \in [Loans -> LoanRow \cup {NULL}]
        /\ loan'[l] = row /\ loan'[l] # NULL
        /\ \A k \in Loans \ {l} : loan'[k] = loan[k]
        /\ \A k \in Loans : loan[k] # NULL => loan'[k] # NULL
    BY <1>3, <1>5, LoanWrite
  <1>7. /\ installments' \in Seq(Installment)
        /\ DOMAIN installments' = 1 .. Len(installments) + Tenure
        /\ DOMAIN installments = 1 .. Len(installments)
        /\ Len(installments) \in Nat /\ Tenure \in Nat
        /\ \A i \in DOMAIN installments : installments'[i] = installments[i]
        /\ \A m \in 1 .. Tenure :
             installments'[Len(installments) + m]
               = [loan |-> l, month |-> m, amountPaid |-> 0, status |-> "Due"]
    BY <1>3, ScheduleWrite
  <1>8. /\ taken' \in Seq(Nat) /\ DOMAIN taken' = DOMAIN installments'
        /\ \A i \in DOMAIN installments : taken'[i] = taken[i]
        /\ \A m \in 1 .. Tenure : taken'[Len(installments) + m] = 0
    <2>1. PICK Z : Z = [m \in 1 .. Tenure |-> 0]
      OBVIOUS
    <2>2. Z \in Seq(Nat) /\ Len(Z) = Tenure /\ \A m \in 1 .. Tenure : Z[m] = 0
      BY <1>7, <2>1
    <2>3. Len(taken) = Len(installments)
      BY <1>2
    <2>4. taken' = taken \o Z
      BY <1>3, <2>1
    <2>5. PICK both : both = taken \o Z
      OBVIOUS
    <2>6. both \in Seq(Nat) /\ Len(both) = Len(taken) + Len(Z)
      <3>1. PICK N : N = Nat
        OBVIOUS
      <3>2. taken \in Seq(N) /\ Z \in Seq(N)
        BY <1>2, <2>2, <3>1
      <3>3. both \in Seq(N) /\ Len(both) = Len(taken) + Len(Z)
        BY <2>5, <3>2, Concatenation
      <3>4. QED
        BY <3>1, <3>3
    <2>7. \A i \in 1 .. Len(taken) : both[i] = taken[i]
      BY <1>2, <2>2, <2>5
    <2>8. \A m \in 1 .. Len(Z) : both[Len(taken) + m] = Z[m]
      BY <1>2, <2>2, <2>5
    <2>9. taken' = both
      BY <2>4, <2>5
    <2>10. DOMAIN both = 1 .. Len(installments) + Tenure
      BY <2>2, <2>3, <2>6
    <2>11. \A m \in 1 .. Tenure : both[Len(installments) + m] = 0
      BY <2>2, <2>3, <2>8
    <2>12. \A i \in DOMAIN installments : both[i] = taken[i]
      BY <1>7, <2>3, <2>7
    <2>13. QED
      BY <1>7, <2>6, <2>9, <2>10, <2>11, <2>12
  <1>9. RowsKept
    BY <1>6, <1>7 DEF RowsKept
  <1>10. /\ handler' \in [Handlers -> HandlerState]
         /\ handler'[h] = Idle
         /\ \A g \in Handlers \ {h} : handler'[g] = handler[g]
    BY <1>2, <1>3, OneCall
  <1>11. CallOK(Idle)'
    BY DEF CallOK, Idle
  <1>12. \A g \in Handlers : CallOK(handler[g])'
    BY <1>9, <1>10, <1>11, OneCallOK
  <1>13. TypeOK'
    BY <1>3, <1>6, <1>7, <1>8, <1>10 DEF LoansInv, TypeOK
  <1>14. ASSUME NEW i \in DOMAIN installments'
         PROVE  loan'[installments'[i].loan] # NULL
    <2>1. CASE i \in DOMAIN installments
      <3>1. installments[i].loan \in Loans /\ loan[installments[i].loan] # NULL
        BY <2>1, InstallmentType DEF LoansInv
      <3>2. QED
        BY <1>6, <1>7, <2>1, <3>1
    <2>2. CASE i \notin DOMAIN installments
      <3>1. i - Len(installments) \in 1 .. Tenure
        BY <1>7, <1>14, <2>2
      <3>2. PICK m \in 1 .. Tenure : i = Len(installments) + m
        BY <1>7, <1>14, <3>1
      <3>3. PICK due : due = [loan |-> l, month |-> m, amountPaid |-> 0, status |-> "Due"]
        OBVIOUS
      <3>4. installments'[i] = due
        BY <1>7, <3>2, <3>3
      <3>5. due.loan = l
        BY <3>3
      <3>6. QED
        BY <1>6, <3>4, <3>5
    <2>3. QED
      BY <2>1, <2>2
  <1>15. DisbursedFacts(h)
    BY <1>1, <1>3, <1>4, <1>6, <1>7, <1>8, <1>10 DEF DisbursedFacts
  <1>16. QED
    BY <1>12, <1>13, <1>14, <1>15 DEF LoansInv

\* A repayment replaces the total of its installment by the one computed before.
RepaidFacts(h) ==
    LET call == handler[h]
        i == call.installment
    IN  /\ i \in DOMAIN installments /\ installments[i].loan = call.loan
        /\ call.amount \in Nat /\ call.amountPaid \in Nat
        /\ DOMAIN installments' = DOMAIN installments
        /\ \A j \in DOMAIN installments \ {i} :
             installments'[j] = installments[j] /\ taken'[j] = taken[j]
        /\ installments'[i].loan = installments[i].loan
        /\ installments'[i].month = installments[i].month
        /\ installments'[i].amountPaid = call.amountPaid
        /\ installments'[i].status = IF FullyPaid(call.amountPaid) THEN "Paid" ELSE "Partial"
        /\ taken'[i] = taken[i] + call.amount
        /\ handler'[h].step = "list"
        /\ handler'[h].loan = call.loan
        /\ handler'[h].installment = i
        /\ handler'[h].amountPaid = call.amountPaid

\* The write of a repayment keeps the invariant and does just that.
LEMMA RepayStep ==
    ASSUME LoansInv, NEW h \in Handlers, WriteRepayment(h)
    PROVE  LoansInv' /\ RepaidFacts(h)
  <1>1. PICK call : call = handler[h]
    OBVIOUS
  <1>2. /\ handler \in [Handlers -> HandlerState]
        /\ installments \in Seq(Installment)
        /\ taken \in Seq(Nat) /\ DOMAIN taken = DOMAIN installments
        /\ CallOK(call) /\ call \in HandlerState /\ call.step = "repay"
    BY <1>1 DEF LoansInv, TypeOK, WriteRepayment, At
  <1>3. PICK i : i = call.installment
    OBVIOUS
  <1>4. /\ i \in DOMAIN installments /\ installments[i].loan = call.loan
        /\ call.amount \in Nat /\ call.amountPaid \in Nat
        /\ call.loan \in Loans /\ loan[call.loan] # NULL
    BY <1>2, <1>3 DEF CallOK, HandlerState
  <1>5. PICK status \in {"Paid", "Partial"} :
          status = IF FullyPaid(call.amountPaid) THEN "Paid" ELSE "Partial"
    OBVIOUS
  <1>6. /\ installments' = [installments EXCEPT ![i].amountPaid = call.amountPaid,
                                               ![i].status = status]
        /\ taken' = [taken EXCEPT ![i] = @ + call.amount]
        /\ Goto(h, "list") /\ UNCHANGED <<loan, recorded, crashes>>
    BY <1>1, <1>3, <1>5 DEF WriteRepayment
  <1>7. PICK row : row = [installments[i] EXCEPT !.amountPaid = call.amountPaid,
                                                 !.status = status]
    OBVIOUS
  <1>8. /\ row \in Installment
        /\ row.loan = installments[i].loan /\ row.month = installments[i].month
        /\ row.amountPaid = call.amountPaid /\ row.status = status
    <2>1. installments[i] \in Installment
      BY <1>4, InstallmentType DEF LoansInv
    <2>2. QED
      BY <1>4, <1>7, <2>1 DEF Installment
  <1>9. installments' = [installments EXCEPT ![i] = row]
    BY <1>2, <1>4, <1>6, <1>7
  <1>10. /\ installments' \in Seq(Installment)
         /\ DOMAIN installments' = DOMAIN installments
         /\ installments'[i] = row
         /\ \A j \in DOMAIN installments \ {i} : installments'[j] = installments[j]
         /\ \A j \in DOMAIN installments : installments'[j].loan = installments[j].loan
    BY <1>4, <1>8, <1>9, InstallmentWrite
  <1>11. /\ taken' \in Seq(Nat) /\ DOMAIN taken' = DOMAIN installments'
         /\ taken'[i] = taken[i] + call.amount
         /\ \A j \in DOMAIN installments \ {i} : taken'[j] = taken[j]
    <2>1. taken[i] + call.amount \in Nat
      BY <1>4, InstallmentType DEF LoansInv
    <2>2. QED
      BY <1>2, <1>4, <1>6, <1>10, <2>1
  <1>12. RowsKept
    BY <1>6, <1>10 DEF RowsKept
  <1>13. /\ handler' \in [Handlers -> HandlerState]
         /\ handler'[h].step = "list" /\ handler'[h].loan = call.loan
         /\ handler'[h].installment = i /\ handler'[h].amountPaid = call.amountPaid
         /\ \A g \in Handlers \ {h} : handler'[g] = handler[g]
    BY <1>1, <1>2, <1>3, <1>6, OneCall DEF Steps
  <1>14. CallOK(handler[h])'
    BY <1>4, <1>6, <1>10, <1>13 DEF CallOK
  <1>15. \A g \in Handlers : CallOK(handler[g])'
    BY <1>12, <1>13, <1>14, OneCallOK
  <1>16. TypeOK'
    BY <1>6, <1>10, <1>11, <1>13 DEF LoansInv, TypeOK
  <1>17. \A j \in DOMAIN installments' : loan'[installments'[j].loan] # NULL
    BY <1>6, <1>10 DEF LoansInv
  <1>18. RepaidFacts(h)
    BY <1>1, <1>3, <1>4, <1>5, <1>8, <1>10, <1>11, <1>13 DEF RepaidFacts
  <1>19. QED
    BY <1>15, <1>16, <1>17, <1>18 DEF LoansInv

\* Listing the schedule ends the call, or goes on to complete a loan whose
\* installments are all marked paid, the one of this call aside.
LEMMA ListStep ==
    ASSUME LoansInv, NEW h \in Handlers, ListInstallments(h)
    PROVE  /\ LoansInv'
           /\ UNCHANGED <<loan, installments, taken>>
           /\ \/ handler'[h] = Idle
              \/ /\ handler'[h].step = "complete" /\ handler'[h].loan = handler[h].loan
                 /\ \A i \in Of(handler[h].loan) :
                      \/ installments[i].status = "Paid"
                      \/ /\ i = handler[h].installment
                         /\ FullyPaid(handler[h].amountPaid)
  <1>1. PICK call : call = handler[h]
    OBVIOUS
  <1>2. /\ handler \in [Handlers -> HandlerState] /\ CallOK(call) /\ call.step = "list"
        /\ UNCHANGED <<loan, installments, taken, recorded, crashes>>
    BY <1>1 DEF LoansInv, TypeOK, ListInstallments, At
  <1>3. RowsKept
    BY <1>2 DEF RowsKept
  <1>4. /\ handler' \in [Handlers -> HandlerState]
        /\ \A g \in Handlers \ {h} : handler'[g] = handler[g]
        /\ \/ handler'[h] = Idle
           \/ /\ handler'[h].step = "complete" /\ handler'[h].loan = call.loan
              /\ \A i \in Of(call.loan) :
                   \/ installments[i].status = "Paid"
                   \/ i = call.installment /\ FullyPaid(call.amountPaid)
    <2>1. CASE Done(h)
      BY <1>2, <2>1, OneCall
    <2>2. CASE /\ Goto(h, "complete")
               /\ \A i \in Of(call.loan) :
                    \/ installments[i].status = "Paid"
                    \/ i = call.installment /\ FullyPaid(call.amountPaid)
      BY <1>1, <1>2, <2>2, OneCall DEF Steps
    <2>3. QED
      BY <1>1, <2>1, <2>2 DEF ListInstallments
  <1>5. CallOK(Idle)'
    BY DEF CallOK, Idle
  <1>6. CallOK(handler[h])'
    BY <1>2, <1>4, <1>5 DEF CallOK
  <1>7. \A g \in Handlers : CallOK(handler[g])'
    BY <1>3, <1>4, <1>6, OneCallOK
  <1>8. TypeOK'
    BY <1>2, <1>4 DEF LoansInv, TypeOK
  <1>9. QED
    BY <1>1, <1>2, <1>4, <1>7, <1>8 DEF LoansInv

\* A request adds a loan, which has no installment.
LEMMA RequestStep ==
    ASSUME LoansInv, NEW l \in Loans, NEW u \in Users, Request(l, u)
    PROVE  /\ LoansInv'
           /\ loan[l] = NULL /\ Status(l)' = PendingLife
           /\ \A k \in Loans \ {l} : loan'[k] = loan[k]
           /\ \A i \in DOMAIN installments : installments[i].loan # l
  <1>1. PICK row : row = [status |-> PendingLife, requestedBy |-> u,
                          lifeManagerDecision |-> NULL, lifeManagerBy |-> NULL,
                          financeDirectorDecision |-> NULL, financeDirectorBy |-> NULL]
    OBVIOUS
  <1>2. row \in LoanRow /\ row.status = PendingLife
    BY <1>1 DEF LoanRow, LoanStatuses
  <1>3. /\ loan' = [loan EXCEPT ![l] = row] /\ loan[l] = NULL
        /\ UNCHANGED <<installments, taken, handler, recorded, crashes>>
    BY <1>1 DEF Request
  <1>4. /\ loan' \in [Loans -> LoanRow \cup {NULL}]
        /\ loan'[l] = row /\ loan'[l] # NULL
        /\ \A k \in Loans \ {l} : loan'[k] = loan[k]
        /\ \A k \in Loans : loan[k] # NULL => loan'[k] # NULL
    BY <1>2, <1>3, LoanWrite
  <1>5. \A h \in Handlers : CallOK(handler[h])'
    BY <1>3, <1>4 DEF LoansInv, CallOK
  <1>6. \A i \in DOMAIN installments :
          /\ loan'[installments[i].loan] # NULL
          /\ installments[i].loan # l
    <2>1. \A i \in DOMAIN installments :
            installments[i].loan \in Loans /\ loan[installments[i].loan] # NULL
      BY InstallmentType DEF LoansInv
    <2>2. QED
      BY <1>3, <1>4, <2>1
  <1>7. TypeOK'
    BY <1>3, <1>4 DEF LoansInv, TypeOK
  <1>8. QED
    BY <1>2, <1>3, <1>4, <1>5, <1>6, <1>7 DEF LoansInv, Status

\* A restart forgets every call and leaves the tables as they are.
LEMMA CrashStep ==
    ASSUME LoansInv, Crash
    PROVE  LoansInv' /\ \A h \in Handlers : handler'[h] = Idle
  <1>1. Idle \in HandlerState /\ CallOK(Idle)'
    BY DEF Idle, HandlerState, Steps, CallOK
  <1>2. crashes' \in 0 .. MaxCrashes
    BY LoansAssumption DEF Crash, LoansInv, TypeOK, LoansAssumption
  <1>3. QED
    BY <1>1, <1>2 DEF Crash, LoansInv, TypeOK

\* Every step keeps the invariant.
LEMMA LoansInvStep ==
    ASSUME LoansInv, [Next]_vars
    PROVE  LoansInv'
  <1>1. CASE UNCHANGED vars
    <2>1. TypeOK'
      BY <1>1 DEF LoansInv, TypeOK, vars
    <2>2. \A h \in Handlers : CallOK(handler[h])'
      BY <1>1 DEF LoansInv, CallOK, vars
    <2>3. QED
      BY <1>1, <2>1, <2>2 DEF LoansInv, vars
  <1>2. ASSUME NEW h \in Handlers, Continue(h)
        PROVE  LoansInv'
    BY <1>2, LoanRowStep, DisburseStep, RepayStep, ListStep DEF Continue
  <1>3. QED
    BY <1>1, <1>2, CallStep, RequestStep, CrashStep DEF Next

\* Before the first request.
LEMMA LoansInvInit == Init => LoansInv
  <1>1. Idle \in HandlerState /\ CallOK(Idle)
    BY DEF Idle, HandlerState, Steps, CallOK
  <1>2. Init => TypeOK
    BY <1>1, LoansAssumption DEF Init, TypeOK, LoansAssumption
  <1>3. QED
    BY <1>1, <1>2 DEF Init, LoansInv

\* The operations of loans keep the types of the tables, and a call always works
\* on a loan and an installment that are there.
THEOREM LoansTypeCorrect == Spec => []LoansInv
  <1>1. LoansInv /\ [Next]_vars => LoansInv'
    BY LoansInvStep
  <1>2. QED
    BY LoansInvInit, <1>1, PTL DEF Spec
-------------------------------------------------------------------------------
(* Calls that come one after the other.                                     *)

Busy == {h \in Handlers : handler[h].step # "idle"}
OneBusy == \A g, h \in Busy : g = h

\* The row of a loan carries the signatures that its status asks for.
SignedFor(row) ==
    /\ row.status \in {PendingFinance, "Approved", "Disbursed", "Completed"} =>
          /\ row.lifeManagerDecision = "Approved"
          /\ row.lifeManagerBy # row.requestedBy
    /\ row.status \in {"Approved", "Disbursed", "Completed"} =>
          /\ row.financeDirectorDecision = "Approved"
          /\ row.financeDirectorBy # row.requestedBy

\* One installment a month from the disbursement on, none before.
ScheduleComplete ==
    /\ \A i \in DOMAIN installments :
          PaidOut(installments[i].loan) /\ installments[i].month \in 1 .. Tenure
    /\ \A l \in Loans : PaidOut(l) =>
          \A m \in 1 .. Tenure : \E i \in Of(l) : installments[i].month = m
    /\ \A i, j \in DOMAIN installments :
          /\ installments[i].loan = installments[j].loan
          /\ installments[i].month = installments[j].month
          => i = j

\* Totals and marks of the installments, and what they say of a completed loan.
TotalsKept ==
    \A i \in DOMAIN installments :
        /\ installments[i].amountPaid = taken[i]
        /\ installments[i].status = "Paid" => FullyPaid(installments[i].amountPaid)
        /\ Status(installments[i].loan) = "Completed" => FullyPaid(installments[i].amountPaid)

\* What a call has read or computed is still so.
Current(c) ==
    /\ c.step = "life" => Status(c.loan) = PendingLife
    /\ c.step = "finance" => Status(c.loan) = PendingFinance
    /\ c.step \in {"life", "finance"} => loan[c.loan].requestedBy # c.user
    /\ c.step = "disburse" => Status(c.loan) = "Approved"
    /\ c.step = "repay" => c.amountPaid = installments[c.installment].amountPaid + c.amount
    /\ c.step = "list" => c.amountPaid = installments[c.installment].amountPaid
    /\ c.step = "complete" => PaidOut(c.loan)
                              /\ \A i \in Of(c.loan) : FullyPaid(installments[i].amountPaid)

OrderFacts ==
    /\ \A l \in Loans : loan[l] # NULL => SignedFor(loan[l])
    /\ ScheduleComplete
    /\ TotalsKept
    /\ \A h \in Handlers : Current(handler[h])
OrderInv == IsFiniteSet(Busy) /\ (alone => OneBusy /\ OrderFacts)

\* A finite set of cardinality one at most has no two elements.
LEMMA AtMostOne ==
    ASSUME NEW S, IsFiniteSet(S), Cardinality(S) <= 1, NEW a \in S, NEW b \in S
    PROVE  a = b
  <1>1. SUFFICES ASSUME a # b PROVE FALSE
    OBVIOUS
  <1>2. PICK T : T = {b}
    OBVIOUS
  <1>3. IsFiniteSet(T) /\ Cardinality(T) = 1 /\ a \notin T
    BY <1>1, <1>2, FS_Singleton
  <1>4. Cardinality(T \cup {a}) = Cardinality(T) + 1
    BY <1>3, FS_AddElement
  <1>5. T \cup {a} \in SUBSET S
    BY <1>2
  <1>6. Cardinality(T \cup {a}) <= Cardinality(S)
    BY <1>5, FS_Subset
  <1>7. QED
    BY <1>3, <1>4, <1>6, FS_CardinalityType

\* A call moves alone.
LEMMA OthersStay ==
    ASSUME LoansInv, NEW h \in Handlers, Call(h) \/ Continue(h)
    PROVE  /\ DOMAIN handler' = Handlers
           /\ \A g \in Handlers \ {h} : handler'[g] = handler[g]
  <1> DEFINE Moves == /\ DOMAIN handler' = Handlers
                      /\ \A g \in Handlers \ {h} : handler'[g] = handler[g]
  <1>1. handler \in [Handlers -> HandlerState]
    BY DEF LoansInv, TypeOK
  <1>2. ASSUME NEW c, Begin(h, c)
        PROVE  Moves
    BY <1>1, <1>2 DEF Begin
  <1>3. ASSUME NEW step, Goto(h, step)
        PROVE  Moves
    BY <1>1, <1>3 DEF Goto
  <1>4. Done(h) => Moves
    BY <1>1 DEF Done
  <1>5. Call(h) => Moves
    <2> HIDE DEF Moves
    <2>1. QED
      BY <1>2 DEF Call, LifeManagerDecide, FinanceDirectorDecide, ReadDecision, Disburse,
         RecordRepayment
  <1>6. Continue(h) => Moves
    <2> HIDE DEF Moves
    <2>1. QED
      BY <1>3, <1>4 DEF Continue, WriteLifeManager, WriteFinanceDirector, WriteDisbursed,
         WriteRepayment, ListInstallments, MarkCompleted
  <1>7. QED
    BY <1>5, <1>6

\* Only finitely many calls are ever at work.
LEMMA BusyFinite ==
    ASSUME LoansInv, IsFiniteSet(Busy), [Next]_vars
    PROVE  IsFiniteSet(Busy)'
  <1>1. CASE Crash
    <2>1. Busy' = {}
      BY <1>1 DEF Crash, Busy, Idle
    <2>2. QED
      BY <2>1, FS_EmptySet
  <1>2. ASSUME NEW h \in Handlers, Call(h) \/ Continue(h)
        PROVE  IsFiniteSet(Busy)'
    <2>1. Busy' \subseteq Busy \cup {h}
      BY <1>2, OthersStay DEF Busy
    <2>2. IsFiniteSet(Busy \cup {h})
      BY FS_AddElement
    <2>3. QED
      BY <2>1, <2>2, FS_Subset
  <1>3. CASE UNCHANGED handler
    BY <1>3 DEF Busy
  <1>4. QED
    BY <1>1, <1>2, <1>3 DEF Next, Request, vars

\* While calls come one after the other, the call that moves is the only one.
LEMMA OthersIdle ==
    ASSUME LoansInv, IsFiniteSet(Busy), OneBusy, Cardinality(Busy') <= 1,
           NEW h \in Handlers, Call(h) \/ Continue(h)
    PROVE  /\ OneBusy'
           /\ \A g \in Handlers \ {h} : handler'[g] = handler[g] /\ handler[g].step = "idle"
  <1>1. handler \in [Handlers -> HandlerState]
    BY DEF LoansInv, TypeOK
  <1>2. /\ DOMAIN handler' = Handlers
        /\ \A g \in Handlers \ {h} : handler'[g] = handler[g]
    BY OthersStay
  <1>3. IsFiniteSet(Busy)'
    BY BusyFinite DEF Next
  <1>4. OneBusy'
    BY <1>3, AtMostOne DEF OneBusy
  <1>5. CASE Continue(h)
    <2>1. h \in Busy
      BY <1>5 DEF Busy, Continue, WriteLifeManager, WriteFinanceDirector, WriteDisbursed,
         WriteRepayment, ListInstallments, MarkCompleted, At
    <2>2. QED
      BY <1>2, <1>4, <2>1 DEF OneBusy, Busy
  <1>6. CASE Call(h)
    <2>1. handler'[h].step # "idle"
      <3>1. ASSUME NEW c, Begin(h, c)
            PROVE  handler'[h] = c
        BY <1>1, <3>1 DEF Begin
      <3>2. ASSUME NEW l, NEW u, NEW decision,
                   LifeManagerDecide(h, l, u, decision) \/ FinanceDirectorDecide(h, l, u, decision)
            PROVE  handler'[h].step # "idle"
        BY <3>1, <3>2 DEF LifeManagerDecide, FinanceDirectorDecide, ReadDecision, Idle
      <3>3. ASSUME NEW l, Disburse(h, l)
            PROVE  handler'[h].step # "idle"
        BY <3>1, <3>3 DEF Disburse, Idle
      <3>4. ASSUME NEW i, NEW amount, RecordRepayment(h, i, amount)
            PROVE  handler'[h].step # "idle"
        BY <3>1, <3>4 DEF RecordRepayment, Idle
      <3>5. QED
        BY <1>6, <3>2, <3>3, <3>4 DEF Call
    <2>2. h \in Busy'
      BY <2>1 DEF Busy
    <2>3. QED
      BY <1>2, <1>4, <2>2 DEF OneBusy, Busy
  <1>7. QED
    BY <1>4, <1>5, <1>6

\* If what the only call at work holds is still so, that is so of all.
LEMMA OneCaller ==
    ASSUME \A h \in Handlers : Current(handler[h]), NEW h \in Handlers,
           \A g \in Handlers \ {h} : handler'[g] = handler[g] /\ handler[g].step = "idle",
           NEW c, handler'[h] = c, Current(c)'
    PROVE  \A g \in Handlers : Current(handler[g])'
  <1>1. ASSUME NEW d, d.step = "idle"
        PROVE  Current(d)'
    BY <1>1 DEF Current
  <1>2. ASSUME NEW g \in Handlers \ {h}
        PROVE  Current(handler[g])'
    BY <1>1, <1>2
  <1>3. QED
    BY <1>2

\* A step that leaves the tables alone leaves alone what is said of them.
LEMMA SameTables ==
    ASSUME OrderFacts, UNCHANGED <<loan, installments, taken>>
    PROVE  /\ \A l \in Loans : loan'[l] # NULL => SignedFor(loan'[l])
           /\ ScheduleComplete'
           /\ TotalsKept'
  BY DEF OrderFacts, ScheduleComplete, PaidOut, Status, Of, TotalsKept

\* A call that begins has just read what it holds.
LEMMA CallInOrder ==
    ASSUME LoansInv, OrderFacts, NEW h \in Handlers, Call(h),
           \A g \in Handlers \ {h} : handler'[g] = handler[g] /\ handler[g].step = "idle"
    PROVE  OrderFacts'
  <1>1. handler \in [Handlers -> HandlerState]
    BY DEF LoansInv, TypeOK
  <1>2. PICK c : c = handler'[h]
    OBVIOUS
  <1>3. ASSUME NEW call, Begin(h, call)
        PROVE  c = call
    BY <1>1, <1>2, <1>3 DEF Begin
  <1>4. UNCHANGED <<loan, installments, taken>>
    BY DEF Call, LifeManagerDecide, FinanceDirectorDecide, ReadDecision, Disburse,
       RecordRepayment
  <1>5. ASSUME NEW l \in Loans, NEW u, NEW decision, NEW step, NEW awaited,
               <<step, awaited>> \in {<<"life", PendingLife>>, <<"finance", PendingFinance>>},
               ReadDecision(h, l, u, decision, step, awaited)
        PROVE  Current(c)
    <2>1. c = [Idle EXCEPT !.step = step, !.loan = l, !.user = u, !.decision = decision]
      BY <1>3, <1>5 DEF ReadDecision
    <2>2. c.step = step /\ c.loan = l /\ c.user = u
      BY <2>1 DEF Idle
    <2>3. Status(l) = awaited /\ loan[l].requestedBy # u
      BY <1>5 DEF ReadDecision
    <2>4. \/ step = "life" /\ awaited = PendingLife
          \/ step = "finance" /\ awaited = PendingFinance
      BY <1>5
    <2>5. QED
      BY <2>2, <2>3, <2>4 DEF Current
  <1>6. ASSUME NEW l \in Loans, Disburse(h, l)
        PROVE  Current(c)
    <2>1. c = [Idle EXCEPT !.step = "disburse", !.loan = l]
      BY <1>3, <1>6 DEF Disburse
    <2>2. c.step = "disburse" /\ c.loan = l
      BY <2>1 DEF Idle
    <2>3. QED
      BY <1>6, <2>2 DEF Current, Disburse
  <1>7. ASSUME NEW i \in DOMAIN installments, NEW amount, RecordRepayment(h, i, amount)
        PROVE  Current(c)
    <2>1. PICK total : total = installments[i].amountPaid + amount
      OBVIOUS
    <2>2. c = [Idle EXCEPT !.step = "repay", !.loan = installments[i].loan,
                 !.installment = i, !.amount = amount, !.amountPaid = total]
      BY <1>3, <1>7, <2>1 DEF RecordRepayment
    <2>3. c.step = "repay" /\ c.installment = i /\ c.amount = amount /\ c.amountPaid = total
      BY <2>2 DEF Idle
    <2>4. QED
      BY <2>1, <2>3 DEF Current
  <1>8. Current(c)
    BY <1>5, <1>6, <1>7 DEF Call, LifeManagerDecide, FinanceDirectorDecide
  <1>9. Current(c)'
    BY <1>4, <1>8 DEF Current, Status, PaidOut, Of
  <1>10. QED
    BY <1>2, <1>4, <1>9, OneCaller, SameTables DEF OrderFacts

\* A write to a loan that is signed for, paid out as before, and completed only with
\* all installments paid.
LEMMA RowInOrder ==
    ASSUME LoansInv, OrderFacts, NEW l \in Loans, loan[l] # NULL, NEW row \in LoanRow,
           loan' = [loan EXCEPT ![l] = row], UNCHANGED <<installments, taken>>,
           SignedFor(row), row.status \in {"Disbursed", "Completed"} <=> PaidOut(l),
           row.status = "Completed" =>
               \A i \in Of(l) : FullyPaid(installments[i].amountPaid)
    PROVE  /\ \A k \in Loans : loan'[k] # NULL => SignedFor(loan'[k])
           /\ ScheduleComplete'
           /\ TotalsKept'
  <1>1. /\ loan'[l] = row /\ row # NULL
        /\ \A k \in Loans \ {l} : loan'[k] = loan[k]
    BY LoanWrite
  <1>2. Status(l)' = row.status /\ \A k \in Loans \ {l} : Status(k)' = Status(k)
    BY <1>1 DEF Status
  <1>3. \A k \in Loans : PaidOut(k)' = PaidOut(k)
    BY <1>2 DEF PaidOut
  <1>4. \A i \in DOMAIN installments : installments[i].loan \in Loans
    BY InstallmentType DEF LoansInv
  <1>5. ScheduleComplete'
    BY <1>3, <1>4 DEF OrderFacts, ScheduleComplete, Of
  <1>6. TotalsKept'
    BY <1>2, <1>4 DEF OrderFacts, TotalsKept, Of
  <1>7. QED
    BY <1>1, <1>5, <1>6 DEF OrderFacts

\* A decision gives the loan the signature its next status asks for; only a loan
\* with all installments paid is completed.
LEMMA LoanRowInOrder ==
    ASSUME LoansInv, OrderFacts, NEW h \in Handlers,
           WriteLifeManager(h) \/ WriteFinanceDirector(h) \/ MarkCompleted(h),
           \A g \in Handlers \ {h} : handler'[g] = handler[g] /\ handler[g].step = "idle"
    PROVE  OrderFacts'
  <1>1. PICK call : call = handler[h]
    OBVIOUS
  <1>2. PICK l : l = call.loan
    OBVIOUS
  <1>3. /\ handler \in [Handlers -> HandlerState]
        /\ loan \in [Loans -> LoanRow \cup {NULL}]
        /\ CallOK(call) /\ Current(call)
    BY <1>1 DEF LoansInv, TypeOK, OrderFacts
  <1>4. /\ l \in Loans /\ loan[l] \in LoanRow /\ loan[l] # NULL /\ SignedFor(loan[l])
        /\ UNCHANGED <<installments, taken>> /\ Done(h)
    BY <1>1, <1>2, <1>3
    DEF WriteLifeManager, WriteFinanceDirector, MarkCompleted, At, CallOK, OrderFacts
  <1>5. PICK old \in LoanRow : old = loan[l]
    BY <1>4
  <1>6. Status(l) = old.status
    BY <1>4, <1>5 DEF Status
  <1>7. \E row \in LoanRow :
          /\ loan' = [loan EXCEPT ![l] = row] /\ SignedFor(row)
          /\ row.status \in {"Disbursed", "Completed"} <=> PaidOut(l)
          /\ row.status = "Completed" =>
               \A i \in Of(l) : FullyPaid(installments[i].amountPaid)
    <2>1. CASE WriteLifeManager(h)
      <3>1. PICK status : status = IF call.decision = "Approved" THEN PendingFinance
                                                                 ELSE "Rejected"
        OBVIOUS
      <3>2. PICK row : row = [old EXCEPT !.lifeManagerDecision = call.decision,
                                         !.lifeManagerBy = call.user, !.status = status]
        OBVIOUS
      <3>3. /\ call.step = "life" /\ call.decision \in Decisions /\ call.user \in Users
            /\ old.status = PendingLife /\ old.requestedBy # call.user
        BY <1>1, <1>2, <1>3, <1>5, <1>6, <2>1 DEF WriteLifeManager, At, CallOK, Current
      <3>4. status \in {PendingFinance, "Rejected"}
        BY <3>1
      <3>5. /\ row \in LoanRow /\ row.status = status /\ row.requestedBy = old.requestedBy
            /\ row.lifeManagerDecision = call.decision /\ row.lifeManagerBy = call.user
        BY <3>2, <3>3, <3>4 DEF LoanRow, LoanStatuses
      <3>6. loan' = [loan EXCEPT ![l] = row]
        BY <1>1, <1>2, <1>3, <1>4, <1>5, <2>1, <3>1, <3>2 DEF WriteLifeManager
      <3>7. SignedFor(row)
        BY <3>1, <3>3, <3>5 DEF SignedFor, PendingFinance
      <3>8. QED
        BY <1>6, <3>3, <3>4, <3>5, <3>6, <3>7 DEF PaidOut, PendingFinance, PendingLife
    <2>2. CASE WriteFinanceDirector(h)
      <3>1. PICK row : row = [old EXCEPT !.financeDirectorDecision = call.decision,
                                         !.financeDirectorBy = call.user,
                                         !.status = call.decision]
        OBVIOUS
      <3>2. /\ call.step = "finance" /\ call.decision \in Decisions /\ call.user \in Users
            /\ old.status = PendingFinance /\ old.requestedBy # call.user
        BY <1>1, <1>2, <1>3, <1>5, <1>6, <2>2 DEF WriteFinanceDirector, At, CallOK, Current
      <3>3. /\ row \in LoanRow /\ row.status = call.decision
            /\ row.requestedBy = old.requestedBy
            /\ row.lifeManagerDecision = old.lifeManagerDecision
            /\ row.lifeManagerBy = old.lifeManagerBy
            /\ row.financeDirectorDecision = call.decision
            /\ row.financeDirectorBy = call.user
        BY <3>1, <3>2 DEF LoanRow, LoanStatuses, Decisions
      <3>4. loan' = [loan EXCEPT ![l] = row]
        BY <1>1, <1>2, <1>3, <1>4, <1>5, <2>2, <3>1 DEF WriteFinanceDirector
      <3>5. SignedFor(row)
        BY <1>4, <1>5, <3>2, <3>3 DEF SignedFor, PendingFinance, Decisions
      <3>6. QED
        BY <1>6, <3>2, <3>3, <3>4, <3>5 DEF PaidOut, PendingFinance, Decisions
    <2>3. CASE MarkCompleted(h)
      <3>1. PICK row : row = [old EXCEPT !.status = "Completed"]
        OBVIOUS
      <3>2. /\ call.step = "complete" /\ PaidOut(l)
            /\ \A i \in Of(l) : FullyPaid(installments[i].amountPaid)
        BY <1>1, <1>2, <1>3, <2>3 DEF MarkCompleted, At, Current
      <3>3. /\ row \in LoanRow /\ row.status = "Completed"
            /\ row.requestedBy = old.requestedBy
            /\ row.lifeManagerDecision = old.lifeManagerDecision
            /\ row.lifeManagerBy = old.lifeManagerBy
            /\ row.financeDirectorDecision = old.financeDirectorDecision
            /\ row.financeDirectorBy = old.financeDirectorBy
        BY <3>1 DEF LoanRow, LoanStatuses
      <3>4. loan' = [loan EXCEPT ![l] = row]
        BY <1>1, <1>2, <1>5, <2>3, <3>1 DEF MarkCompleted
      <3>5. SignedFor(row)
        BY <1>4, <1>5, <1>6, <3>2, <3>3 DEF SignedFor, PaidOut
      <3>6. QED
        BY <3>2, <3>3, <3>4, <3>5
    <2>4. QED
      BY <2>1, <2>2, <2>3
  <1>8. handler'[h] = Idle
    BY <1>3, <1>4, OneCall
  <1>9. Current(Idle)'
    BY DEF Current, Idle
  <1>10. QED
    BY <1>4, <1>7, <1>8, <1>9, RowInOrder, OneCaller DEF OrderFacts

\* A disbursement gives an approved loan, which has no installment yet, one a month.
LEMMA DisburseInOrder ==
    ASSUME LoansInv, OrderFacts, NEW h \in Handlers, WriteDisbursed(h),
           \A g \in Handlers \ {h} : handler'[g] = handler[g] /\ handler[g].step = "idle"
    PROVE  OrderFacts'
  <1>1. PICK l : l = handler[h].loan
    OBVIOUS
  <1>2. PICK n \in Nat : n = Len(installments)
    BY DisburseStep DEF DisbursedFacts
  <1>3. DisbursedFacts(h) /\ Current(handler[h]) /\ handler[h].step = "disburse"
    BY DisburseStep DEF OrderFacts, WriteDisbursed, At
  <1>4. /\ l \in Loans /\ loan[l] \in LoanRow /\ loan[l] # NULL
        /\ loan'[l] = [loan[l] EXCEPT !.status = "Disbursed"]
        /\ \A k \in Loans \ {l} : loan'[k] = loan[k]
        /\ DOMAIN installments = 1 .. n
        /\ DOMAIN installments' = 1 .. n + Tenure
        /\ Tenure \in Nat
        /\ \A i \in 1 .. n : installments'[i] = installments[i] /\ taken'[i] = taken[i]
        /\ handler'[h] = Idle
        /\ Status(l) = "Approved"
    <2>1. Status(l) = "Approved"
      BY <1>1, <1>3 DEF Current
    <2>2. loan[l] # NULL
      BY <2>1, LoansAssumption DEF Status, LoansAssumption, LoanStatuses
    <2>3. QED
      BY <1>1, <1>2, <1>3, <2>1, <2>2 DEF DisbursedFacts
  <1>5. \A m \in 1 .. Tenure :
          /\ installments'[n + m].loan = l /\ installments'[n + m].month = m
          /\ installments'[n + m].amountPaid = 0 /\ installments'[n + m].status = "Due"
          /\ taken'[n + m] = 0
    <2>1. ASSUME NEW m \in 1 .. Tenure
          PROVE  /\ installments'[n + m].loan = l /\ installments'[n + m].month = m
                 /\ installments'[n + m].amountPaid = 0 /\ installments'[n + m].status = "Due"
                 /\ taken'[n + m] = 0
      <3>1. PICK due : due = [loan |-> l, month |-> m, amountPaid |-> 0, status |-> "Due"]
        OBVIOUS
      <3>2. due.loan = l /\ due.month = m /\ due.amountPaid = 0 /\ due.status = "Due"
        BY <3>1
      <3>3. installments'[n + m] = due /\ taken'[n + m] = 0
        BY <1>1, <1>2, <1>3, <3>1 DEF DisbursedFacts
      <3>4. QED
        BY <3>2, <3>3
    <2>2. QED
      BY <2>1
  <1>6. \A i \in 1 .. n + Tenure : i \in 1 .. n \/ \E m \in 1 .. Tenure : i = n + m
    <2>1. ASSUME NEW i \in 1 .. n + Tenure, i \notin 1 .. n
          PROVE  i - n \in 1 .. Tenure /\ i = n + (i - n)
      BY <1>4, <2>1
    <2>2. QED
      BY <2>1
  <1>7. PICK old \in LoanRow : old = loan[l]
    BY <1>4
  <1>8. PICK row : row = [old EXCEPT !.status = "Disbursed"]
    OBVIOUS
  <1>9. /\ row \in LoanRow /\ row.status = "Disbursed"
        /\ row.requestedBy = old.requestedBy
        /\ row.lifeManagerDecision = old.lifeManagerDecision
        /\ row.lifeManagerBy = old.lifeManagerBy
        /\ row.financeDirectorDecision = old.financeDirectorDecision
        /\ row.financeDirectorBy = old.financeDirectorBy
    BY <1>8 DEF LoanRow, LoanStatuses
  <1>10. row # NULL /\ loan'[l] = row /\ old.status = "Approved" /\ SignedFor(old)
    BY <1>4, <1>7, <1>8, <1>9, LoansAssumption
    DEF Status, OrderFacts, LoansAssumption
  <1>11. SignedFor(row)
    BY <1>9, <1>10 DEF SignedFor
  <1>12. /\ Status(l)' = "Disbursed" /\ \A k \in Loans \ {l} : Status(k)' = Status(k)
    BY <1>4, <1>9, <1>10 DEF Status
  <1>13. PaidOut(l)' /\ ~PaidOut(l) /\ \A k \in Loans \ {l} : PaidOut(k)' = PaidOut(k)
    BY <1>4, <1>12 DEF PaidOut
  <1>14. \A i \in 1 .. n : /\ installments[i].loan \in Loans \ {l}
                           /\ PaidOut(installments[i].loan)
                           /\ installments[i].month \in 1 .. Tenure
    BY <1>4, <1>13, InstallmentType DEF LoansInv, OrderFacts, ScheduleComplete
  <1>15. ScheduleComplete'
    <2>1. \A i \in DOMAIN installments' :
            PaidOut(installments[i].loan)' /\ installments'[i].month \in 1 .. Tenure
      BY <1>4, <1>5, <1>6, <1>13, <1>14
    <2>2. ASSUME NEW k \in Loans, PaidOut(k)', NEW m \in 1 .. Tenure
          PROVE  \E i \in DOMAIN installments' :
                   installments'[i].loan = k /\ installments'[i].month = m
      <3>1. CASE k = l
        <4>1. n + m \in DOMAIN installments'
          BY <1>4
        <4>2. QED
          BY <1>5, <3>1, <4>1
      <3>2. CASE k # l
        <4>1. PICK i \in DOMAIN installments :
                installments[i].loan = k /\ installments[i].month = m
          BY <1>13, <2>2, <3>2 DEF OrderFacts, ScheduleComplete, Of
        <4>2. i \in DOMAIN installments' /\ installments'[i] = installments[i]
          BY <1>4
        <4>3. QED
          BY <4>1, <4>2
      <3>3. QED
        BY <3>1, <3>2
    <2>3. ASSUME NEW i \in DOMAIN installments', NEW j \in DOMAIN installments',
                 installments'[i].loan = installments'[j].loan,
                 installments'[i].month = installments'[j].month
          PROVE  i = j
      <3>1. CASE i \in 1 .. n /\ j \in 1 .. n
        BY <1>4, <2>3, <3>1 DEF OrderFacts, ScheduleComplete
      <3>2. CASE \E m \in 1 .. Tenure : i = n + m
        <4>1. installments'[i].loan = l
          BY <1>5, <3>2
        <4>2. j \notin 1 .. n
          BY <1>4, <1>14, <2>3, <4>1
        <4>3. \E k \in 1 .. Tenure : j = n + k
          BY <1>4, <1>6, <4>2
        <4>4. QED
          BY <1>5, <2>3, <3>2, <4>3
      <3>3. CASE \E m \in 1 .. Tenure : j = n + m
        <4>1. installments'[j].loan = l
          BY <1>5, <3>3
        <4>2. i \notin 1 .. n
          BY <1>4, <1>14, <2>3, <4>1
        <4>3. \E k \in 1 .. Tenure : i = n + k
          BY <1>4, <1>6, <4>2
        <4>4. QED
          BY <1>5, <2>3, <3>3, <4>3
      <3>4. QED
        BY <1>4, <1>6, <3>1, <3>2, <3>3
    <2>4. QED
      BY <2>1, <2>2, <2>3 DEF ScheduleComplete, Of
  <1>16. TotalsKept'
    <2>1. ASSUME NEW i \in 1 .. n
          PROVE  /\ installments'[i].amountPaid = taken'[i]
                 /\ installments'[i].status = "Paid" =>
                      FullyPaid(installments'[i].amountPaid)
                 /\ Status(installments[i].loan)' = "Completed" =>
                      FullyPaid(installments'[i].amountPaid)
      BY <1>4, <1>12, <1>14 DEF OrderFacts, TotalsKept
    <2>2. ASSUME NEW m \in 1 .. Tenure
          PROVE  /\ installments'[n + m].amountPaid = taken'[n + m]
                 /\ installments'[n + m].status # "Paid"
                 /\ Status(installments[n + m].loan)' # "Completed"
      BY <1>5, <1>12
    <2>3. QED
      BY <1>4, <1>6, <2>1, <2>2 DEF TotalsKept
  <1>17. \A k \in Loans : loan'[k] # NULL => SignedFor(loan'[k])
    BY <1>4, <1>10, <1>11 DEF OrderFacts
  <1>18. Current(Idle)'
    BY DEF Current, Idle
  <1>19. \A g \in Handlers : Current(handler[g])'
    BY <1>4, <1>18, OneCaller DEF OrderFacts
  <1>20. QED
    BY <1>15, <1>16, <1>17, <1>19 DEF OrderFacts
\* A repayment adds to a total that nobody has changed since it was read.
LEMMA RepayInOrder ==
    ASSUME LoansInv, OrderFacts, NEW h \in Handlers, WriteRepayment(h),
           \A g \in Handlers \ {h} : handler'[g] = handler[g] /\ handler[g].step = "idle"
    PROVE  OrderFacts'
  <1>1. PICK i : i = handler[h].installment
    OBVIOUS
  <1>2. PICK amount \in Nat : amount = handler[h].amount
    BY RepayStep DEF RepaidFacts
  <1>3. PICK total \in Nat : total = handler[h].amountPaid
    BY RepayStep DEF RepaidFacts
  <1>4. /\ RepaidFacts(h) /\ UNCHANGED loan
        /\ handler[h].step = "repay" /\ Current(handler[h])
    BY RepayStep DEF WriteRepayment, At, OrderFacts
  <1>5. /\ i \in DOMAIN installments
        /\ DOMAIN installments' = DOMAIN installments
        /\ \A j \in DOMAIN installments \ {i} :
             installments'[j] = installments[j] /\ taken'[j] = taken[j]
        /\ installments'[i].loan = installments[i].loan
        /\ installments'[i].month = installments[i].month
        /\ installments'[i].amountPaid = total
        /\ installments'[i].status = IF FullyPaid(total) THEN "Paid" ELSE "Partial"
        /\ taken'[i] = taken[i] + amount
        /\ handler'[h].step = "list"
        /\ handler'[h].installment = i
        /\ handler'[h].amountPaid = total
    BY <1>1, <1>2, <1>3, <1>4 DEF RepaidFacts
  <1>6. total = installments[i].amountPaid + amount
    BY <1>1, <1>2, <1>3, <1>4 DEF Current
  <1>7. /\ installments[i].amountPaid \in Nat /\ installments[i].amountPaid = taken[i]
        /\ AmountDue \in Nat
    BY <1>5, InstallmentType, LoansAssumption
    DEF LoansInv, OrderFacts, TotalsKept, LoansAssumption
  <1>8. \A j \in DOMAIN installments :
          installments'[j].loan = installments[j].loan
          /\ installments'[j].month = installments[j].month
    BY <1>5
  <1>9. \A l : Status(l)' = Status(l) /\ PaidOut(l)' = PaidOut(l)
    BY <1>4 DEF Status, PaidOut
  <1>10. ScheduleComplete'
    BY <1>5, <1>8, <1>9 DEF OrderFacts, ScheduleComplete, Of
  <1>11. TotalsKept'
    <2>1. total = taken'[i]
      BY <1>5, <1>6, <1>7
    <2>2. FullyPaid(installments[i].amountPaid) => FullyPaid(total)
      BY <1>2, <1>6, <1>7 DEF FullyPaid
    <2>3. /\ installments'[i].amountPaid = taken'[i]
          /\ installments'[i].status = "Paid" => FullyPaid(installments'[i].amountPaid)
          /\ Status(installments[i].loan) = "Completed" => FullyPaid(installments'[i].amountPaid)
      BY <1>5, <2>1, <2>2 DEF OrderFacts, TotalsKept
    <2>4. QED
      BY <1>5, <1>8, <1>9, <2>3 DEF OrderFacts, TotalsKept
  <1>12. \A l \in Loans : loan'[l] # NULL => SignedFor(loan'[l])
    BY <1>4 DEF OrderFacts
  <1>13. PICK c : c = handler'[h]
    OBVIOUS
  <1>14. Current(c)'
    BY <1>5, <1>13 DEF Current
  <1>15. \A g \in Handlers : Current(handler[g])'
    BY <1>13, <1>14, OneCaller DEF OrderFacts
  <1>16. QED
    BY <1>10, <1>11, <1>12, <1>15 DEF OrderFacts

\* The list a call completes the loan by is the list there is.
LEMMA ListInOrder ==
    ASSUME LoansInv, OrderFacts, NEW h \in Handlers, ListInstallments(h),
           \A g \in Handlers \ {h} : handler'[g] = handler[g] /\ handler[g].step = "idle"
    PROVE  OrderFacts'
  <1>1. PICK call : call = handler[h]
    OBVIOUS
  <1>2. /\ call.step = "list" /\ CallOK(call) /\ Current(call)
        /\ UNCHANGED <<loan, installments, taken>>
    BY <1>1, ListStep DEF ListInstallments, At, LoansInv, OrderFacts
  <1>3. PICK c : c = handler'[h]
    OBVIOUS
  <1>4. Current(c)
    <2>1. CASE c = Idle
      BY <2>1 DEF Current, Idle
    <2>2. CASE /\ c.step = "complete" /\ c.loan = call.loan
               /\ \A i \in Of(call.loan) :
                    \/ installments[i].status = "Paid"
                    \/ i = call.installment /\ FullyPaid(call.amountPaid)
      <3>1. /\ call.installment \in DOMAIN installments
            /\ installments[call.installment].loan = call.loan
            /\ call.amountPaid = installments[call.installment].amountPaid
        BY <1>2 DEF CallOK, Current
      <3>2. PaidOut(call.loan)
        BY <3>1 DEF OrderFacts, ScheduleComplete
      <3>3. \A i \in Of(call.loan) : FullyPaid(installments[i].amountPaid)
        BY <2>2, <3>1 DEF OrderFacts, TotalsKept, Of
      <3>4. QED
        BY <2>2, <3>2, <3>3 DEF Current
    <2>3. QED
      BY <1>1, <1>3, <2>1, <2>2, ListStep
  <1>5. Current(c)'
    BY <1>2, <1>4 DEF Current, Status, PaidOut, Of
  <1>6. QED
    BY <1>2, <1>3, <1>5, OneCaller, SameTables DEF OrderFacts

\* A request has no signature, and needs none yet.
LEMMA RequestInOrder ==
    ASSUME LoansInv, OrderFacts, NEW l \in Loans, NEW u \in Users, Request(l, u)
    PROVE  OrderFacts'
  <1>1. /\ loan[l] = NULL /\ Status(l)' = PendingLife
        /\ \A k \in Loans \ {l} : loan'[k] = loan[k]
        /\ \A i \in DOMAIN installments : installments[i].loan # l
        /\ LoansInv'
        /\ UNCHANGED <<installments, taken, handler>>
    BY RequestStep DEF Request
  <1>2. \A k \in Loans \ {l} : Status(k)' = Status(k) /\ PaidOut(k)' = PaidOut(k)
    BY <1>1 DEF Status, PaidOut
  <1>3. ~PaidOut(l) /\ ~PaidOut(l)'
    <2>1. Status(l) = NULL
      BY <1>1 DEF Status
    <2>2. QED
      BY <1>1, <2>1, LoansAssumption DEF PaidOut, PendingLife, LoansAssumption, LoanStatuses
  <1>4. \A i \in DOMAIN installments : installments[i].loan \in Loans \ {l}
    BY <1>1, InstallmentType DEF LoansInv
  <1>5. ScheduleComplete'
    BY <1>1, <1>2, <1>3, <1>4 DEF OrderFacts, ScheduleComplete, Of
  <1>6. TotalsKept'
    BY <1>1, <1>2, <1>4 DEF OrderFacts, TotalsKept
  <1>7. ASSUME NEW k \in Loans, loan'[k] # NULL
        PROVE  SignedFor(loan'[k])
    <2>1. CASE k # l
      BY <1>1, <1>7, <2>1 DEF OrderFacts
    <2>2. CASE k = l
      <3>1. loan'[l].status = PendingLife
        BY <1>1, <1>7, <2>2 DEF Status
      <3>2. QED
        BY <2>2, <3>1 DEF SignedFor, PendingLife, PendingFinance
    <2>3. QED
      BY <2>1, <2>2
  <1>8. ASSUME NEW h \in Handlers
        PROVE  Current(handler[h])'
    <2>1. PICK c : c = handler[h]
      OBVIOUS
    <2>2. Current(c) /\ (c.step # "idle" => c.loan \in Loans \ {l})
      BY <1>1, <2>1 DEF LoansInv, CallOK, OrderFacts
    <2>3. Current(c)'
      BY <1>1, <1>2, <2>2 DEF Current, Of
    <2>4. QED
      BY <1>1, <2>1, <2>3
  <1>9. QED
    BY <1>5, <1>6, <1>7, <1>8 DEF OrderFacts

\* Every step keeps order, as long as calls come one after the other.
LEMMA OrderStep ==
    ASSUME LoansInv, OrderInv, [MCNext]_<<vars, alone>>
    PROVE  OrderInv'
  <1>1. [Next]_vars
    BY DEF MCNext, vars
  <1>2. IsFiniteSet(Busy)'
    BY <1>1, BusyFinite DEF OrderInv
  <1>3. CASE UNCHANGED <<vars, alone>>
    BY <1>3 DEF OrderInv, OneBusy, Busy, OrderFacts, ScheduleComplete, TotalsKept, Current,
       Status, PaidOut, Of, vars
  <1>4. CASE MCNext /\ ~alone'
    BY <1>2, <1>4 DEF OrderInv
  <1>5. CASE MCNext /\ alone'
    <2>1. /\ Next
          /\ alone /\ OneBusy /\ OrderFacts /\ IsFiniteSet(Busy)
          /\ Cardinality(Busy') <= 1
      BY <1>5 DEF MCNext, OrderInv, Busy
    <2>2. CASE Crash
      <3>1. UNCHANGED <<loan, installments, taken>> /\ \A h \in Handlers : handler'[h] = Idle
        BY <2>2, CrashStep DEF Crash
      <3>2. OneBusy'
        BY <3>1 DEF OneBusy, Busy, Idle
      <3>3. Current(Idle)'
        BY DEF Current, Idle
      <3>4. \A h \in Handlers : Current(handler[h])'
        BY <3>1, <3>3
      <3>5. QED
        BY <1>2, <2>1, <3>1, <3>2, <3>4, SameTables DEF OrderInv, OrderFacts
    <2>3. ASSUME NEW h \in Handlers, Call(h) \/ Continue(h)
          PROVE  OrderInv'
      <3>1. /\ OneBusy'
            /\ \A g \in Handlers \ {h} : handler'[g] = handler[g] /\ handler[g].step = "idle"
        BY <2>1, <2>3, OthersIdle
      <3>2. OrderFacts'
        BY <2>1, <2>3, <3>1, CallInOrder, LoanRowInOrder, DisburseInOrder, RepayInOrder,
           ListInOrder DEF Continue
      <3>3. QED
        BY <1>2, <3>1, <3>2 DEF OrderInv
    <2>4. ASSUME NEW l \in Loans, NEW u \in Users, Request(l, u)
          PROVE  OrderInv'
      <3>1. OneBusy'
        BY <2>1, <2>4 DEF Request, OneBusy, Busy
      <3>2. QED
        BY <1>2, <2>1, <2>4, <3>1, RequestInOrder DEF OrderInv
    <2>5. QED
      BY <2>1, <2>2, <2>3, <2>4 DEF Next
  <1>6. QED
    BY <1>3, <1>4, <1>5

\* While calls come one after the other, every call still holds what it read, the
\* schedule of a loan is there from its disbursement on, and the totals are kept.
THEOREM LoansOrderInvariant == MCSpec => [](LoansInv /\ OrderInv)
  <1>1. MCInit => LoansInv /\ OrderInv
    <2>1. ASSUME Init
          PROVE  OrderInv
      <3>1. Busy = {}
        BY <2>1 DEF Init, Busy, Idle
      <3>2. IsFiniteSet(Busy) /\ OneBusy
        BY <3>1, FS_EmptySet DEF OneBusy
      <3>3. installments = << >> /\ \A l \in Loans : loan[l] = NULL /\ Status(l) = NULL
        BY <2>1 DEF Init, Status
      <3>4. \A l \in Loans : ~PaidOut(l)
        BY <3>3, LoansAssumption DEF PaidOut, LoansAssumption, LoanStatuses
      <3>5. ScheduleComplete /\ TotalsKept
        BY <3>3, <3>4 DEF ScheduleComplete, TotalsKept
      <3>6. Current(Idle)
        BY DEF Current, Idle
      <3>7. \A h \in Handlers : Current(handler[h])
        BY <2>1, <3>6 DEF Init
      <3>8. QED
        BY <3>2, <3>3, <3>5, <3>7 DEF OrderInv, OrderFacts
    <2>2. QED
      BY <2>1, LoansInvInit DEF MCInit
  <1>2. LoansInv /\ OrderInv /\ [MCNext]_<<vars, alone>> => (LoansInv /\ OrderInv)'
    <2>1. [MCNext]_<<vars, alone>> => [Next]_vars
      BY DEF MCNext, vars
    <2>2. QED
      BY <2>1, LoansInvStep, OrderStep
  <1>3. QED
    BY <1>1, <1>2, PTL DEF MCSpec

\* Of calls that come one after the other, only a loan signed by two people, neither
\* of them the one who asked for it, is paid out, and its schedule is written once.
THEOREM FullyApprovedAloneHolds == MCSpec => []FullyApprovedAlone
  <1>1. ASSUME LoansInv, OrderFacts
        PROVE  FullyApproved
    <2>1. ASSUME NEW l \in Loans, PaidOut(l)
          PROVE  loan[l] # NULL /\ loan[l].status \in {"Disbursed", "Completed"}
      BY <2>1, LoansAssumption DEF PaidOut, Status, LoansAssumption, LoanStatuses
    <2>2. QED
      BY <1>1, <2>1 DEF FullyApproved, OrderFacts, SignedFor
  <1>2. ASSUME LoansInv, OrderFacts
        PROVE  ScheduleOnce
    <2>1. 1 \in 1 .. Tenure
      BY LoansAssumption DEF LoansAssumption
    <2>2. \A l \in Loans : Of(l) # {} <=> PaidOut(l)
      BY <1>2, <2>1 DEF OrderFacts, ScheduleComplete, Of
    <2>3. ASSUME NEW l \in Loans, Of(l) # {}, NEW m \in 1 .. Tenure
          PROVE  Cardinality({i \in Of(l) : installments[i].month = m}) = 1
      <3>1. PICK j \in Of(l) : installments[j].month = m
        BY <1>2, <2>2, <2>3 DEF OrderFacts, ScheduleComplete
      <3>2. {i \in Of(l) : installments[i].month = m} = {j}
        BY <1>2, <3>1 DEF OrderFacts, ScheduleComplete, Of
      <3>3. Cardinality({j}) = 1
        BY Zenon, FS_Singleton
      <3>4. QED
        BY <3>2, <3>3
    <2>4. QED
      BY <2>2, <2>3 DEF ScheduleOnce
  <1>3. LoansInv /\ OrderInv => FullyApprovedAlone
    BY <1>1, <1>2 DEF OrderInv, FullyApprovedAlone
  <1>4. QED
    BY <1>3, LoansOrderInvariant, PTL

\* Of repayments that come one after the other, none is lost, and a loan is completed
\* only when all its installments are paid up to a cent.
THEOREM CompletedIsPaidAloneHolds == MCSpec => []CompletedIsPaidAlone
  <1>1. OrderFacts => RepaymentsKept /\ CompletedIsPaid
    BY DEF OrderFacts, TotalsKept, RepaymentsKept, CompletedIsPaid, Of
  <1>2. LoansInv /\ OrderInv => CompletedIsPaidAlone
    BY <1>1 DEF OrderInv, CompletedIsPaidAlone
  <1>3. QED
    BY <1>2, LoansOrderInvariant, PTL
=============================================================================
