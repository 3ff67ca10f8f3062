------------------------------- MODULE MCIntake -------------------------------
(***************************************************************************)
(* How clients, policies and premiums come in: applications of the client  *)
(* app turned into policies, rosters of policies, and uploaded premiums.   *)
(* A behaviour is about one of the three: `part' says which, and the       *)
(* others stay as they start.                                              *)
(***************************************************************************)
EXTENDS ApplicationConversion, RosterImport, PremiumImport, TLC

CONSTANTS x1, x2   \* two of what works at the same time

VARIABLE part

allVars == <<part, applicationVars, rosterVars, premiumVars>>
-------------------------------------------------------------------------------
Two == {x1, x2}
Symmetry == Permutations(Two)

Number(n, spelling) == [number |-> n, spelling |-> spelling]

FilledForms == {[phone |-> 1, shares |-> <<50, 50>>, product |-> "endowment"]}
OfficeNumbers == {Number(1, 0)}

RosterNumber(n, spelling) == [number |-> n, spelling |-> spelling, copy |-> 1]
NoRosterNumber == [number |-> 0, spelling |-> 0, copy |-> 0]
NumbersGiven == {RosterNumber(2, 1), RosterNumber(4, 0)}
RosterRow(number, pincode, name, commencement, maturity) ==
    [policyNo |-> number, pincode |-> pincode, name |-> name,
     commencement |-> commencement, maturity |-> maturity]
\* A sheet with a missing number, a doubtful date and one pincode of two names;
\* one with a number of the first sheet spelt otherwise, and one number twice.
Rosters == <<
    [format |-> "pay_smol_smol", sheet |-> <<
        RosterRow(RosterNumber(1, 1), 7, "a", "date", "empty"),
        RosterRow(NoRosterNumber, 8, "b", "date", "empty"),
        RosterRow(RosterNumber(2, 0), 8, "c", "mmm-yy", "text")>>],
    [format |-> "pikin", sheet |-> <<
        RosterRow(RosterNumber(1, 0), 0, "p", "date", "empty"),
        RosterRow(RosterNumber(3, 0), 0, "q", "serial", "empty"),
        RosterRow(RosterNumber(3, 0), 0, "above", "serial", "empty")>>] >>

Deduction(pincode, month, amount) == [pincode |-> pincode, month |-> month, amount |-> amount]
Salary(nationalId, phone, month, amount) ==
    [nationalId |-> nationalId, phone |-> phone, month |-> month, amount |-> amount]
Receipt(number, month, amount) == [policyNo |-> number, month |-> month, amount |-> amount]
Policy(number, pincode) ==
    [policyNo |-> number, pincode |-> pincode, client |-> 1, product |-> "Pikin",
     cancelled |-> FALSE]
PremiumFiles == <<
    [layout |-> "mda", rows |->
        <<Deduction(7, 1, 10), Deduction(8, 1, Absent), Deduction(7, 2, 10)>>],
    [layout |-> "endowment", rows |->
        <<Deduction(7, 1, 10), Deduction(8, 1, Absent), Deduction(9, 1, 10)>>],
    [layout |-> "payroll", rows |->
        <<Salary(Absent, 31, 1, 10), Salary(21, 32, 1, 10), Salary(Absent, Absent, 1, 10)>>],
    [layout |-> "office", rows |->
        <<Receipt(Number(1, 1), 1, 10), Receipt(Number(5, 0), 1, 10)>>],
    [layout |-> "bulk", rows |->
        <<Receipt(Number(1, 0), 1, 10), Receipt(Number(1, 1), 1, 10)>>] >>
Policies == <<Policy(Number(1, 0), 7), Policy(Number(2, 0), 8)>>
People == << [nationalId |-> Absent, phone |-> 32] >>
ASSUME RowsInOrder /\ TablesInOrder(Policies, People) /\ SheetsInOrder

Init ==
    /\ part \in {"conversion", "roster", "premiums"}
    /\ ApplicationInit
    /\ RosterInit
    /\ PremiumInit(Policies, People)
Next ==
    /\ UNCHANGED part
    /\ \/ /\ part = "conversion" /\ ApplicationNext
          /\ UNCHANGED <<rosterVars, premiumVars>>
       \/ /\ part = "roster" /\ RosterNext
          /\ UNCHANGED <<applicationVars, premiumVars>>
       \/ /\ part = "premiums" /\ PremiumNext
          /\ UNCHANGED <<applicationVars, rosterVars>>
Spec == Init /\ [][Next]_allVars
===============================================================================
