------------------------------- MODULE MCOffice -------------------------------
(***************************************************************************)
(* The parts of the office that share no table with each other: claims,    *)
(* the accounts and notices of the client app, payroll, assets and         *)
(* procurement, tasks, bank accounts, and the accounts of the staff.  A    *)
(* behaviour is about one of them: `part' says which, and the others stay  *)
(* as they start.                                                          *)
(***************************************************************************)
EXTENDS Claims, ClientNotices, ClientAppAuth, LinkedTasks, BankBooks, StaffAuth, HrPayroll,
        Administration, TLC

CONSTANTS
    h1,         \* the call on claims
    x1, x2,     \* two of what works at the same time, whichever part it is
    p1, p2      \* PINs

VARIABLES
    part,
    who         \* whose account of the client app the behaviour is about

accountVars == <<authVars, who>>
allVars == <<part, vars, accountVars, noticeVars, hrVars, adminVars, taskVars, bankVars,
             staffVars>>

Two == {x1, x2}
Symmetry == Permutations(Two) \cup Permutations({p1, p2})
-------------------------------------------------------------------------------
\* Member 1 came as applicant 11.
CameAs == [m \in {1} |-> 11]

\* A file with a heading and two people, then one with the first spelt otherwise.
Name(person, spelling) == [person |-> person, spelling |-> spelling]
Salary(name, basic) ==
    [name |-> name, basicSalary |-> basic,
     amounts |-> [rate |-> 10, totalCost |-> 100, deducted |-> 5, penalty |-> 0, debt |-> 4,
                  credited |-> 2]]
Accounts == <<Name(1, 0)>>
Files == << <<Salary(Name(9, 0), "blank"), Salary(Name(1, 0), "entered"),
              Salary(Name(2, 0), "entered")>>, <<Salary(Name(1, 1), "entered")>> >>
\* A credit raised together with a cost that is no officer's to change, and a debt
\* below zero.
Corrections == {[credited |-> 500, totalCost |-> 900], [debt |-> -50]}
ASSUME FilesInOrder /\ UpdatesInOrder

Kinds == {[purchaseCost |-> 100000, months |-> 12], [purchaseCost |-> 20000, months |-> 1]}
Goods == {[unitCost |-> 300, quantity |-> 2], [unitCost |-> 0, quantity |-> 1]}
ASSUME GoodsInOrder
-------------------------------------------------------------------------------
MCInit ==
    /\ part \in {"claims", "auth", "notices", "hr", "administration", "tasks", "bank", "staff"}
    /\ Init
    /\ AuthInit
    /\ IF part = "auth" THEN who \in Holders
       ELSE who = 1 /\ account = [h \in Holders |-> NoAccount]
    /\ NoticeInit
    /\ part # "notices" => activated = {}
    /\ HrInit
    /\ AdminInit
    /\ TaskInit
    /\ BankInit
    /\ StaffInit

\* The accounts of two people meet in nothing: a behaviour is about one.
OneHolderNext ==
    /\ AuthNext
    /\ \A h \in Holders \ {who} : account'[h] = account[h]
    /\ \A c \in Two : call'[c].holder \in {0, who}
    /\ UNCHANGED who

\* Two officers work at once on uploads only, before anything else happened; the
\* rest is done by one.
PayrollNext ==
    /\ HrNext
    /\ Cardinality({o \in Two : officer'[o].step # "idle"}) = 2 =>
          employees = << >> /\ leave' = {} /\ attendance' = << >> /\ edits' = 0 /\ stops' = 0

MCNext ==
    /\ UNCHANGED part
    /\ IF part = "claims" THEN Next ELSE UNCHANGED vars
    /\ IF part = "auth" THEN OneHolderNext ELSE UNCHANGED accountVars
    /\ IF part = "notices" THEN NoticeNext ELSE UNCHANGED noticeVars
    /\ IF part = "hr" THEN PayrollNext ELSE UNCHANGED hrVars
    /\ IF part = "administration" THEN AdminNext ELSE UNCHANGED adminVars
    /\ IF part = "tasks" THEN TaskNext ELSE UNCHANGED taskVars
    /\ IF part = "bank" THEN BankNext ELSE UNCHANGED bankVars
    /\ IF part = "staff" THEN StaffNext ELSE UNCHANGED staffVars

MCSpec == MCInit /\ [][MCNext]_allVars
===============================================================================
