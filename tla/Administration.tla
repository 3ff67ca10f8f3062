----------------------------- MODULE Administration -----------------------------
(***************************************************************************)
(* AdministrationService: assets that lose value month by month, and       *)
(* procurement requests that are approved and paid.  Each operation posts  *)
(* its journal entry (JournalService.post, see Journal) and writes its own *)
(* rows afterwards, outside of the transaction of the entry.  Amounts are  *)
(* in hundredths of a cent; a quotient is cut off there.                   *)
(***************************************************************************)
EXTENDS Integers, Sequences, FiniteSets, Functions

CONSTANTS
    Managers,       \* requests the server works on at the same time
    AssetKinds,     \* assets that may be bought: [purchaseCost, months]
    Items,          \* things that may be requested: [unitCost, quantity]
    MaxAssets, MaxOrders, MaxEntries, MaxDays, MaxAdminBreaks  \* bounds

VARIABLES
    assets,    \* table assets
    orders,    \* table procurement_requests
    books,     \* what the entries posted here add to account 1600 and 2400
    manager,   \* what each request is doing
    days,      \* how often thirty days passed
    postings,  \* how many entries were posted
    adminBreaks,
    tidy       \* history: one request after the other, none cut off, and no
               \* order approved or paid again

adminVars == <<assets, orders, books, manager, days, postings, adminBreaks, tidy>>

Cent == 100
Asset == [purchaseCost: Nat, months: Nat \ {0}, accumulated: Nat,
          status: {"In Use", "In Storage", "Retired"}]
ProcurementRequest ==
    [unitCost: Nat, quantity: Nat, status: {"Pending Approval", "Approved"},
     entry: BOOLEAN, paid: BOOLEAN, age: Nat]

\* What the requests that create assets and orders are validated for.
GoodsInOrder ==
    /\ \A kind \in AssetKinds :
         /\ kind.purchaseCost \in Nat /\ kind.purchaseCost % Cent = 0
         /\ kind.months \in Nat \ {0}
    /\ \A item \in Items : item.unitCost \in Nat /\ item.quantity \in Nat

Least(a, b) == IF a < b THEN a ELSE b
RoundToCent(n) == ((n + Cent \div 2) \div Cent) * Cent
TotalCost(o) == o.unitCost * o.quantity
-------------------------------------------------------------------------------
(* Depreciation.                                                            *)

Monthly(a) == a.purchaseCost \div a.months
\* Straight line, until nothing remains.
monthlyDepreciationFor(a) == Least(Monthly(a), a.purchaseCost - a.accumulated)
\* What the office shows in advance: month by month until the end of the life.
depreciationSchedule(a) ==
    [i \in 1 .. a.months |->
        LET accumulated == Least(i * Monthly(a), a.purchaseCost)
        IN  [accumulated |-> RoundToCent(accumulated),
             netBookValue |-> RoundToCent(a.purchaseCost - accumulated)]]

Outside == [step |-> "idle", order |-> 0, total |-> 0, updates |-> << >>, cost |-> 0]
ManagerAt(m, step) == manager[m].step = step
ManagerGoes(m, to) == manager' = [manager EXCEPT ![m] = to]

AdminInit ==
    /\ assets = << >>
    /\ orders = << >>
    /\ books = [depreciation |-> 0, payable |-> 0]
    /\ manager = [m \in Managers |-> Outside]
    /\ days = 0
    /\ postings = 0
    /\ adminBreaks = 0
    /\ tidy = TRUE

createAsset(kind) ==
    /\ Len(assets) < MaxAssets
    /\ assets' = Append(assets, [purchaseCost |-> kind.purchaseCost, months |-> kind.months,
                                 accumulated |-> 0, status |-> "In Use"])
    /\ UNCHANGED <<orders, books, manager, days, postings, adminBreaks>>

\* The updates of all assets are worked out before the entry is posted.
ReadAssets(m) ==
    LET due == {i \in DOMAIN assets :
                  assets[i].status = "In Use" /\ monthlyDepreciationFor(assets[i]) > 0}
        monthly == [i \in due |-> monthlyDepreciationFor(assets[i])]
        total == SumFunction(monthly)
    IN  /\ ManagerAt(m, "idle")
        /\ total > 0
        /\ ManagerGoes(m, [Outside EXCEPT !.step = "post", !.total = RoundToCent(total),
             !.updates = [i \in due |-> RoundToCent(assets[i].accumulated + monthly[i])]])
        /\ UNCHANGED <<assets, orders, books, days, postings, adminBreaks>>
\* A month that is closed refuses the entry and nothing is updated.
PostDepreciation(m) ==
    /\ ManagerAt(m, "post")
    /\ \/ /\ postings < MaxEntries
          /\ postings' = postings + 1
          /\ books' = [books EXCEPT !.depreciation = @ + manager[m].total]
          /\ ManagerGoes(m, [manager[m] EXCEPT !.step = "update"])
       \/ /\ ManagerGoes(m, Outside)
          /\ UNCHANGED <<books, postings>>
    /\ UNCHANGED <<assets, orders, days, adminBreaks>>
\* The assets were read in no order.
UpdateAsset(m, i) ==
    LET rest == DOMAIN manager[m].updates \ {i}
    IN  /\ ManagerAt(m, "update")
        /\ assets' = [assets EXCEPT ![i].accumulated = manager[m].updates[i]]
        /\ ManagerGoes(m, IF rest = {} THEN Outside
                          ELSE [manager[m] EXCEPT !.updates = [j \in rest |-> @[j]]])
        /\ UNCHANGED <<orders, books, days, postings, adminBreaks>>
-------------------------------------------------------------------------------
(* Procurement.                                                             *)

createProcurementRequest(item) ==
    /\ Len(orders) < MaxOrders
    /\ orders' = Append(orders, [unitCost |-> item.unitCost, quantity |-> item.quantity,
                   status |-> "Pending Approval", entry |-> FALSE, paid |-> FALSE, age |-> 0])
    /\ UNCHANGED <<assets, books, manager, days, postings, adminBreaks>>

\* Approval looks at no status; it posts the payable unless there is no cost.
ReadForApproval(m, o) ==
    /\ ManagerAt(m, "idle")
    /\ ManagerGoes(m, [Outside EXCEPT
         !.step = IF TotalCost(orders[o]) > 0 THEN "payable" ELSE "approve",
         !.order = o, !.cost = TotalCost(orders[o])])
    /\ UNCHANGED <<assets, orders, books, days, postings, adminBreaks>>
PostPayable(m) ==
    /\ ManagerAt(m, "payable")
    /\ \/ /\ postings < MaxEntries
          /\ postings' = postings + 1
          /\ books' = [books EXCEPT !.payable = @ + manager[m].cost]
          /\ ManagerGoes(m, [manager[m] EXCEPT !.step = "approve"])
       \/ /\ ManagerGoes(m, Outside)
          /\ UNCHANGED <<books, postings>>
    /\ UNCHANGED <<assets, orders, days, adminBreaks>>
approveProcurementRequest(m) ==
    /\ ManagerAt(m, "approve")
    /\ orders' = [orders EXCEPT ![manager[m].order] =
                    [@ EXCEPT !.status = "Approved", !.entry = manager[m].cost > 0]]
    /\ ManagerGoes(m, Outside)
    /\ UNCHANGED <<assets, books, days, postings, adminBreaks>>

\* Fault: a request that was not approved is paid.
ReadAnyForPayment(m, o) ==
    /\ ManagerAt(m, "idle")
    /\ ManagerGoes(m, [Outside EXCEPT
         !.step = "settle", !.order = o, !.cost = TotalCost(orders[o])])
    /\ UNCHANGED <<assets, orders, books, days, postings, adminBreaks>>
ReadForPayment(m, o) ==
    /\ ManagerAt(m, "idle")
    /\ orders[o].status = "Approved"
    /\ ManagerGoes(m, [Outside EXCEPT
         !.step = "settle", !.order = o, !.cost = TotalCost(orders[o])])
    /\ UNCHANGED <<assets, orders, books, days, postings, adminBreaks>>
PostSettlement(m) ==
    /\ ManagerAt(m, "settle")
    /\ \/ /\ postings < MaxEntries
          /\ postings' = postings + 1
          /\ books' = [books EXCEPT !.payable = @ - manager[m].cost]
          /\ ManagerGoes(m, [manager[m] EXCEPT !.step = "paid"])
       \/ /\ ManagerGoes(m, Outside)
          /\ UNCHANGED <<books, postings>>
    /\ UNCHANGED <<assets, orders, days, adminBreaks>>
payProcurementRequest(m) ==
    /\ ManagerAt(m, "paid")
    /\ orders' = [orders EXCEPT ![manager[m].order].paid = TRUE]
    /\ ManagerGoes(m, Outside)
    /\ UNCHANGED <<assets, books, days, postings, adminBreaks>>

\* What is approved and unpaid, by the days since the request was made.
Bucket(age) == IF age <= 30 THEN "0-30" ELSE IF age <= 60 THEN "31-60"
               ELSE IF age <= 90 THEN "61-90" ELSE "90+"
apAging ==
    LET outstanding == {o \in DOMAIN orders : orders[o].status = "Approved" /\ ~orders[o].paid}
    IN  [b \in {"0-30", "31-60", "61-90", "90+"} |->
           SumFunctionOnSet([o \in outstanding |-> TotalCost(orders[o])],
                            {o \in outstanding : Bucket(orders[o].age) = b})]
-------------------------------------------------------------------------------
ThirtyDaysPass ==
    /\ days < MaxDays
    /\ days' = days + 1
    /\ orders' = [o \in DOMAIN orders |-> [orders[o] EXCEPT !.age = @ + 30]]
    /\ UNCHANGED <<assets, books, manager, postings, adminBreaks>>
AdminBreak ==
    /\ adminBreaks < MaxAdminBreaks
    /\ adminBreaks' = adminBreaks + 1
    /\ manager' = [m \in Managers |-> Outside]
    /\ manager' # manager
    /\ UNCHANGED <<assets, orders, books, days, postings>>

AdminStep ==
    \/ \E kind \in AssetKinds : createAsset(kind)
    \/ \E item \in Items : createProcurementRequest(item)
    \/ \E m \in Managers :
         \/ ReadAssets(m)
         \/ PostDepreciation(m)
         \/ \E i \in DOMAIN manager[m].updates : UpdateAsset(m, i)
         \/ \E o \in DOMAIN orders : ReadForApproval(m, o) \/ ReadForPayment(m, o)
         \/ PostPayable(m)
         \/ approveProcurementRequest(m)
         \/ PostSettlement(m)
         \/ payProcurementRequest(m)
    \/ ThirtyDaysPass
    \/ AdminBreak
\* An order that is worked on once more after it had that status.
Again ==
    \E m \in Managers :
      /\ manager'[m].order # 0
      /\ \/ /\ manager'[m].step \in {"payable", "approve"}
            /\ orders[manager'[m].order].status = "Approved"
         \/ manager'[m].step \in {"settle", "paid"} /\ orders[manager'[m].order].paid
AdminNext ==
    /\ AdminStep
    /\ tidy' = /\ tidy
               /\ adminBreaks' = 0
               /\ Cardinality({m \in Managers : manager'[m].step # "idle"}) <= 1
               /\ ~Again
-------------------------------------------------------------------------------
(* Properties.                                                              *)

AllIdle == \A m \in Managers : ManagerAt(m, "idle")
Distance(a, b) == IF a > b THEN a - b ELSE b - a
\* "Every approved-but-unpaid request is a real payable sitting on the books":
\* while no request is decided twice, the aging report adds up to account
\* 2400, and what was depreciated on the books is what the register says, up
\* to the rounding of each asset and of the total; each asset stands at a month
\* of the schedule that was shown for it.  An asset is never written off twice:
\* not even then, nor when two runs overlap.
OnSchedule(a) ==
    a.accumulated > 0 => \E i \in 1 .. a.months :
        Distance(a.accumulated, depreciationSchedule(a)[i].accumulated) <= i * Cent
BooksMeetRegisters ==
    /\ \A a \in DOMAIN assets : assets[a].accumulated <= assets[a].purchaseCost
    /\ tidy /\ AllIdle =>
         /\ \A a \in DOMAIN assets : OnSchedule(assets[a])
         /\ SumFunction(apAging) = books.payable
         /\ Distance(SumFunction([a \in DOMAIN assets |-> assets[a].accumulated]),
                     books.depreciation)
              <= postings * (Len(assets) + 1) * (Cent \div 2)
================================================================================
