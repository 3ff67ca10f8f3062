---------------------------- MODULE PolicyLifecycle ----------------------------
(***************************************************************************)
(* The policies table and what writes to it: the nightly lapse-detection   *)
(* sweep of LapseDetectionProcessor and PoliciesService.updateStatus, and  *)
(* the office's reinstate, renew, editPolicyNumber and editFields.  Each   *)
(* call reads the row first and writes it some awaits later; a save of an  *)
(* entity writes back every column as it was read.                         *)
(*                                                                         *)
(* Premiums are posted by Payments; here a payment only adds to a month.   *)
(***************************************************************************)
EXTENDS PolicyStatus, Sequences

CONSTANTS
    Policies,
    Handlers,     \* office calls the server works on at the same time
    Book,         \* [Policies -> Terms]: the terms policies are created with
    OfficeStatus, \* statuses the office sets by hand
    NULL,
    MaxOps        \* bound: payments and office calls

AllStatuses == Statuses \cup {"Surrendered", "Cancelled"}
Row == [status: AllStatuses, maturity: Month \cup {Never}]

ASSUME PolicyLifecycleAssumption ==
    /\ Book \in [Policies -> Terms]
    /\ OfficeStatus \subseteq AllStatuses
    /\ NULL \notin Policies \cup Month \cup Row
    /\ MaxOps \in Nat

VARIABLES
    policy,   \* table policies: [status, maturity], NULL before it is created
    paid,     \* sum of the payments of a policy in a month
    now,
    sweep,    \* the running lapse-detection job
    office,   \* what each office call is doing
    audit,    \* audit rows written inside transactions, newest last
    ops

vars == <<policy, paid, now, sweep, office, audit, ops>>

Created == {p \in Policies : policy[p] # NULL}

TermsOf(p, row) == [Book[p] EXCEPT !.maturity = row.maturity]
\* computePolicyStatus for a row as it was read, at a moment.
Computed(p, row, at) == StatusOf(TermsOf(p, row), paid[p], at.month, at)
\* ...its arrears, from payments read earlier, reported for the month of then.
Arrears(p, row, seen) ==
    TotalOutstanding(TermsOf(p, row), seen.paid, StatusCutoffMonth(seen.month, now))

\* The sweep's list of policies as read, the moment it started (read once), the
\* policy in hand and its new status.
NoSweep == [step |-> "off", todo |-> << >>, at |-> NULL, status |-> NULL]
SweepSteps == {"off", "next", "find", "update"}
OfficeSteps == {"idle", "reinstate", "reinstating", "renewing", "numbering"}
IdleCall == [step |-> "idle", policy |-> NULL, read |-> NULL]

Init ==
    /\ policy = [p \in Policies |-> NULL]
    /\ paid = [p \in Policies |-> [m \in Month |-> 0]]
    /\ now \in {[month |-> m, pastDue |-> FALSE] : m \in {n \in Month : \A o \in Month : n <= o}}
    /\ sweep = NoSweep
    /\ office = [h \in Handlers |-> IdleCall]
    /\ audit = << >>
    /\ ops = 0

Counted == ops < MaxOps /\ ops' = ops + 1
-------------------------------------------------------------------------------
(* The world: the calendar, new policies, premiums.                         *)

Advance ==
    /\ ~now.pastDue \/ now.month + 1 \in Month
    /\ now' = IF now.pastDue THEN [month |-> now.month + 1, pastDue |-> FALSE]
                             ELSE [now EXCEPT !.pastDue = TRUE]
    /\ UNCHANGED <<policy, paid, sweep, office, audit, ops>>

Create(p) ==
    /\ policy[p] = NULL
    /\ policy' = [policy EXCEPT ![p] = [status |-> "Not Yet Commenced",
                                        maturity |-> Book[p].maturity]]
    /\ UNCHANGED <<paid, now, sweep, office, audit, ops>>

PayPremium(p, m) ==
    /\ Counted
    /\ policy[p] # NULL
    /\ paid' = [paid EXCEPT ![p][m] = @ + Book[p].premium]
    /\ UNCHANGED <<policy, now, sweep, office, audit>>
-------------------------------------------------------------------------------
(* The sweep.                                                               *)

\* findAllForStatusRecompute: every policy that is not cancelled, in one query.
SweepStart ==
    LET listed == {p \in Created : policy[p].status # "Cancelled"}
    IN  /\ sweep.step = "off"
        /\ \E order \in [1 .. Cardinality(listed) -> listed] :
              /\ \A i, j \in DOMAIN order : order[i] = order[j] => i = j
              /\ sweep' = [step |-> "next", at |-> now, status |-> NULL,
                           todo |-> [i \in DOMAIN order |->
                                       [policy |-> order[i], row |-> policy[order[i]]]]]
        /\ UNCHANGED <<policy, paid, now, office, audit, ops>>

\* The payments of the next policy, and the status they give it.
SweepCompute ==
    /\ sweep.step = "next"
    /\ sweep' = IF sweep.todo = << >> THEN NoSweep
                ELSE LET item == Head(sweep.todo)
                         status == Computed(item.policy, item.row, sweep.at)
                     IN  IF status = item.row.status
                         THEN [sweep EXCEPT !.todo = Tail(@)]
                         ELSE [sweep EXCEPT !.step = "find", !.status = status]
    /\ UNCHANGED <<policy, paid, now, office, audit, ops>>

\* updateStatus reads the policy again, to leave an equal status alone.
SweepFind ==
    /\ sweep.step = "find"
    /\ sweep' = IF policy[Head(sweep.todo).policy].status = sweep.status
                THEN [sweep EXCEPT !.step = "next", !.todo = Tail(@)]
                ELSE [sweep EXCEPT !.step = "update"]
    /\ UNCHANGED <<policy, paid, now, office, audit, ops>>

\* Fault: the listed status is written.
SweepUpdateStale ==
    /\ sweep.step = "update"
    /\ policy' = [policy EXCEPT ![Head(sweep.todo).policy].status = Head(sweep.todo).row.status]
    /\ sweep' = [sweep EXCEPT !.step = "next", !.todo = Tail(@)]
    /\ UNCHANGED <<paid, now, office, audit, ops>>

SweepUpdate ==
    /\ sweep.step = "update"
    /\ policy' = [policy EXCEPT ![Head(sweep.todo).policy].status = sweep.status]
    /\ sweep' = [sweep EXCEPT !.step = "next", !.todo = Tail(@)]
    /\ UNCHANGED <<paid, now, office, audit, ops>>
-------------------------------------------------------------------------------
(* The office.                                                              *)

\* A call goes on with what it has read: payments, a row or the new maturity.
Begin(h, step, p, read) ==
    /\ office[h] = IdleCall
    /\ office' = [office EXCEPT ![h] = [step |-> step, policy |-> p, read |-> read]]
Done(h) == office' = [office EXCEPT ![h] = IdleCall]

\* editFields overwrites the given columns in one update: here the status.
EditStatus(p, status) ==
    /\ Counted
    /\ policy[p] # NULL
    /\ policy' = [policy EXCEPT ![p].status = status]
    /\ UNCHANGED <<paid, now, sweep, office, audit>>

\* reinstate: the controller reads the payments, then the service the row; a
\* cancelled policy and one in arrears are refused.
ReadPayments(h, p) ==
    /\ Counted
    /\ policy[p] # NULL
    /\ Begin(h, "reinstate", p, [paid |-> paid[p], month |-> now.month])
    /\ UNCHANGED <<policy, paid, now, sweep, audit>>

CheckReinstate(h) ==
    LET p == office[h].policy
    IN  /\ office[h].step = "reinstate"
        /\ IF policy[p].status # "Cancelled" /\ Arrears(p, policy[p], office[h].read) = 0
           THEN office' = [office EXCEPT ![h].step = "reinstating", ![h].read = NULL]
           ELSE Done(h)
        /\ UNCHANGED <<policy, paid, now, sweep, audit, ops>>

WriteReinstate(h) ==
    LET p == office[h].policy
    IN  /\ office[h].step = "reinstating"
        /\ policy' = [policy EXCEPT ![p].status = "Active"]
        /\ audit' = Append(audit, [action |-> "policy.reinstated", policy |-> p])
        /\ Done(h)
        /\ UNCHANGED <<paid, now, sweep, ops>>

\* Fault: the new maturity is not compared with the current one.
ReadRenewAny(h, p, m) ==
    /\ Counted
    /\ policy[p] # NULL
    /\ policy[p].maturity # Never
    /\ Begin(h, "renewing", p, m)
    /\ UNCHANGED <<policy, paid, now, sweep, audit>>

\* renew: only a policy with a maturity, and only to a later one.
ReadRenew(h, p, m) ==
    /\ Counted
    /\ policy[p] # NULL
    /\ policy[p].maturity # Never
    /\ m > policy[p].maturity
    /\ Begin(h, "renewing", p, m)
    /\ UNCHANGED <<policy, paid, now, sweep, audit>>

WriteRenew(h) ==
    LET p == office[h].policy
    IN  /\ office[h].step = "renewing"
        /\ policy' = [policy EXCEPT ![p].maturity = office[h].read]
        /\ audit' = Append(audit, [action |-> "policy.renewed", policy |-> p])
        /\ Done(h)
        /\ UNCHANGED <<paid, now, sweep, ops>>

\* editPolicyNumber: the entity is read, its number changed and saved with
\* every other column as it was read.
ReadNumber(h, p) ==
    /\ Counted
    /\ policy[p] # NULL
    /\ Begin(h, "numbering", p, policy[p])
    /\ UNCHANGED <<policy, paid, now, sweep, audit>>

WriteNumber(h) ==
    LET p == office[h].policy
    IN  /\ office[h].step = "numbering"
        /\ policy' = [policy EXCEPT ![p] = office[h].read]
        /\ audit' = Append(audit, [action |-> "policy.number_edited", policy |-> p])
        /\ Done(h)
        /\ UNCHANGED <<paid, now, sweep, ops>>
-------------------------------------------------------------------------------
Sweep == SweepStart \/ SweepCompute \/ SweepFind \/ SweepUpdate

OfficeCall(h, p) ==
    \/ ReadPayments(h, p)
    \/ \E m \in Month : ReadRenew(h, p, m)
    \/ ReadNumber(h, p)
OfficeWrite(h) == CheckReinstate(h) \/ WriteReinstate(h) \/ WriteRenew(h) \/ WriteNumber(h)

World ==
    \/ Advance
    \/ \E p \in Policies :
          \/ Create(p)
          \/ \E m \in Month : PayPremium(p, m)
          \/ \E status \in OfficeStatus : EditStatus(p, status)

Next ==
    \/ World
    \/ Sweep
    \/ \E h \in Handlers : OfficeWrite(h) \/ \E p \in Policies : OfficeCall(h, p)

Spec == Init /\ [][Next]_vars

\* The sweep is queued every night and, once started, runs; a request that has
\* begun ends.  Nothing makes the office or the calendar move.
FairSpec ==
    Spec /\ WF_vars(Sweep) /\ \A h \in Handlers : WF_vars(OfficeWrite(h))
-------------------------------------------------------------------------------
(* Properties.                                                              *)

\* Type invariant.
TypeOK ==
    /\ policy \in [Policies -> Row \cup {NULL}]
    /\ paid \in [Policies -> [Month -> Nat]]
    /\ now \in Moment
    /\ sweep.step \in SweepSteps
    /\ sweep.at \in Moment \cup {NULL}
    /\ \A i \in DOMAIN sweep.todo : sweep.todo[i] \in [policy: Created, row: Row]
    /\ \A h \in Handlers :
          \/ office[h] = IdleCall
          \/ /\ office[h].step \in OfficeSteps
             /\ office[h].policy \in Created
    /\ ops \in 0 .. MaxOps

\* The register converges: once the calendar, the payments and the office are
\* quiet, the nightly sweep leaves every policy that is not cancelled with the
\* status its payments and dates imply, whatever it read while they were not.
RegisterConverges ==
    \A p \in Policies :
        <>[](\/ policy[p] = NULL
             \/ policy[p].status \in {"Cancelled", Computed(p, policy[p], now)})

Swept(p) == /\ sweep.step = "update" /\ Head(sweep.todo).policy = p
            /\ sweep'.step = "next"
\* findAllForStatusRecompute keeps cancelled policies away from the sweep: it
\* never overwrites a cancellation.
SweepKeepsCancelled ==
    [][\A p \in Created : policy[p].status = "Cancelled" /\ Swept(p)
         => policy'[p].status = "Cancelled"]_vars

\* "Every other status is purely a function of dates and payment history": the
\* sweep overwrites no status it could not have derived.
SweepKeepsUnderived ==
    [][\A p \in Created : policy[p].status \notin Statuses /\ Swept(p)
         => policy'[p].status = policy[p].status]_vars

\* "Simply catching up on premium doesn't restore it": a lapsed policy becomes
\* active only by an audited reinstatement.
LapsedNeedsOfficer ==
    [][\A p \in Created :
         policy[p].status = "Lapsed" /\ policy'[p].status = "Active" /\ ops' = ops
           => Len(audit') > Len(audit)]_vars

\* "The new maturity date must be after the current one": cover is never cut
\* short by a renewal.
MaturityOnlyExtends ==
    [][\A p \in Created : policy'[p].maturity >= policy[p].maturity]_vars
===============================================================================
