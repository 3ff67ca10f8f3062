-------------------------------- MODULE Journal --------------------------------
(***************************************************************************)
(* The general ledger: JournalService.post, approve, reverse and           *)
(* closePeriod, as the controller, the bulk upload and the event listeners *)
(* call them.  Every await is a step boundary; only post has a database    *)
(* transaction, and repository.save writes back every column in which the  *)
(* entity in memory differs from the row, so it replaces the whole row.    *)
(*                                                                         *)
(* Amounts are integers in thousandths: the API takes any number, a column *)
(* keeps two decimals.                                                     *)
(***************************************************************************)
EXTENDS Integers, Sequences, FiniteSets, Functions

CONSTANTS
    Handlers,    \* calls the server works on at the same time
    Users,
    Months,      \* accounting periods
    Today,       \* the current month
    Accounts,    \* codes in the chart of accounts
    Inputs,      \* line lists that callers post
    NULL,
    MaxEntries,  \* bound: entries in the journal
    MaxCrashes   \* bound: restarts of the process

Sources == {"manual", "event", "historical", "reversal"}
Lines == Seq([account: STRING, debit: Nat, credit: Nat])

ASSUME JournalAssumption ==
    /\ Today \in Months
    /\ Inputs \subseteq Lines
    /\ NULL \notin Users \cup Months
    /\ MaxEntries \in Nat /\ MaxCrashes \in Nat

VARIABLES
    entries,   \* journal_entries with their journal_lines; the id is the position
    closed,    \* accounting_periods: the months with a row
    audit,     \* audit_logs: <<action, id>>
    handler,   \* what each call is doing
    crashes

vars == <<entries, closed, audit, handler, crashes>>
-------------------------------------------------------------------------------
Entry ==
    [month: Months, source: Sources, sourceRef: Nat, postedBy: Users \cup {NULL},
     status: {"Posted", "Pending Approval"}, approvedBy: Users \cup {NULL},
     reversalStatus: {"None", "Reversed"}, reversalOf: Nat, lines: Lines]

\* toFixed(2) on the way into the table.
ToFixed2(x) == 10 * ((x + 5) \div 10)
Stored(lines) ==
    [n \in DOMAIN lines |-> [account |-> lines[n].account,
                             debit |-> ToFixed2(lines[n].debit),
                             credit |-> ToFixed2(lines[n].credit)]]
Swapped(lines) ==
    [n \in DOMAIN lines |-> [account |-> lines[n].account,
                             debit |-> lines[n].credit,
                             credit |-> lines[n].debit]]

TotalDebit(lines) == SumFunction([n \in DOMAIN lines |-> lines[n].debit])
TotalCredit(lines) == SumFunction([n \in DOMAIN lines |-> lines[n].credit])
Difference(lines) == TotalDebit(lines) - TotalCredit(lines)

\* Not more than 0.001 apart.
Balances(lines) == Difference(lines) \in -1..1
KnownAccounts(lines) == \A n \in DOMAIN lines : lines[n].account \in Accounts

\* A call: its place, the user, the entry in memory (for reverse also the
\* original, for closePeriod only the month), and the id it works on.
Steps == {"idle", "period", "insert", "link", "mark", "approve", "count", "close",
          "audit"}
Idle == [step |-> "idle", user |-> NULL, entry |-> NULL, original |-> NULL,
         month |-> NULL, id |-> 0]

At(h, step) == handler[h].step = step
Begin(h, call) == At(h, "idle") /\ handler' = [handler EXCEPT ![h] = call]
Goto(h, step) == handler' = [handler EXCEPT ![h].step = step]
Done(h) == handler' = [handler EXCEPT ![h] = Idle]

\* TypeORM's save of an entity with an id.
Save(i, entry) == entries' = [entries EXCEPT ![i] = entry]

Init ==
    /\ entries = << >>
    /\ closed = {}
    /\ audit = {}
    /\ handler = [h \in Handlers |-> Idle]
    /\ crashes = 0
-------------------------------------------------------------------------------
(* post                                                                     *)

NewEntry(month, lines, source, ref, user) ==
    [month |-> month, source |-> source, sourceRef |-> ref, postedBy |-> user,
     status |-> IF source = "manual" THEN "Pending Approval" ELSE "Posted",
     approvedBy |-> NULL, reversalStatus |-> "None", reversalOf |-> 0,
     lines |-> lines]

\* Bound: every post begun may add an entry.
Room == Len(entries) + Cardinality({h \in Handlers : handler[h].step \in {"period", "insert"}})
          < MaxEntries

\* POST /journal-entries, or a row of the historical upload: any month.
CallPost(h, u, m, lines, source) ==
    /\ Room
    /\ Begin(h, [Idle EXCEPT !.step = "period", !.user = u,
                             !.entry = NewEntry(m, lines, source, 0, u)])
    /\ UNCHANGED <<entries, closed, audit, crashes>>

\* A payment or claim event: today, without an actor.
CallPostEvent(h, lines) ==
    /\ Room
    /\ Begin(h, [Idle EXCEPT !.step = "period",
                             !.entry = NewEntry(Today, lines, "event", 0, NULL)])
    /\ UNCHANGED <<entries, closed, audit, crashes>>

\* Fault: the period is not looked at.
CheckPostAnyMonth(h) ==
    /\ At(h, "period")
    /\ IF Balances(handler[h].entry.lines) THEN Goto(h, "insert") ELSE Done(h)
    /\ UNCHANGED <<entries, closed, audit, crashes>>

\* assertPeriodOpen and the balance check, before the transaction.
CheckPost(h) ==
    LET entry == handler[h].entry
    IN  /\ At(h, "period")
        /\ IF entry.month \notin closed /\ Balances(entry.lines)
           THEN Goto(h, "insert")
           ELSE Done(h)
        /\ UNCHANGED <<entries, closed, audit, crashes>>

\* The transaction: entry, lines and, for a user, the audit row.
InsertEntry(h) ==
    LET entry == [handler[h].entry EXCEPT !.lines = Stored(@)]
        id == Len(entries) + 1
    IN  /\ At(h, "insert")
        /\ IF KnownAccounts(entry.lines)
           THEN /\ entries' = Append(entries, entry)
                /\ audit' = IF entry.postedBy # NULL
                            THEN audit \cup {<<"journal.posted", id>>} ELSE audit
                /\ IF entry.source = "reversal"
                   THEN handler' = [handler EXCEPT ![h].step = "link",
                                                   ![h].entry = entry, ![h].id = id]
                   ELSE Done(h)
           ELSE Done(h) /\ UNCHANGED <<entries, audit>>
        /\ UNCHANGED <<closed, crashes>>
-------------------------------------------------------------------------------
(* approve                                                                  *)

\* Fault: one's own entry is not refused.
CallApproveOwn(h, u, i) ==
    /\ entries[i].status = "Pending Approval"
    /\ Begin(h, [Idle EXCEPT !.step = "approve", !.user = u, !.id = i,
                             !.entry = entries[i]])
    /\ UNCHANGED <<entries, closed, audit, crashes>>

\* Reads the entry; a posted one and one's own are refused.
CallApprove(h, u, i) ==
    /\ entries[i].status = "Pending Approval"
    /\ entries[i].postedBy # u
    /\ Begin(h, [Idle EXCEPT !.step = "approve", !.user = u, !.id = i,
                             !.entry = entries[i]])
    /\ UNCHANGED <<entries, closed, audit, crashes>>

SaveApproved(h) ==
    /\ At(h, "approve")
    /\ Save(handler[h].id, [handler[h].entry EXCEPT !.status = "Posted",
                                                    !.approvedBy = handler[h].user])
    /\ Goto(h, "audit")
    /\ UNCHANGED <<closed, audit, crashes>>
-------------------------------------------------------------------------------
(* reverse                                                                  *)

\* Faults: a reversed entry, a pending entry is not refused.
CallReverseAgain(h, u, i) ==
    /\ Room
    /\ entries[i].status = "Posted"
    /\ Begin(h, [Idle EXCEPT !.step = "period", !.user = u, !.original = entries[i],
                   !.entry = NewEntry(Today, Swapped(entries[i].lines), "reversal", i, u)])
    /\ UNCHANGED <<entries, closed, audit, crashes>>
CallReversePending(h, u, i) ==
    /\ Room
    /\ entries[i].reversalStatus # "Reversed"
    /\ Begin(h, [Idle EXCEPT !.step = "period", !.user = u, !.original = entries[i],
                   !.entry = NewEntry(Today, Swapped(entries[i].lines), "reversal", i, u)])
    /\ UNCHANGED <<entries, closed, audit, crashes>>

\* Reads the original; only a posted, not yet reversed one goes on, as a post
\* of the swapped lines dated today.
CallReverse(h, u, i) ==
    /\ Room
    /\ entries[i].status = "Posted"
    /\ entries[i].reversalStatus # "Reversed"
    /\ Begin(h, [Idle EXCEPT !.step = "period", !.user = u, !.original = entries[i],
                   !.entry = NewEntry(Today, Swapped(entries[i].lines), "reversal", i, u)])
    /\ UNCHANGED <<entries, closed, audit, crashes>>

\* Two more saves: the reversal gets its link, the original its mark.
LinkReversal(h) ==
    LET reversal == handler[h].entry
    IN  /\ At(h, "link")
        /\ Save(handler[h].id, [reversal EXCEPT !.reversalOf = reversal.sourceRef])
        /\ Goto(h, "mark")
        /\ UNCHANGED <<closed, audit, crashes>>

MarkReversed(h) ==
    /\ At(h, "mark")
    /\ Save(handler[h].entry.sourceRef,
            [handler[h].original EXCEPT !.reversalStatus = "Reversed"])
    /\ Done(h)
    /\ UNCHANGED <<closed, audit, crashes>>
-------------------------------------------------------------------------------
(* closePeriod                                                              *)

CallClose(h, u, m) ==
    /\ m \notin closed
    /\ Begin(h, [Idle EXCEPT !.step = "count", !.user = u, !.month = m])
    /\ UNCHANGED <<entries, closed, audit, crashes>>

CountPending(h) ==
    /\ At(h, "count")
    /\ IF \E i \in DOMAIN entries : /\ entries[i].month = handler[h].month
                                    /\ entries[i].status = "Pending Approval"
       THEN Done(h)
       ELSE Goto(h, "close")
    /\ UNCHANGED <<entries, closed, audit, crashes>>

\* The period column is unique: the second of two saves fails.
SavePeriod(h) ==
    /\ At(h, "close")
    /\ IF handler[h].month \in closed
       THEN Done(h) /\ UNCHANGED closed
       ELSE closed' = closed \cup {handler[h].month} /\ Goto(h, "audit")
    /\ UNCHANGED <<entries, audit, crashes>>
-------------------------------------------------------------------------------
\* approve and closePeriod write their audit row last; a failure is swallowed.
RecordAudit(h) ==
    /\ At(h, "audit")
    /\ \/ audit' = audit \cup
             {IF handler[h].month = NULL THEN <<"journal.approved", handler[h].id>>
                                         ELSE <<"period.closed", handler[h].month>>}
       \/ UNCHANGED audit
    /\ Done(h)
    /\ UNCHANGED <<entries, closed, crashes>>

\* The process restarts between two steps.
Crash ==
    /\ crashes < MaxCrashes
    /\ crashes' = crashes + 1
    /\ handler' = [h \in Handlers |-> Idle]
    /\ UNCHANGED <<entries, closed, audit>>

Call(h) ==
    \/ \E lines \in Inputs :
          \/ CallPostEvent(h, lines)
          \/ \E u \in Users, m \in Months, source \in {"manual", "historical"} :
                CallPost(h, u, m, lines, source)
    \/ \E u \in Users :
          \/ \E i \in DOMAIN entries : CallApprove(h, u, i) \/ CallReverse(h, u, i)
          \/ \E m \in Months : CallClose(h, u, m)

Continue(h) ==
    \/ CheckPost(h)
    \/ InsertEntry(h)
    \/ SaveApproved(h)
    \/ LinkReversal(h)
    \/ MarkReversed(h)
    \/ CountPending(h)
    \/ SavePeriod(h)
    \/ RecordAudit(h)

Next == Crash \/ \E h \in Handlers : Call(h) \/ Continue(h)

Spec == Init /\ [][Next]_vars
-------------------------------------------------------------------------------
(* Properties.                                                              *)

\* Type invariant.
HandlerState ==
    [step: Steps, user: Users \cup {NULL}, entry: Entry \cup {NULL},
     original: Entry \cup {NULL}, month: Months \cup {NULL}, id: Nat]
TypeOK ==
    /\ entries \in Seq(Entry)
    /\ closed \subseteq Months
    /\ audit \subseteq ({"journal.posted", "journal.approved"} \X Nat)
                        \cup ({"period.closed"} \X Months)
    /\ handler \in [Handlers -> HandlerState]
    /\ crashes \in Nat

\* Maker-checker: an entry keyed by hand is in the books only with the
\* signature of somebody else, although approve and reverse write back
\* entities that other calls have changed since they were read.
MakerChecker ==
    \A i \in DOMAIN entries :
        entries[i].source = "manual" /\ entries[i].status = "Posted"
          => entries[i].approvedBy \notin {NULL, entries[i].postedBy}

\* What was approved stays approved: no stale save takes an entry out of the
\* trial balance or changes what was posted.
PostedStays ==
    [][\A i \in DOMAIN entries :
         /\ entries[i].status = "Posted" => entries'[i].status = "Posted"
         /\ \A field \in {"month", "source", "postedBy", "lines"} :
              entries'[i][field] = entries[i][field]]_vars

\* "This entry has already been reversed": an entry is offset at most once.
Offsets(i) == {j \in DOMAIN entries : entries[j].source = "reversal"
                                     /\ entries[j].sourceRef = i}
ReversedOnce == \A i \in DOMAIN entries : Cardinality(Offsets(i)) <= 1

\* "Nothing can land in a closed month": no entry is added to a closed month.
AddsToClosedMonth ==
    \E i \in DOMAIN entries' \ DOMAIN entries : entries'[i].month \in closed
ClosedMonthsFrozen == [][~AddsToClosedMonth]_vars

\* No pending entry is left behind in a closed month.
ClosedMonthsSettled ==
    \A i \in DOMAIN entries :
        entries[i].month \in closed => entries[i].status = "Posted"

\* "An out-of-balance entry is rejected outright": what is stored balances.
StoredBalances == \A i \in DOMAIN entries : Difference(entries[i].lines) = 0
===============================================================================
