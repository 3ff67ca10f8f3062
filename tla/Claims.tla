-------------------------------- MODULE Claims --------------------------------
(***************************************************************************)
(* Claims: ClaimsService.create, advance, reject and setReserve, the audit *)
(* row of AuditLogInterceptor, and the journal entries that                *)
(* FinanceEventListener posts when a claim is approved and when it is      *)
(* paid.  advance reads the claim and writes the next status by id some    *)
(* awaits later; the listeners are started and not awaited.                *)
(***************************************************************************)
EXTENDS Naturals, FiniteSets, Sequences, SequencesExt

CONSTANTS
    Handlers,    \* calls the server works on at the same time
    Claims,
    Reserves,    \* reserve amounts the office sets
    NULL,
    MaxCrashes   \* bound: restarts of the process

VARIABLES
    claim,     \* table claims: [status, reserve], NULL before it is registered
    posting,   \* started listeners: per claim and status, how many
    journal,   \* posted entries: per claim and status, how many
    audit,     \* audit rows: <<action, claim, status>>
    handler,   \* what each call is doing
    crashes

vars == <<claim, posting, journal, audit, handler, crashes>>

FLOW == <<"Registered", "Under Review", "Approved", "Paid">>
Statuses == ToSet(FLOW) \cup {"Rejected"}
Posted == {"Approved", "Paid"}
Row == [status: Statuses, reserve: Nat]

ASSUME ClaimsAssumption ==
    /\ NULL \notin Claims \cup Statuses \cup Row
    /\ Reserves \subseteq Nat
    /\ MaxCrashes \in Nat

Counts == [Claims -> [Posted -> Nat]]

\* The status after this one; none after the last and after Rejected.
NextOf(status) ==
    {FLOW[n + 1] : n \in {m \in 1 .. Len(FLOW) - 1 : FLOW[m] = status}}

Status(c) == IF claim[c] = NULL THEN NULL ELSE claim[c].status

Idle == [step |-> "idle", claim |-> NULL, status |-> NULL]
At(h, step) == handler[h].step = step
Begin(h, step, c, status) ==
    handler' = [handler EXCEPT ![h] = [step |-> step, claim |-> c, status |-> status]]
Goto(h, step) == handler' = [handler EXCEPT ![h].step = step]
Done(h) == handler' = [handler EXCEPT ![h] = Idle]

None == [c \in Claims |-> [s \in Posted |-> 0]]
Init ==
    /\ claim = [c \in Claims |-> NULL]
    /\ posting = None
    /\ journal = None
    /\ audit = {}
    /\ handler = [h \in Handlers |-> Idle]
    /\ crashes = 0
-------------------------------------------------------------------------------
\* create, by the office or by the client's app.
Create(c) ==
    /\ claim[c] = NULL
    /\ claim' = [claim EXCEPT ![c] = [status |-> "Registered", reserve |-> 0]]
    /\ UNCHANGED <<posting, journal, audit, handler, crashes>>

\* advance: the claim is read and its next status found, or refused.
Advance(h, c) ==
    /\ At(h, "idle")
    /\ \E next \in NextOf(Status(c)) : Begin(h, "update", c, next)
    /\ UNCHANGED <<claim, posting, journal, audit, crashes>>

WriteAdvance(h) ==
    LET call == handler[h]
    IN  /\ At(h, "update")
        /\ claim' = [claim EXCEPT ![call.claim].status = call.status]
        /\ Goto(h, "emit")
        /\ UNCHANGED <<posting, journal, audit, crashes>>

\* Fault: a payment is announced as an approval and as a payment.
EmitBoth(h) ==
    LET call == handler[h]
    IN  /\ At(h, "emit")
        /\ posting' = IF call.status = "Paid"
                      THEN [posting EXCEPT ![call.claim] = [s \in Posted |-> @[s] + 1]]
                      ELSE IF call.status = "Approved"
                      THEN [posting EXCEPT ![call.claim]["Approved"] = @ + 1]
                      ELSE posting
        /\ Goto(h, "audit")
        /\ UNCHANGED <<claim, journal, audit, crashes>>

\* The events: an approved and a paid claim start the finance listener.
Emit(h) ==
    LET call == handler[h]
    IN  /\ At(h, "emit")
        /\ posting' = IF call.status \in Posted
                      THEN [posting EXCEPT ![call.claim][call.status] = @ + 1]
                      ELSE posting
        /\ Goto(h, "audit")
        /\ UNCHANGED <<claim, journal, audit, crashes>>

\* reject: one update by id, whatever the status is.
Reject(h, c) ==
    /\ At(h, "idle")
    /\ claim[c] # NULL
    /\ claim' = [claim EXCEPT ![c].status = "Rejected"]
    /\ Begin(h, "audit", c, "Rejected")
    /\ UNCHANGED <<posting, journal, audit, crashes>>

SetReserve(c, reserve) ==
    /\ claim[c] # NULL
    /\ claim' = [claim EXCEPT ![c].reserve = reserve]
    /\ UNCHANGED <<posting, journal, audit, handler, crashes>>

\* AuditLogInterceptor, after the handler; a write that fails is swallowed.
WriteAudit(h) ==
    /\ At(h, "audit")
    /\ \/ audit' = audit \cup {<<handler[h].claim, handler[h].status>>}
       \/ UNCHANGED audit
    /\ Done(h)
    /\ UNCHANGED <<claim, posting, journal, crashes>>

\* A listener posts its entry, or is refused (the month is closed) unseen.
Listen(c, status) ==
    /\ posting[c][status] > 0
    /\ posting' = [posting EXCEPT ![c][status] = @ - 1]
    /\ \/ journal' = [journal EXCEPT ![c][status] = @ + 1]
       \/ UNCHANGED journal
    /\ UNCHANGED <<claim, audit, handler, crashes>>

\* The process restarts: calls and listeners in progress are gone.
Crash ==
    /\ crashes < MaxCrashes
    /\ crashes' = crashes + 1
    /\ handler' = [h \in Handlers |-> Idle]
    /\ posting' = None
    /\ UNCHANGED <<claim, journal, audit>>

Next ==
    \/ \E c \in Claims :
          \/ Create(c)
          \/ \E reserve \in Reserves : SetReserve(c, reserve)
          \/ \E status \in Posted : Listen(c, status)
    \/ \E h \in Handlers :
          \/ \E c \in Claims : Advance(h, c) \/ Reject(h, c)
          \/ WriteAdvance(h) \/ Emit(h) \/ WriteAudit(h)
    \/ Crash

Spec == Init /\ [][Next]_vars
-------------------------------------------------------------------------------
(* Properties.                                                              *)

\* Type invariant.
HandlerState ==
    [step: {"idle", "update", "emit", "audit"}, claim: Claims \cup {NULL},
     status: Statuses \cup {NULL}]
TypeOK ==
    /\ claim \in [Claims -> Row \cup {NULL}]
    /\ posting \in Counts /\ journal \in Counts
    /\ audit \subseteq Claims \X Statuses
    /\ handler \in [Handlers -> HandlerState]
    /\ crashes \in Nat

\* "Registered -> Under Review -> Approved -> Paid": a claim takes one step of
\* the workflow at a time and none back, unless it is rejected.
StepsInOrder ==
    [][\A c \in Claims :
         Status(c) # NULL /\ Status(c)' # Status(c)
           => Status(c)' \in NextOf(Status(c)) \cup {"Rejected"}]_vars

\* "Advancing a claim to Approved posted its own journal entry": at most one
\* expense and one payment per claim, over restarts too, and neither before
\* the claim has come so far.
EntriesOnce ==
    \A c \in Claims, s \in Posted :
        LET entries == journal[c][s] + posting[c][s]
        IN  /\ entries <= 1
            /\ entries = 1 => Status(c) \in {s, "Paid", "Rejected"}

\* The comment of recordInTransaction: the audit row of a claim approval
\* succeeds or fails together with the approval.
ApprovalsAudited ==
    \A c \in Claims : Status(c) = "Approved" => <<c, "Approved">> \in audit
===============================================================================
