------------------------------- MODULE Payments -------------------------------
(***************************************************************************)
(* Premium payments and marketer wallets: the request handlers of          *)
(* PaymentsController.post and .reverse with the idempotency interceptor   *)
(* in front of them, the two database transactions, the work started but   *)
(* not awaited (cache write, audit row, event listeners), and the          *)
(* allocations and deposits of WalletsService.                             *)
(*                                                                         *)
(* Tables are sequences of rows in insertion order, so the id of a row is  *)
(* its position.  A transaction is one step; every await outside one ends  *)
(* a step.  A client (the marketer's offline queue) repeats a request with *)
(* the same key until it has an answer, and may have several requests of   *)
(* one key in flight.  The node process may crash between any two steps.   *)
(***************************************************************************)
EXTENDS Integers, Sequences, FiniteSets, Functions

CONSTANTS
    Handlers,    \* requests the server works on at the same time
    Keys,        \* idempotency keys the clients send
    Policies,
    Marketers,
    Listeners,   \* listeners of the PaymentPosted event
    Dto,         \* [Keys -> PaymentRequest]: the payment a key stands for
    Amounts,     \* amounts finance allocates and banks confirm
    NULL,
    MaxFaults,   \* bound: crashes and lost replies
    MaxOffice    \* bound: allocations and deposits

CashMethods == {"Token Field Collection", "Cash Office Payment"}
Methods == CashMethods \cup {"Mobile Money"}

PaymentRequest ==
    [policy: Policies, amount: Nat \ {0}, method: Methods,
     marketer: Marketers \cup {NULL}]

ASSUME PaymentsAssumption ==
    /\ Dto \in [Keys -> PaymentRequest]
    /\ Amounts \subseteq Nat \ {0}
    /\ NULL \notin Keys \cup Policies \cup Marketers
    /\ {"cache", "audit"} \cap Listeners = {}
    /\ MaxFaults \in Nat
    /\ MaxOffice \in Nat

VARIABLES
    policyStatus,  \* policies.status: "Cancelled", or "Active" for all others
    payments,      \* table payments
    wallet,        \* table wallet_transactions
    audit,         \* table audit_logs, as the set of what was recorded
    effects,       \* per listener: the payment ids it has recorded, in order
    cache,         \* Redis: the payment id replied for a key, 0 if absent
    handler,       \* what each request handler is doing
    background,    \* work started and not awaited; dies with the process
    client,        \* per key: "queued", "acked" or "refused"
    reply,         \* per key: payment id of the last reply received, 0 if none
    faults

tables == <<payments, wallet, audit, effects>>
clientVars == <<client, reply>>
vars == <<tables, policyStatus, cache, handler, background, clientVars, faults>>
-------------------------------------------------------------------------------
(* Rows.  The unique index is on idempotencyKey; a reversal has a key of    *)
(* its own, made from the id of the original.                               *)

ClientKey(k) == [kind |-> "client", of |-> k]
ReversalKey(i) == [kind |-> "reversal", of |-> i]
KeyColumn == [kind: {"client"}, of: Keys] \cup [kind: {"reversal"}, of: Nat]

PaymentRow ==
    [idempotencyKey: KeyColumn, policy: Policies \cup {NULL}, amount: Int,
     method: Methods, marketer: Marketers \cup {NULL},
     reversalStatus: {"None", "Reversed"}, reversalOf: Nat]

WalletRow ==
    [type: {"Allocation", "CashCollectionPosted", "DepositConfirmed"},
     marketer: Marketers, amount: Nat, reference: Nat]

NewPayment(k) ==
    [idempotencyKey |-> ClientKey(k), policy |-> Dto[k].policy,
     amount |-> Dto[k].amount, method |-> Dto[k].method,
     marketer |-> Dto[k].marketer, reversalStatus |-> "None", reversalOf |-> 0]

\* Fault: the reversal does not name its original.
UnlinkedReversal(row, i) ==
    [idempotencyKey |-> ReversalKey(i), policy |-> NULL,
     amount |-> -row.amount, method |-> row.method, marketer |-> row.marketer,
     reversalStatus |-> row.reversalStatus, reversalOf |-> NULL]

\* ...original, with its own key and the amount negated.  The original was
\* read without its relations, so the new row belongs to no policy.
ReversalRow(row, i) ==
    [idempotencyKey |-> ReversalKey(i), policy |-> NULL,
     amount |-> -row.amount, method |-> row.method, marketer |-> row.marketer,
     reversalStatus |-> row.reversalStatus, reversalOf |-> i]

UniqueIndexHas(key) ==
    \E i \in DOMAIN payments : payments[i].idempotencyKey = key
IdOfKey(key) ==
    CHOOSE i \in DOMAIN payments : payments[i].idempotencyKey = key
IsReversal(i) == payments[i].reversalOf # 0

CollectsCash(row) == row.method \in CashMethods /\ row.marketer # NULL
CashRow(row, i) ==
    [type |-> "CashCollectionPosted", marketer |-> row.marketer,
     amount |-> row.amount, reference |-> i]
-------------------------------------------------------------------------------
(* Handlers and the work they leave behind.                                 *)

Steps == {"idle", "lookup", "find", "policy", "insert", "emit", "respond",
          "replay", "reverse"}
Idle == [step |-> "idle", key |-> NULL, id |-> 0, row |-> NULL]
HandlerState ==
    [step: Steps, key: Keys \cup {NULL}, id: Nat, row: PaymentRow \cup {NULL}]

At(h, step) == handler[h].step = step
Goto(h, step, i) == handler' = [handler EXCEPT ![h].step = step, ![h].id = i]
Done(h) == handler' = [handler EXCEPT ![h] = Idle]

Tasks == [kind: {"cache", "audit"} \cup Listeners, payment: Nat]
AuditRow ==
    [action: {"payment.posted", "payment.reversed", "wallet.moved"}, entity: Nat]

Start(kinds, i) ==
    background' = background \cup {[kind |-> t, payment |-> i] : t \in kinds}
Finish(kind, i) ==
    /\ [kind |-> kind, payment |-> i] \in background
    /\ background' = background \ {[kind |-> kind, payment |-> i]}

Init ==
    /\ policyStatus = [p \in Policies |-> "Active"]
    /\ payments = << >>
    /\ wallet = << >>
    /\ audit = {}
    /\ effects = [l \in Listeners |-> << >>]
    /\ cache = [k \in Keys |-> 0]
    /\ handler = [h \in Handlers |-> Idle]
    /\ background = {}
    /\ client = [k \in Keys |-> "queued"]
    /\ reply = [k \in Keys |-> 0]
    /\ faults = 0
-------------------------------------------------------------------------------
(* POST /payments                                                           *)

\* The client sends the request, again if it has had no answer yet.
Submit(h, k) ==
    /\ client[k] = "queued"
    /\ At(h, "idle")
    /\ handler' = [handler EXCEPT ![h] = [Idle EXCEPT !.step = "lookup", !.key = k]]
    /\ UNCHANGED <<tables, policyStatus, cache, background, clientVars, faults>>

\* IdempotencyInterceptor: a cached response is replayed without the handler.
CacheLookup(h) ==
    LET hit == cache[handler[h].key]
    IN  /\ At(h, "lookup")
        /\ Goto(h, IF hit # 0 THEN "replay" ELSE "find", hit)
        /\ UNCHANGED <<tables, policyStatus, cache, background, clientVars, faults>>

\* Faults: the newest payment is taken for the existing one; it is not looked for.
FindNewest(h) ==
    /\ At(h, "find")
    /\ IF UniqueIndexHas(ClientKey(handler[h].key))
       THEN Goto(h, "respond", Len(payments))
       ELSE Goto(h, "policy", 0)
    /\ UNCHANGED <<tables, policyStatus, cache, background, clientVars, faults>>
FindNothing(h) ==
    /\ At(h, "find")
    /\ Goto(h, "policy", 0)
    /\ UNCHANGED <<tables, policyStatus, cache, background, clientVars, faults>>

\* postPayment: a payment that has the key is returned as it is.
FindExisting(h) ==
    LET key == ClientKey(handler[h].key)
    IN  /\ At(h, "find")
        /\ IF UniqueIndexHas(key)
           THEN Goto(h, "respond", IdOfKey(key))
           ELSE Goto(h, "policy", 0)
        /\ UNCHANGED <<tables, policyStatus, cache, background, clientVars, faults>>

\* postPayment: a cancelled policy refuses the payment with a 400.
CheckPolicy(h) ==
    LET k == handler[h].key
    IN  /\ At(h, "policy")
        /\ IF policyStatus[Dto[k].policy] = "Cancelled"
           THEN /\ Done(h)
                /\ client' = [client EXCEPT ![k] = IF @ = "queued" THEN "refused" ELSE @]
           ELSE /\ Goto(h, "insert", 0)
                /\ UNCHANGED client
        /\ UNCHANGED <<tables, policyStatus, cache, background, reply, faults>>

\* Faults: no unique index; the wallet row outside the transaction.
InsertWithoutIndex(h) ==
    LET row == NewPayment(handler[h].key)
        id == Len(payments) + 1
    IN  /\ At(h, "insert")
        /\ Goto(h, "emit", id)
        /\ payments' = Append(payments, row)
        /\ wallet' = IF CollectsCash(row) THEN Append(wallet, CashRow(row, id)) ELSE wallet
        /\ UNCHANGED <<audit, effects, policyStatus, cache, background, clientVars, faults>>
InsertInTwo(h) ==
    LET row == NewPayment(handler[h].key)
        id == Len(payments) + 1
    IN  /\ At(h, "insert")
        /\ wallet' = IF CollectsCash(row) THEN Append(wallet, CashRow(row, id)) ELSE wallet
        /\ IF UniqueIndexHas(row.idempotencyKey)
           THEN Done(h) /\ UNCHANGED payments
           ELSE Goto(h, "emit", id) /\ payments' = Append(payments, row)
        /\ UNCHANGED <<audit, effects, policyStatus, cache, background, clientVars, faults>>

\* The transaction: the payment row and, for cash taken by a marketer, his
\* wallet row.  The unique index aborts it (a 500) if the key has arrived.
Insert(h) ==
    LET row == NewPayment(handler[h].key)
        id == Len(payments) + 1
    IN  /\ At(h, "insert")
        /\ IF UniqueIndexHas(row.idempotencyKey)
           THEN /\ Done(h)
                /\ UNCHANGED <<payments, wallet>>
           ELSE /\ Goto(h, "emit", id)
                /\ payments' = Append(payments, row)
                /\ wallet' = IF CollectsCash(row) THEN Append(wallet, CashRow(row, id))
                                                  ELSE wallet
        /\ UNCHANGED <<audit, effects, policyStatus, cache, background,
                       clientVars, faults>>

\* eventEmitter.emit starts the listeners and does not wait for them.
Emit(h) ==
    /\ At(h, "emit")
    /\ Start(Listeners, handler[h].id)
    /\ Goto(h, "respond", handler[h].id)
    /\ UNCHANGED <<tables, policyStatus, cache, clientVars, faults>>

\* The response leaves; the interceptors write the cache (not for a replay)
\* and the audit row without holding it back.  The network may lose it.
Respond(h) ==
    LET k == handler[h].key
    IN  /\ \/ At(h, "respond") /\ Start({"cache", "audit"}, handler[h].id)
           \/ At(h, "replay") /\ Start({"audit"}, handler[h].id)
        /\ Done(h)
        /\ \/ /\ client' = [client EXCEPT ![k] = "acked"]
              /\ reply' = [reply EXCEPT ![k] = handler[h].id]
              /\ UNCHANGED faults
           \/ /\ faults < MaxFaults
              /\ faults' = faults + 1
              /\ UNCHANGED clientVars
        /\ UNCHANGED <<tables, policyStatus, cache>>
-------------------------------------------------------------------------------
(* POST /payments/:id/reverse                                               *)

ReadOriginal(h, i) ==
    /\ At(h, "idle")
    /\ handler' = [handler EXCEPT ![h] = [step |-> "reverse", key |-> NULL, id |-> i,
                                          row |-> payments[i]]]
    /\ UNCHANGED <<tables, policyStatus, cache, background, clientVars, faults>>

\* Fault: the original's amount is cleared.
ReverseInPlace(h) ==
    LET i == handler[h].id
        row == ReversalRow(handler[h].row, i)
    IN  /\ At(h, "reverse")
        /\ Done(h)
        /\ IF UniqueIndexHas(row.idempotencyKey) \/ handler[h].row.amount < 0
           THEN UNCHANGED <<payments, background>>
           ELSE /\ payments' = Append([payments EXCEPT ![i].reversalStatus = "Reversed",
                                                       ![i].amount = 0], row)
                /\ Start({"audit"}, Len(payments) + 1)
        /\ UNCHANGED <<wallet, audit, effects, policyStatus, cache, clientVars, faults>>

\* One transaction: the original is marked, the offsetting row inserted.  It
\* aborts when the reversal key exists, and for a reversal row, whose
\* amount would become "--n".
Reverse(h) ==
    LET i == handler[h].id
        row == ReversalRow(handler[h].row, i)
    IN  /\ At(h, "reverse")
        /\ Done(h)
        /\ IF UniqueIndexHas(row.idempotencyKey) \/ handler[h].row.amount < 0
           THEN UNCHANGED <<payments, background>>
           ELSE /\ payments' = Append([payments EXCEPT ![i].reversalStatus = "Reversed"], row)
                /\ Start({"audit"}, Len(payments) + 1)
        /\ UNCHANGED <<wallet, audit, effects, policyStatus, cache,
                       clientVars, faults>>
-------------------------------------------------------------------------------
(* Work that nobody waits for.                                              *)

CacheWrite(i) ==
    /\ Finish("cache", i)
    /\ cache' = [cache EXCEPT ![payments[i].idempotencyKey.of] = i]
    /\ UNCHANGED <<tables, policyStatus, handler, clientVars, faults>>

\* AuditLogInterceptor, for both routes; AuditService.record swallows the
\* error of a write that fails.
AuditOf(i) ==
    [action |-> IF IsReversal(i) THEN "payment.reversed" ELSE "payment.posted",
     entity |-> i]
AuditWrite(i) ==
    /\ Finish("audit", i)
    /\ \/ audit' = audit \cup {AuditOf(i)}
       \/ UNCHANGED audit
    /\ UNCHANGED <<payments, wallet, effects, policyStatus, cache, handler,
                   clientVars, faults>>

\* A listener records the payment, or fails and nobody is told: the finance
\* entry is dated today and is refused when today's period is closed.
Listen(l, i) ==
    /\ Finish(l, i)
    /\ \/ effects' = [effects EXCEPT ![l] = Append(@, i)]
       \/ UNCHANGED effects
    /\ UNCHANGED <<payments, wallet, audit, policyStatus, cache, handler,
                   clientVars, faults>>
-------------------------------------------------------------------------------
(* WalletsService.  The audit row is written in the same transaction.       *)

OfficeMoves == {i \in DOMAIN wallet : wallet[i].type # "CashCollectionPosted"}

WalletMove(type, m, a) ==
    /\ Cardinality(OfficeMoves) < MaxOffice
    /\ wallet' = Append(wallet, [type |-> type, marketer |-> m, amount |-> a,
                                 reference |-> 0])
    /\ audit' = audit \cup {[action |-> "wallet.moved", entity |-> Len(wallet) + 1]}
    /\ UNCHANGED <<payments, effects, policyStatus, cache, handler,
                   background, clientVars, faults>>

Allocate(m, a) == WalletMove("Allocation", m, a)
ConfirmDeposit(m, a) == WalletMove("DepositConfirmed", m, a)

\* getBalance: sums over the ledger, nothing is stored.
Total(type, m) ==
    LET rows == {i \in DOMAIN wallet : wallet[i].type = type /\ wallet[i].marketer = m}
    IN  SumFunction([i \in rows |-> wallet[i].amount])
\* Fault: banked cash, not collected cash, taken from the balance.
BalanceOfDeposits(m) == Total("Allocation", m) - Total("DepositConfirmed", m)

Balance(m) == Total("Allocation", m) - Total("CashCollectionPosted", m)
CashLiability(m) == Total("CashCollectionPosted", m) - Total("DepositConfirmed", m)

\* getPaymentsByMonthForPolicy, of one month: the rows with the policy's id.
PaidForPolicy(p) ==
    SumFunction([i \in {j \in DOMAIN payments : payments[j].policy = p} |->
                    payments[i].amount])
-------------------------------------------------------------------------------
(* The rest of the system, and what can go wrong.                           *)

\* editFields of PoliciesService may set any status.
SetPolicyStatus(p) ==
    /\ policyStatus' = [policyStatus EXCEPT ![p] =
                          IF @ = "Active" THEN "Cancelled" ELSE "Active"]
    /\ UNCHANGED <<tables, cache, handler, background, clientVars, faults>>

\* The cache entry reaches its 24 hours, or Redis loses it.
Expire(k) ==
    /\ cache[k] # 0
    /\ cache' = [cache EXCEPT ![k] = 0]
    /\ UNCHANGED <<tables, policyStatus, handler, background, clientVars, faults>>

\* The process restarts: requests and unawaited work are gone, PostgreSQL
\* and Redis stay.
Crash ==
    /\ faults < MaxFaults
    /\ faults' = faults + 1
    /\ handler' = [h \in Handlers |-> Idle]
    /\ background' = {}
    /\ UNCHANGED <<tables, policyStatus, cache, clientVars>>
-------------------------------------------------------------------------------
HandlerStep(h) ==
    \/ CacheLookup(h)
    \/ FindExisting(h)
    \/ CheckPolicy(h)
    \/ Insert(h)
    \/ Emit(h)
    \/ Respond(h)
    \/ Reverse(h)

BackgroundStep(i) ==
    \/ CacheWrite(i)
    \/ AuditWrite(i)
    \/ \E l \in Listeners : Listen(l, i)

OfficeStep ==
    \/ \E m \in Marketers, a \in Amounts : Allocate(m, a) \/ ConfirmDeposit(m, a)
    \/ \E h \in Handlers, i \in DOMAIN payments : ReadOriginal(h, i)
    \/ \E p \in Policies : SetPolicyStatus(p)

Next ==
    \/ \E h \in Handlers, k \in Keys : Submit(h, k)
    \/ \E h \in Handlers : HandlerStep(h)
    \/ \E i \in DOMAIN payments : BackgroundStep(i)
    \/ OfficeStep
    \/ \E k \in Keys : Expire(k)
    \/ Crash

Spec == Init /\ [][Next]_vars

\* Node runs every started request and every started listener to its end;
\* a queued payment is sent again until it is answered.  Nothing obliges the
\* office to act, the cache to expire or the process to crash.
Fairness ==
    /\ \A h \in Handlers : WF_vars(HandlerStep(h))
    /\ WF_vars(\E i \in DOMAIN payments : BackgroundStep(i))
    /\ \A k \in Keys : SF_vars(\E h \in Handlers : Submit(h, k))

FairSpec == Spec /\ Fairness
-------------------------------------------------------------------------------
(* Properties.                                                              *)

\* Type invariant.
TypeOK ==
    /\ policyStatus \in [Policies -> {"Active", "Cancelled"}]
    /\ payments \in Seq(PaymentRow)
    /\ wallet \in Seq(WalletRow)
    /\ audit \subseteq AuditRow
    /\ effects \in [Listeners -> Seq(Nat)]
    /\ cache \in [Keys -> Nat]
    /\ handler \in [Handlers -> HandlerState]
    /\ background \subseteq Tasks
    /\ client \in [Keys -> {"queued", "acked", "refused"}]
    /\ reply \in [Keys -> Nat]
    /\ faults \in Nat

\* postPayment looks for the key, awaits the policy and only then inserts, so
\* two retries of one key can both get past the look-up: at most one row has it.
OnePaymentPerKey ==
    \A i, j \in DOMAIN payments :
        payments[i].idempotencyKey = payments[j].idempotencyKey => i = j

\* "Either both exist or neither does": the collection rows of the wallets
\* are, one for one, the cash rows of the payments made through a marketer.
Collections == {i \in DOMAIN wallet : wallet[i].type = "CashCollectionPosted"}
WalletMatchesPayments ==
    /\ \A i \in DOMAIN payments :
          ~IsReversal(i) /\ CollectsCash(payments[i])
            => \E w \in Collections : wallet[w] = CashRow(payments[i], i)
    /\ \A w \in Collections :
          LET i == wallet[w].reference
          IN  /\ i \in DOMAIN payments
              /\ ~IsReversal(i) /\ CollectsCash(payments[i])
              /\ wallet[w] = CashRow(payments[i], i)
    /\ \A v, w \in Collections : wallet[v].reference = wallet[w].reference => v = w

\* A reply, from the handler or from the cache, that a client has received is
\* the committed payment of its own key, whatever retries, restarts and
\* expiries came between: "returned the identical payment record".
AckedIsPosted ==
    \A k \in Keys : reply[k] # 0 =>
        /\ reply[k] \in DOMAIN payments
        /\ payments[reply[k]].idempotencyKey = ClientKey(k)

\* No later reply for a key names another payment than an earlier one did.
ReplyStable == [][\A k \in Keys : reply[k] # 0 => reply'[k] = reply[k]]_vars

\* A receipt or journal entry is made for a committed payment of a client and
\* at most once for each, although the posting request is repeated.
EffectsFollowCommit ==
    \A l \in Listeners :
        /\ \A n \in DOMAIN effects[l] :
              /\ effects[l][n] \in DOMAIN payments
              /\ ~IsReversal(effects[l][n])
        /\ \A m, n \in DOMAIN effects[l] : effects[l][m] = effects[l][n] => m = n

\* Two officers may reverse the same payment at the same time: a payment is
\* marked reversed exactly when one row takes back exactly its amount.
ReversedOnce ==
    \A i \in DOMAIN payments :
        LET offsets == {j \in DOMAIN payments : payments[j].reversalOf = i}
        IN  IF payments[i].reversalStatus = "Reversed"
            THEN \E j \in offsets : /\ offsets = {j}
                                    /\ payments[j].amount = -payments[i].amount
                                    /\ ~IsReversal(i)
            ELSE offsets = {}

\* What belongs to a payment follows its row, and only once: its wallet row is
\* committed with it, its event and its listeners' work come after the commit,
\* and it is offset by one reversal at most - retries and restarts included.
EffectsOnce == WalletMatchesPayments /\ EffectsFollowCommit /\ ReversedOnce

\* "The original payment is never edited or deleted": only the mark changes.
RowsNeverEdited ==
    [][\A i \in DOMAIN payments :
         /\ i \in DOMAIN payments'
         /\ payments'[i] \in {payments[i],
                              [payments[i] EXCEPT !.reversalStatus = "Reversed"]}]_vars

\* A queued payment is eventually answered, through lost replies, restarts
\* and conflicts with its own retries.
Answered == \A k \in Keys : client[k] = "queued" ~> client[k] # "queued"

\* The rows refine a ledger that knows keys and balances only.
Charge ==
    [k \in Keys |->
       IF CollectsCash(NewPayment(k))
       THEN [marketer |-> Dto[k].marketer, amount |-> Dto[k].amount]
       ELSE [marketer |-> NULL, amount |-> 0]]
PaidKeys == {k \in Keys : UniqueIndexHas(ClientKey(k))}
RefundedKeys ==
    {k \in PaidKeys : payments[IdOfKey(ClientKey(k))].reversalStatus = "Reversed"}

Ledger == INSTANCE PaymentLedger WITH
    paid <- PaidKeys,
    refunded <- RefundedKeys,
    tokens <- [m \in Marketers |-> Balance(m)],
    owed <- [m \in Marketers |-> CashLiability(m)]

ImplementsLedger == Ledger!LedgerSpec

\* The comment of getPaymentsByMonthForPolicy: the reversals are in the sum, as
\* negative amounts, so what a policy has paid is the total of the payments
\* posted to it, by clients and not by reversals, that no reversal offsets.
PaidIsNetOfReversals ==
    \A p \in Policies :
        LET standing == {i \in DOMAIN payments :
                            /\ payments[i].policy = p
                            /\ ~IsReversal(i)
                            /\ payments[i].reversalStatus = "None"}
        IN  PaidForPolicy(p) =
                SumFunction([i \in standing |-> payments[i].amount])

\* The message of the cancelled-policy check: no payment is posted against a
\* policy once it is cancelled.
NoPaymentOnCancelled ==
    [][\A i \in DOMAIN payments' \ DOMAIN payments :
         payments'[i].policy # NULL
           => policyStatus[payments'[i].policy] # "Cancelled"]_vars

\* The comment of recordInTransaction: the audit row of a reversal succeeds or
\* fails together with the reversal.
ReversalsAudited ==
    \A i \in DOMAIN payments : IsReversal(i) => AuditOf(i) \in audit
===============================================================================
