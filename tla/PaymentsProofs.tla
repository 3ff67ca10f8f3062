---------------------------- MODULE PaymentsProofs ----------------------------
(***************************************************************************)
(* Proofs about Payments, for every set of handlers, keys and listeners    *)
(* and every bound.  The inductive invariant says what each place that     *)
(* remembers a payment id (a handler, the cache, unawaited work, a reply)  *)
(* may assume about the row of that id.  The second part adds what belongs *)
(* to a payment, the wallet row, the listeners' records and the reversal:  *)
(* what the rows say of one another, what a handler that is about to       *)
(* reverse remembers of its row, and that an event is pending in one place *)
(* only.  The third proves that Payments implements PaymentLedger.         *)
(***************************************************************************)
EXTENDS Payments, Sums

\* The two kinds of idempotency key are keys, and no key has both kinds.
LEMMA KeysType ==
    /\ \A k \in Keys : ClientKey(k) \in KeyColumn
    /\ \A i \in Nat : ReversalKey(i) \in KeyColumn
    /\ \A k \in Keys, i \in Nat : ClientKey(k) # ReversalKey(i)
    /\ \A k, l \in Keys : ClientKey(k) = ClientKey(l) => k = l
    /\ \A i, j \in Nat : ReversalKey(i) = ReversalKey(j) => i = j
  BY DEF ClientKey, ReversalKey, KeyColumn

\* The row of a request is a payment row with the key of the request.
LEMMA NewPaymentType ==
    ASSUME NEW k \in Keys
    PROVE  /\ NewPayment(k) \in PaymentRow
           /\ NewPayment(k).idempotencyKey = ClientKey(k)
  <1>1. Dto[k] \in PaymentRequest
    BY PaymentsAssumption DEF PaymentsAssumption
  <1>2. ClientKey(k) \in KeyColumn
    BY KeysType
  <1>3. QED
    BY <1>1, <1>2 DEF NewPayment, PaymentRow, PaymentRequest

\* The offsetting row of a payment row is a payment row.
LEMMA ReversalRowType ==
    ASSUME NEW row \in PaymentRow, NEW i \in Nat
    PROVE  /\ ReversalRow(row, i) \in PaymentRow
           /\ ReversalRow(row, i).idempotencyKey = ReversalKey(i)
  <1>1. ReversalKey(i) \in KeyColumn
    BY KeysType
  <1>2. -row.amount \in Int
    BY DEF PaymentRow
  <1>3. QED
    BY <1>1, <1>2 DEF ReversalRow, PaymentRow

-------------------------------------------------------------------------------
(* Type correctness.                                                        *)

\* An idle handler is a handler state.
LEMMA IdleType == Idle \in HandlerState
  BY DEF Idle, HandlerState, Steps

\* Moving a handler to another step, with an id, keeps its type.
LEMMA HandlerType ==
    ASSUME NEW s \in HandlerState, NEW step \in Steps, NEW i \in Nat
    PROVE  [s EXCEPT !.step = step, !.id = i] \in HandlerState
  BY DEF HandlerState

\* Goto and Done keep the type of the handlers.
LEMMA GotoType ==
    ASSUME TypeOK, NEW h \in Handlers, NEW step \in Steps, NEW i \in Nat,
           Goto(h, step, i)
    PROVE  handler' \in [Handlers -> HandlerState]
  BY HandlerType DEF Goto, TypeOK

\* A handler that has replied is idle and the others keep their type.
LEMMA DoneType ==
    ASSUME TypeOK, NEW h \in Handlers, Done(h)
    PROVE  handler' \in [Handlers -> HandlerState]
  BY IdleType DEF Done, TypeOK

\* Marking a payment row as reversed keeps the type of the table.
LEMMA MarkType ==
    ASSUME NEW rows \in Seq(PaymentRow), NEW i \in DOMAIN rows
    PROVE  [rows EXCEPT ![i].reversalStatus = "Reversed"] \in Seq(PaymentRow)
  <1>1. ASSUME NEW row \in PaymentRow
        PROVE  [row EXCEPT !.reversalStatus = "Reversed"] \in PaymentRow
    BY Zenon DEF PaymentRow
  <1>2. QED
    BY <1>1

-------------------------------------------------------------------------------
(* The inductive invariant of posting.                                      *)

PostedAs(i, k) ==
    /\ i \in DOMAIN payments
    /\ payments[i].idempotencyKey = ClientKey(k)

\* A handler of a request holds its key, and after the look-up or the insert
\* the id of the row with that key; a reversal holds a row of the table.
HandlerOK(s) ==
    /\ s.step \notin {"idle", "reverse"} => s.key \in Keys
    /\ s.step \in {"emit", "respond", "replay"} => PostedAs(s.id, s.key)
    /\ s.step = "reverse" => /\ s.id \in DOMAIN payments
                             /\ s.row \in PaymentRow
HandlersOK == \A h \in Handlers : HandlerOK(handler[h])

\* What Redis holds for a key is the id of the row with that key.
CacheOK == \A k \in Keys : cache[k] # 0 => PostedAs(cache[k], k)

\* Unawaited work is about committed rows; a response is cached for a key.
BackgroundOK ==
    \A t \in background :
        /\ t.payment \in DOMAIN payments
        /\ t.kind = "cache" => \E k \in Keys : PostedAs(t.payment, k)

PostingInv ==
    /\ TypeOK
    /\ OnePaymentPerKey
    /\ AckedIsPosted
    /\ HandlersOK
    /\ CacheOK
    /\ BackgroundOK

\* What a look-up by key returns.
LEMMA IdOfKeyFound ==
    ASSUME NEW key, UniqueIndexHas(key)
    PROVE  /\ IdOfKey(key) \in DOMAIN payments
           /\ payments[IdOfKey(key)].idempotencyKey = key
  BY DEF UniqueIndexHas, IdOfKey

\* Rows are never removed and keep everything but the reversal mark.
Grown ==
    \A i \in DOMAIN payments :
        /\ i \in DOMAIN payments'
        /\ payments'[i].idempotencyKey = payments[i].idempotencyKey

\* A function updated at one argument keeps its type.
LEMMA ExceptType ==
    ASSUME NEW S, NEW T, NEW f \in [S -> T], NEW x, NEW v \in T
    PROVE  [f EXCEPT ![x] = v] \in [S -> T]
  OBVIOUS

\* Appending a row keeps the type of a table and the rows it has.
LEMMA AppendKeeps ==
    ASSUME NEW S, NEW rows \in Seq(S), NEW row \in S
    PROVE  /\ Append(rows, row) \in Seq(S)
           /\ DOMAIN Append(rows, row) = DOMAIN rows \cup {Len(rows) + 1}
           /\ Len(rows) + 1 \notin DOMAIN rows
           /\ \A i \in DOMAIN rows : Append(rows, row)[i] = rows[i]
           /\ Append(rows, row)[Len(rows) + 1] = row
  OBVIOUS

\* What the two transactions do to the table: nothing, or one row at the end.
LEMMA InsertShape ==
    ASSUME TypeOK, HandlersOK, NEW h \in Handlers, Insert(h)
    PROVE  /\ handler[h].key \in Keys
           /\ \/ UNCHANGED payments
              \/ /\ ~UniqueIndexHas(ClientKey(handler[h].key))
                 /\ DOMAIN payments' = DOMAIN payments \cup {Len(payments) + 1}
                 /\ Len(payments) + 1 \in Nat \ DOMAIN payments
                 /\ \A j \in DOMAIN payments : payments'[j] = payments[j]
                 /\ payments'[Len(payments) + 1] = NewPayment(handler[h].key)
           /\ payments' \in Seq(PaymentRow)
  <1>1. /\ handler[h].key \in Keys
        /\ payments \in Seq(PaymentRow)
    BY DEF HandlersOK, HandlerOK, TypeOK, Insert, At
  <1>2. /\ NewPayment(handler[h].key) \in PaymentRow
        /\ NewPayment(handler[h].key).idempotencyKey = ClientKey(handler[h].key)
    BY <1>1, NewPaymentType
  <1>3. CASE payments' = payments
    BY <1>1, <1>3
  <1>4. CASE /\ ~UniqueIndexHas(ClientKey(handler[h].key))
             /\ payments' = Append(payments, NewPayment(handler[h].key))
    BY <1>1, <1>2, <1>4, AppendKeeps
  <1>5. QED
    BY <1>1, <1>2, <1>3, <1>4 DEF Insert

\* The transaction of reverse changes nothing, or marks the original and adds
\* the offsetting row under a key the table has not.
LEMMA ReverseShape ==
    ASSUME TypeOK, HandlersOK, NEW h \in Handlers, Reverse(h)
    PROVE  /\ handler[h].id \in DOMAIN payments
           /\ handler[h].row \in PaymentRow
           /\ \/ UNCHANGED payments /\ UNCHANGED background
              \/ /\ ~UniqueIndexHas(ReversalKey(handler[h].id))
                 /\ handler[h].row.amount >= 0
                 /\ DOMAIN payments' = DOMAIN payments \cup {Len(payments) + 1}
                 /\ Len(payments) + 1 \in Nat \ DOMAIN payments
                 /\ \A j \in DOMAIN payments :
                      payments'[j] = IF j = handler[h].id
                        THEN [payments[j] EXCEPT !.reversalStatus = "Reversed"]
                        ELSE payments[j]
                 /\ payments'[Len(payments) + 1] =
                      ReversalRow(handler[h].row, handler[h].id)
                 /\ Start({"audit"}, Len(payments) + 1)
           /\ payments' \in Seq(PaymentRow)
  <1> DEFINE i == handler[h].id
             marked == [payments EXCEPT ![i].reversalStatus = "Reversed"]
             row == ReversalRow(handler[h].row, i)
  <1>1. /\ i \in DOMAIN payments
        /\ i \in Nat
        /\ payments \in Seq(PaymentRow)
        /\ handler[h].row \in PaymentRow
    BY DEF HandlersOK, HandlerOK, TypeOK, Reverse, At
  <1>2. marked \in Seq(PaymentRow)
    BY <1>1, MarkType
  <1>3. /\ DOMAIN marked = DOMAIN payments
        /\ Len(marked) = Len(payments)
        /\ \A j \in DOMAIN payments :
             marked[j] = IF j = i THEN [payments[j] EXCEPT !.reversalStatus = "Reversed"]
                                  ELSE payments[j]
    BY <1>1
  <1>4. /\ row \in PaymentRow
        /\ row.idempotencyKey = ReversalKey(i)
    BY <1>1, ReversalRowType
  <1>5. CASE UNCHANGED payments /\ UNCHANGED background
    BY <1>1, <1>5
  <1>6. CASE /\ ~UniqueIndexHas(ReversalKey(i))
             /\ ~(handler[h].row.amount < 0)
             /\ payments' = Append(marked, row)
             /\ Start({"audit"}, Len(payments) + 1)
    <2>1. handler[h].row.amount >= 0
      BY <1>1, <1>6 DEF PaymentRow
    <2> HIDE DEF marked, row
    <2>2. /\ Append(marked, row) \in Seq(PaymentRow)
          /\ DOMAIN Append(marked, row) = DOMAIN marked \cup {Len(marked) + 1}
          /\ Len(marked) + 1 \notin DOMAIN marked
          /\ \A j \in DOMAIN marked : Append(marked, row)[j] = marked[j]
          /\ Append(marked, row)[Len(marked) + 1] = row
      BY <1>2, <1>4, AppendKeeps
    <2>3. payments' = Append(marked, row)
      BY <1>6
    <2>4. /\ payments' \in Seq(PaymentRow)
          /\ DOMAIN payments' = DOMAIN payments \cup {Len(payments) + 1}
          /\ Len(payments) + 1 \in Nat \ DOMAIN payments
          /\ payments'[Len(payments) + 1] = row
      BY <1>1, <1>3, <2>2, <2>3
    <2>5. \A j \in DOMAIN payments : payments'[j] = marked[j]
      BY <1>3, <2>2, <2>3
    <2>6. QED
      BY <1>1, <1>3, <1>6, <2>1, <2>4, <2>5 DEF row
  <1>7. QED
    BY <1>4, <1>5, <1>6 DEF Reverse

\* Every step keeps every variable in its type, given what handlers hold.
LEMMA TypeStep ==
    ASSUME TypeOK, HandlersOK, [Next]_vars
    PROVE  TypeOK'
  <1> USE DEF TypeOK
  <1>1. ASSUME NEW h \in Handlers, NEW k \in Keys, Submit(h, k)
        PROVE  TypeOK'
    BY <1>1, IdleType DEF Submit, tables, clientVars, Idle, HandlerState, Steps
  <1>2. ASSUME NEW h \in Handlers, CacheLookup(h)
        PROVE  TypeOK'
    <2>1. cache[handler[h].key] \in Nat
      BY <1>2 DEF CacheLookup, At, HandlersOK, HandlerOK
    <2>2. QED
      BY <1>2, <2>1, GotoType DEF CacheLookup, tables, clientVars, Steps
  <1>3. ASSUME NEW h \in Handlers, FindExisting(h)
        PROVE  TypeOK'
    <2>1. UniqueIndexHas(ClientKey(handler[h].key))
            => IdOfKey(ClientKey(handler[h].key)) \in Nat
      BY IdOfKeyFound
    <2>2. QED
      BY <1>3, <2>1, GotoType DEF FindExisting, tables, clientVars, Steps
  <1>4. ASSUME NEW h \in Handlers, CheckPolicy(h)
        PROVE  TypeOK'
    BY <1>4, GotoType, DoneType DEF CheckPolicy, tables, clientVars, Steps
  <1>5. ASSUME NEW h \in Handlers, Insert(h)
        PROVE  TypeOK'
    <2>1. /\ handler[h].key \in Keys
          /\ payments' \in Seq(PaymentRow)
      BY <1>5, InsertShape
    <2>2. wallet' \in Seq(WalletRow)
      <3>1. ASSUME CollectsCash(NewPayment(handler[h].key))
            PROVE  CashRow(NewPayment(handler[h].key), Len(payments) + 1) \in WalletRow
        BY <2>1, <3>1, PaymentsAssumption
        DEF PaymentsAssumption, PaymentRequest, CollectsCash, CashRow, NewPayment, WalletRow
      <3>2. wallet' = wallet \/
            /\ CollectsCash(NewPayment(handler[h].key))
            /\ wallet' = Append(wallet, CashRow(NewPayment(handler[h].key), Len(payments) + 1))
        BY <1>5 DEF Insert
      <3>3. wallet \in Seq(WalletRow)
        OBVIOUS
      <3>4. CASE /\ CollectsCash(NewPayment(handler[h].key))
                 /\ wallet' = Append(wallet, CashRow(NewPayment(handler[h].key), Len(payments) + 1))
        <4>1. CashRow(NewPayment(handler[h].key), Len(payments) + 1) \in WalletRow
          BY <3>1, <3>4
        <4>2. QED
          BY <3>3, <3>4, <4>1, AppendKeeps
      <3>5. QED
        BY <3>2, <3>3, <3>4
    <2>3. handler' \in [Handlers -> HandlerState]
      BY <1>5, GotoType, DoneType DEF Insert, Steps
    <2>4. QED
      BY <1>5, <2>1, <2>2, <2>3 DEF Insert, clientVars
  <1>6. ASSUME NEW h \in Handlers, Emit(h)
        PROVE  TypeOK'
    BY <1>6, GotoType DEF Emit, tables, clientVars, Steps, Start, Tasks, HandlerState
  <1>7. ASSUME NEW h \in Handlers, Respond(h)
        PROVE  TypeOK'
    <2>1. handler[h].key \in Keys /\ handler[h].id \in Nat
      BY <1>7 DEF Respond, At, HandlersOK, HandlerOK, HandlerState
    <2>2. background' \subseteq Tasks
      BY <1>7, <2>1 DEF Respond, Start, Tasks
    <2>3. /\ client' \in [Keys -> {"queued", "acked", "refused"}]
          /\ reply' \in [Keys -> Nat]
          /\ faults' \in Nat
      <3>1. \/ /\ client' = [client EXCEPT ![handler[h].key] = "acked"]
               /\ reply' = [reply EXCEPT ![handler[h].key] = handler[h].id]
               /\ UNCHANGED faults
            \/ faults' = faults + 1 /\ UNCHANGED clientVars
        BY <1>7 DEF Respond
      <3>2. /\ client \in [Keys -> {"queued", "acked", "refused"}]
            /\ reply \in [Keys -> Nat]
            /\ faults \in Nat
            /\ "acked" \in {"queued", "acked", "refused"}
        OBVIOUS
      <3>3. /\ [client EXCEPT ![handler[h].key] = "acked"]
                 \in [Keys -> {"queued", "acked", "refused"}]
            /\ [reply EXCEPT ![handler[h].key] = handler[h].id] \in [Keys -> Nat]
        BY <2>1, <3>2, ExceptType
      <3>4. CASE /\ client' = [client EXCEPT ![handler[h].key] = "acked"]
                 /\ reply' = [reply EXCEPT ![handler[h].key] = handler[h].id]
                 /\ UNCHANGED faults
        BY <3>2, <3>3, <3>4
      <3>5. CASE faults' = faults + 1 /\ UNCHANGED clientVars
        BY <3>2, <3>5 DEF clientVars
      <3>6. QED
        BY <3>1, <3>4, <3>5
    <2>4. handler' \in [Handlers -> HandlerState]
      BY <1>7, DoneType DEF Respond
    <2>5. QED
      BY <1>7, <2>2, <2>3, <2>4 DEF Respond, tables
  <1>8. ASSUME NEW h \in Handlers, NEW i \in DOMAIN payments, ReadOriginal(h, i)
        PROVE  TypeOK'
    <2>1. payments[i] \in PaymentRow /\ i \in Nat
      OBVIOUS
    <2>2. [step |-> "reverse", key |-> NULL, id |-> i, row |-> payments[i]]
            \in HandlerState
      BY <2>1, Zenon DEF Steps, HandlerState
    <2>3. QED
      BY <1>8, <2>2 DEF ReadOriginal, tables, clientVars
  <1>9. ASSUME NEW h \in Handlers, Reverse(h)
        PROVE  TypeOK'
    <2>1. payments' \in Seq(PaymentRow)
      BY <1>9, ReverseShape
    <2>2. background' \subseteq Tasks
      <3>1. \/ UNCHANGED background
            \/ Len(payments) + 1 \in Nat /\ Start({"audit"}, Len(payments) + 1)
        BY <1>9, ReverseShape
      <3>2. QED
        BY <3>1 DEF Start, Tasks
    <2>3. QED
      BY <1>9, <2>1, <2>2, DoneType DEF Reverse, clientVars
  <1>10. ASSUME NEW i \in DOMAIN payments, BackgroundStep(i)
         PROVE  TypeOK'
    <2>1. AuditOf(i) \in AuditRow
      BY DEF AuditOf, AuditRow
    <2>2. CASE CacheWrite(i)
      <3>1. cache' \in [Keys -> Nat]
        <4>1. i \in Nat /\ cache \in [Keys -> Nat]
          OBVIOUS
        <4>2. [cache EXCEPT ![payments[i].idempotencyKey.of] = i] \in [Keys -> Nat]
          BY <4>1, ExceptType
        <4>3. QED
          BY <2>2, <4>2 DEF CacheWrite
      <3>2. background' \subseteq Tasks
        BY <2>2 DEF CacheWrite, Finish
      <3>3. QED
        BY <2>2, <3>1, <3>2 DEF CacheWrite, tables, clientVars
    <2>3. CASE AuditWrite(i)
      <3>1. audit' \subseteq AuditRow
        BY <2>1, <2>3 DEF AuditWrite
      <3>2. background' \subseteq Tasks
        BY <2>3 DEF AuditWrite, Finish
      <3>3. QED
        BY <2>3, <3>1, <3>2 DEF AuditWrite, clientVars
    <2>4. CASE \E l \in Listeners : Listen(l, i)
      <3>1. PICK l \in Listeners : Listen(l, i)
        BY <2>4
      <3>2. effects' \in [Listeners -> Seq(Nat)]
        <4>1. Append(effects[l], i) \in Seq(Nat)
          OBVIOUS
        <4>2. QED
          BY <3>1, <4>1 DEF Listen
      <3>3. background' \subseteq Tasks
        BY <3>1 DEF Listen, Finish
      <3>4. QED
        BY <3>1, <3>2, <3>3 DEF Listen, clientVars
    <2>5. QED
      BY <1>10, <2>2, <2>3, <2>4 DEF BackgroundStep
  <1>11. ASSUME NEW m \in Marketers, NEW a \in Amounts,
                Allocate(m, a) \/ ConfirmDeposit(m, a)
         PROVE  TypeOK'
    <2>1. a \in Nat /\ Len(wallet) + 1 \in Nat
      BY PaymentsAssumption DEF PaymentsAssumption
    <2>2. PICK type \in {"Allocation", "DepositConfirmed"} : WalletMove(type, m, a)
      BY <1>11 DEF Allocate, ConfirmDeposit
    <2>3. [type |-> type, marketer |-> m, amount |-> a, reference |-> 0] \in WalletRow
      BY <2>1 DEF WalletRow
    <2>4. wallet' \in Seq(WalletRow)
      BY <2>2, <2>3 DEF WalletMove
    <2>5. audit' \subseteq AuditRow
      BY <2>1, <2>2 DEF WalletMove, AuditRow
    <2>6. QED
      BY <2>2, <2>4, <2>5 DEF WalletMove, clientVars
  <1>12. ASSUME NEW p \in Policies, SetPolicyStatus(p)
         PROVE  TypeOK'
    BY <1>12 DEF SetPolicyStatus, tables, clientVars
  <1>13. ASSUME NEW k \in Keys, Expire(k)
         PROVE  TypeOK'
    BY <1>13 DEF Expire, tables, clientVars
  <1>14. CASE Crash
    BY <1>14, IdleType DEF Crash, tables, clientVars
  <1>15. CASE UNCHANGED vars
    BY <1>15 DEF vars, tables, clientVars
  <1>16. QED
    BY <1>1, <1>2, <1>3, <1>4, <1>5, <1>6, <1>7, <1>8, <1>9, <1>10, <1>11,
       <1>12, <1>13, <1>14, <1>15
    DEF Next, HandlerStep, OfficeStep

\* No step removes a row or changes the key of one.
LEMMA GrownStep ==
    ASSUME TypeOK, HandlersOK, [Next]_vars
    PROVE  Grown
  <1>1. ASSUME NEW h \in Handlers, Insert(h)
        PROVE  Grown
    BY <1>1, InsertShape DEF Grown
  <1>2. ASSUME NEW h \in Handlers, Reverse(h)
        PROVE  Grown
    <2>1. \A j \in DOMAIN payments : payments[j] \in PaymentRow
      BY DEF TypeOK
    <2>2. ASSUME NEW row \in PaymentRow
          PROVE  [row EXCEPT !.reversalStatus = "Reversed"].idempotencyKey = row.idempotencyKey
      BY DEF PaymentRow
    <2>3. QED
      BY <1>2, <2>1, <2>2, ReverseShape DEF Grown
  <1>3. CASE UNCHANGED payments
    BY <1>3 DEF Grown
  <1>4. QED
    BY <1>1, <1>2, <1>3
    DEF Next, HandlerStep, OfficeStep, BackgroundStep, Submit, CacheLookup, FindExisting,
        CheckPolicy, Emit, Respond, ReadOriginal, CacheWrite, AuditWrite, Listen,
        Allocate, ConfirmDeposit, WalletMove, SetPolicyStatus, Expire, Crash, vars, tables

\* postPayment and reverse insert a row only under a key the table has not.
LEMMA OnePaymentPerKeyStep ==
    ASSUME TypeOK, HandlersOK, OnePaymentPerKey, [Next]_vars
    PROVE  OnePaymentPerKey'
  <1> USE DEF OnePaymentPerKey
  <1>1. ASSUME NEW n \in Nat \ DOMAIN payments, NEW key, ~UniqueIndexHas(key), Grown,
               DOMAIN payments' = DOMAIN payments \cup {n},
               payments'[n].idempotencyKey = key
        PROVE  OnePaymentPerKey'
    BY <1>1 DEF Grown, UniqueIndexHas
  <1>2. Grown
    BY GrownStep
  <1>3. ASSUME NEW h \in Handlers, Insert(h), payments' # payments
        PROVE  OnePaymentPerKey'
    BY <1>1, <1>2, <1>3, InsertShape, NewPaymentType
  <1>4. ASSUME NEW h \in Handlers, Reverse(h), payments' # payments
        PROVE  OnePaymentPerKey'
    <2>1. handler[h].id \in Nat /\ handler[h].row \in PaymentRow
      BY <1>4, ReverseShape DEF TypeOK
    <2>2. QED
      <3> DEFINE n == Len(payments) + 1
                 row == ReversalRow(handler[h].row, handler[h].id)
      <3>1. /\ ~UniqueIndexHas(ReversalKey(handler[h].id))
            /\ n \in Nat \ DOMAIN payments
            /\ DOMAIN payments' = DOMAIN payments \cup {n}
            /\ payments'[n] = row
        BY <1>4, ReverseShape
      <3>2. row.idempotencyKey = ReversalKey(handler[h].id)
        BY <2>1, ReversalRowType
      <3>3. QED
        BY <1>1, <1>2, <3>1, <3>2
  <1>5. CASE UNCHANGED payments
    BY <1>5
  <1>6. QED
    BY <1>3, <1>4, <1>5
    DEF Next, HandlerStep, OfficeStep, BackgroundStep, Submit, CacheLookup, FindExisting,
        CheckPolicy, Emit, Respond, ReadOriginal, CacheWrite, AuditWrite, Listen,
        Allocate, ConfirmDeposit, WalletMove, SetPolicyStatus, Expire, Crash, vars, tables

\* A row that is posted for a key before a step is so after it.
PostedNext(i, k) ==
    /\ i \in DOMAIN payments'
    /\ payments'[i].idempotencyKey = ClientKey(k)

\* A row posted for a key before a step is posted for it after the step.
LEMMA PostedStays ==
    ASSUME Grown, NEW i, NEW k, PostedAs(i, k)
    PROVE  PostedNext(i, k)
  BY DEF Grown, PostedAs, PostedNext

\* A step that moves one handler keeps what the others hold.
LEMMA OneHandler ==
    ASSUME HandlersOK, Grown, NEW h \in Handlers, HandlerOK(handler[h])',
           \A g \in Handlers \ {h} : handler'[g] = handler[g]
    PROVE  HandlersOK'
  <1>1. ASSUME NEW g \in Handlers \ {h}
        PROVE  HandlerOK(handler[g])'
    BY <1>1, PostedStays DEF HandlersOK, HandlerOK, Grown, PostedAs, PostedNext
  <1>2. QED
    BY <1>1 DEF HandlersOK

\* After the look-up or the insert a handler holds the row of its own key.
LEMMA HandlersStep ==
    ASSUME PostingInv, [Next]_vars
    PROVE  HandlersOK'
  <1> USE DEF PostingInv
  <1>1. Grown
    BY GrownStep
  <1>2. \A h \in Handlers : handler[h] \in HandlerState
    BY DEF TypeOK
  <1>3. ASSUME NEW h \in Handlers, Done(h)
        PROVE  HandlersOK'
    <2>1. HandlerOK(handler[h])'
      BY <1>3 DEF Done, TypeOK, Idle, HandlerOK
    <2>2. \A g \in Handlers \ {h} : handler'[g] = handler[g]
      BY <1>3 DEF Done, TypeOK
    <2>3. QED
      BY <1>1, <2>1, <2>2, OneHandler
  <1>4. ASSUME NEW h \in Handlers, NEW step \in Steps, NEW i, Goto(h, step, i),
               handler[h].key \in Keys, step # "reverse",
               step \in {"emit", "respond", "replay"} => PostedNext(i, handler[h].key)
        PROVE  HandlersOK'
    <2>1. /\ handler'[h].step = step
          /\ handler'[h].key = handler[h].key
          /\ handler'[h].id = i
      BY <1>2, <1>4 DEF Goto, TypeOK, HandlerState
    <2>2. HandlerOK(handler[h])'
      BY <1>4, <2>1 DEF HandlerOK, PostedAs, PostedNext
    <2>3. \A g \in Handlers \ {h} : handler'[g] = handler[g]
      BY <1>4 DEF Goto, TypeOK
    <2>4. QED
      BY <1>1, <2>2, <2>3, OneHandler
  <1>5. ASSUME NEW h \in Handlers, handler[h].step \notin {"idle", "reverse"}
        PROVE  handler[h].key \in Keys
    BY <1>5 DEF HandlersOK, HandlerOK
  <1>6. ASSUME NEW h \in Handlers, NEW k \in Keys, Submit(h, k)
        PROVE  HandlersOK'
    <2>1. HandlerOK(handler[h])'
      BY <1>6 DEF Submit, TypeOK, Idle, HandlerOK
    <2>2. \A g \in Handlers \ {h} : handler'[g] = handler[g]
      BY <1>6 DEF Submit, TypeOK
    <2>3. QED
      BY <1>1, <2>1, <2>2, OneHandler
  <1>7. ASSUME NEW h \in Handlers, CacheLookup(h)
        PROVE  HandlersOK'
    <2>1. handler[h].key \in Keys
      BY <1>5, <1>7 DEF CacheLookup, At
    <2>2. cache[handler[h].key] # 0 => PostedNext(cache[handler[h].key], handler[h].key)
      BY <1>1, <2>1, PostedStays DEF CacheOK
    <2>3. QED
      BY <1>4, <1>7, <2>1, <2>2 DEF CacheLookup, Steps
  <1>8. ASSUME NEW h \in Handlers, FindExisting(h)
        PROVE  HandlersOK'
    <2> DEFINE key == ClientKey(handler[h].key)
    <2>1. handler[h].key \in Keys
      BY <1>5, <1>8 DEF FindExisting, At
    <2>2. UniqueIndexHas(key) => PostedNext(IdOfKey(key), handler[h].key)
      BY <1>1, IdOfKeyFound, PostedStays DEF PostedAs
    <2>3. QED
      BY <1>4, <1>8, <2>1, <2>2 DEF FindExisting, Steps
  <1>9. ASSUME NEW h \in Handlers, CheckPolicy(h)
        PROVE  HandlersOK'
    BY <1>3, <1>4, <1>5, <1>9 DEF CheckPolicy, At, Steps
  <1>10. ASSUME NEW h \in Handlers, Insert(h)
         PROVE  HandlersOK'
    <2>1. handler[h].key \in Keys
      BY <1>5, <1>10 DEF Insert, At
    <2>2. CASE Done(h)
      BY <1>3, <2>2
    <2>3. CASE /\ Goto(h, "emit", Len(payments) + 1)
               /\ payments' = Append(payments, NewPayment(handler[h].key))
      <3>1. PostedNext(Len(payments) + 1, handler[h].key)
        <4>1. /\ payments \in Seq(PaymentRow)
              /\ NewPayment(handler[h].key) \in PaymentRow
              /\ NewPayment(handler[h].key).idempotencyKey = ClientKey(handler[h].key)
          BY <2>1, NewPaymentType DEF TypeOK
        <4>2. QED
          BY <2>3, <4>1, AppendKeeps DEF PostedNext
      <3>2. QED
        BY <1>4, <2>1, <2>3, <3>1 DEF Steps
    <2>4. QED
      BY <1>10, <2>2, <2>3 DEF Insert
  <1>11. ASSUME NEW h \in Handlers, Emit(h)
         PROVE  HandlersOK'
    <2>1. handler[h].key \in Keys
      BY <1>5, <1>11 DEF Emit, At
    <2>2. PostedNext(handler[h].id, handler[h].key)
      BY <1>1, <1>11, PostedStays DEF Emit, At, HandlersOK, HandlerOK
    <2>3. QED
      BY <1>4, <1>11, <2>1, <2>2 DEF Emit, Steps
  <1>12. ASSUME NEW h \in Handlers, Respond(h)
         PROVE  HandlersOK'
    BY <1>3, <1>12 DEF Respond
  <1>13. ASSUME NEW h \in Handlers, NEW i \in DOMAIN payments, ReadOriginal(h, i)
         PROVE  HandlersOK'
    <2>1. HandlerOK(handler[h])'
      <3>1. handler'[h] = [step |-> "reverse", key |-> NULL, id |-> i, row |-> payments[i]]
        BY <1>13 DEF ReadOriginal, TypeOK
      <3>2. i \in DOMAIN payments' /\ payments[i] \in PaymentRow
        BY <1>1 DEF Grown, TypeOK
      <3>3. QED
        BY <3>1, <3>2 DEF HandlerOK
    <2>2. \A g \in Handlers \ {h} : handler'[g] = handler[g]
      BY <1>13 DEF ReadOriginal, TypeOK
    <2>3. QED
      BY <1>1, <2>1, <2>2, OneHandler
  <1>14. ASSUME NEW h \in Handlers, Reverse(h)
         PROVE  HandlersOK'
    BY <1>3, <1>14 DEF Reverse
  <1>15. CASE Crash
    BY <1>15 DEF Crash, HandlersOK, HandlerOK, Idle
  <1>16. CASE UNCHANGED handler
    <2>1. ASSUME NEW h \in Handlers
          PROVE  HandlerOK(handler[h])'
      BY <1>1, <1>16, PostedStays DEF HandlersOK, HandlerOK, Grown, PostedAs, PostedNext
    <2>2. QED
      BY <2>1 DEF HandlersOK
  <1>17. QED
    BY <1>6, <1>7, <1>8, <1>9, <1>10, <1>11, <1>12, <1>13, <1>14, <1>15, <1>16
    DEF Next, HandlerStep, OfficeStep, BackgroundStep, CacheWrite, AuditWrite, Listen,
        Allocate, ConfirmDeposit, WalletMove, SetPolicyStatus, Expire, vars

\* A reply that a client receives is the id its handler holds.
LEMMA AckedStep ==
    ASSUME PostingInv, [Next]_vars
    PROVE  /\ AckedIsPosted'
           /\ \A k \in Keys : reply[k] # 0 => reply'[k] = reply[k]
  <1> USE DEF PostingInv
  <1>1. Grown
    BY GrownStep
  <1>2. \A k \in Keys : reply[k] # 0 => PostedAs(reply[k], k)
    BY DEF AckedIsPosted, PostedAs
  <1>3. CASE UNCHANGED reply
    BY <1>1, <1>3 DEF AckedIsPosted, Grown
  <1>4. ASSUME NEW h \in Handlers, Respond(h), reply' # reply
        PROVE  /\ AckedIsPosted'
               /\ \A k \in Keys : reply[k] # 0 => reply'[k] = reply[k]
    <2> DEFINE key == handler[h].key
               id == handler[h].id
    <2>1. /\ key \in Keys
          /\ PostedAs(id, key)
      BY <1>4 DEF Respond, At, HandlersOK, HandlerOK
    <2>2. reply' = [reply EXCEPT ![key] = id]
      BY <1>4 DEF Respond, clientVars
    <2> HIDE DEF key, id
    <2>3. reply[key] # 0 => reply[key] = id
      BY <1>2, <2>1 DEF PostedAs, OnePaymentPerKey
    <2>4. \A k \in Keys : reply[k] # 0 => reply'[k] = reply[k]
      BY <2>2, <2>3 DEF TypeOK
    <2>5. \A k \in Keys : reply'[k] # 0 => PostedAs(reply'[k], k)
      BY <1>2, <2>1, <2>2 DEF TypeOK
    <2>6. AckedIsPosted'
      BY <1>1, <2>5, PostedStays DEF PostedNext, AckedIsPosted
    <2>7. QED
      BY <2>4, <2>6
  <1>5. QED
    BY <1>3, <1>4
    DEF Next, HandlerStep, OfficeStep, BackgroundStep, Submit, CacheLookup, FindExisting,
        CheckPolicy, Insert, Emit, ReadOriginal, Reverse, CacheWrite, AuditWrite, Listen,
        Allocate, ConfirmDeposit, WalletMove, SetPolicyStatus, Expire, Crash, vars, clientVars

\* The cache is written with the id of a row under the key of that row.
LEMMA CacheStep ==
    ASSUME PostingInv, [Next]_vars
    PROVE  CacheOK'
  <1> USE DEF PostingInv
  <1>1. Grown
    BY GrownStep
  <1>2. ASSUME \A k \in Keys : cache'[k] # 0 => PostedAs(cache'[k], k)
        PROVE  CacheOK'
    BY <1>1, <1>2, PostedStays DEF PostedNext, PostedAs, CacheOK
  <1>3. CASE UNCHANGED cache
    BY <1>2, <1>3 DEF CacheOK
  <1>4. ASSUME NEW i \in DOMAIN payments, CacheWrite(i)
        PROVE  CacheOK'
    <2>1. PICK key \in Keys : PostedAs(i, key)
      BY <1>4 DEF CacheWrite, Finish, BackgroundOK
    <2>2. payments[i].idempotencyKey.of = key
      BY <2>1 DEF PostedAs, ClientKey
    <2>3. cache' = [cache EXCEPT ![key] = i]
      BY <1>4, <2>2 DEF CacheWrite
    <2>4. QED
      BY <1>2, <2>1, <2>3 DEF CacheOK, TypeOK
  <1>5. ASSUME NEW k \in Keys, Expire(k)
        PROVE  CacheOK'
    BY <1>2, <1>5 DEF Expire, CacheOK, TypeOK
  <1>6. QED
    BY <1>3, <1>4, <1>5
    DEF Next, HandlerStep, OfficeStep, BackgroundStep, Submit, CacheLookup, FindExisting,
        CheckPolicy, Insert, Emit, Respond, ReadOriginal, Reverse, AuditWrite, Listen,
        Allocate, ConfirmDeposit, WalletMove, SetPolicyStatus, Crash, vars

\* Work is started about a row that is committed.
LEMMA BackgroundKept ==
    ASSUME PostingInv, [Next]_vars
    PROVE  BackgroundOK'
  <1> USE DEF PostingInv
  <1>1. Grown
    BY GrownStep
  <1>2. ASSUME background' \subseteq background
        PROVE  BackgroundOK'
    BY <1>1, <1>2, PostedStays DEF BackgroundOK, Grown, PostedAs, PostedNext
  <1>3. ASSUME NEW kinds, NEW i, Start(kinds, i), i \in DOMAIN payments',
               "cache" \in kinds => \E k \in Keys : PostedNext(i, k)
        PROVE  BackgroundOK'
    <2>1. ASSUME NEW t \in background
          PROVE  /\ t.payment \in DOMAIN payments'
                 /\ t.kind = "cache" => \E k \in Keys : PostedNext(t.payment, k)
      BY <1>1, <2>1, PostedStays DEF BackgroundOK, Grown
    <2>2. ASSUME NEW t \in background'
          PROVE  /\ t.payment \in DOMAIN payments'
                 /\ t.kind = "cache" => \E k \in Keys : PostedNext(t.payment, k)
      BY <1>3, <2>1, <2>2 DEF Start
    <2>3. QED
      BY <2>2 DEF BackgroundOK, PostedAs, PostedNext
  <1>4. "cache" \notin Listeners
    BY PaymentsAssumption DEF PaymentsAssumption
  <1>5. ASSUME NEW h \in Handlers, Emit(h) \/ Respond(h)
        PROVE  BackgroundOK'
    <2> DEFINE id == handler[h].id
    <2>1. /\ handler[h].key \in Keys
          /\ PostedAs(id, handler[h].key)
      BY <1>5 DEF Emit, Respond, At, HandlersOK, HandlerOK
    <2>2. id \in DOMAIN payments' /\ \E k \in Keys : PostedNext(id, k)
      BY <1>1, <2>1, PostedStays DEF PostedNext
    <2>3. \/ Start(Listeners, id)
          \/ Start({"cache", "audit"}, id)
          \/ Start({"audit"}, id)
      BY <1>5 DEF Emit, Respond
    <2> HIDE DEF id
    <2>4. QED
      BY <1>3, <2>2, <2>3
  <1>6. ASSUME NEW h \in Handlers, Reverse(h)
        PROVE  BackgroundOK'
    <2>1. CASE UNCHANGED background
      BY <1>2, <2>1
    <2>2. CASE /\ Start({"audit"}, Len(payments) + 1)
               /\ Len(payments) + 1 \in DOMAIN payments'
      BY <1>3, <2>2
    <2>3. QED
      BY <1>6, <2>1, <2>2, ReverseShape
  <1>7. CASE background' \subseteq background
    BY <1>2, <1>7
  <1>8. QED
    BY <1>5, <1>6, <1>7
    DEF Next, HandlerStep, OfficeStep, BackgroundStep, Finish, Submit, CacheLookup,
        FindExisting, CheckPolicy, Insert, ReadOriginal, CacheWrite, AuditWrite, Listen,
        Allocate, ConfirmDeposit, WalletMove, SetPolicyStatus, Expire, Crash, vars
-------------------------------------------------------------------------------
(* Theorems.                                                                *)

\* The inductive invariant holds of the empty tables.
LEMMA PostingInvInit == Init => PostingInv
  <1> SUFFICES ASSUME Init PROVE PostingInv
    OBVIOUS
  <1>1. TypeOK
    BY IdleType DEF Init, TypeOK
  <1>2. OnePaymentPerKey /\ AckedIsPosted /\ CacheOK /\ BackgroundOK
    BY DEF Init, OnePaymentPerKey, AckedIsPosted, CacheOK, BackgroundOK
  <1>3. HandlersOK
    BY DEF Init, HandlersOK, HandlerOK, Idle
  <1>4. QED
    BY <1>1, <1>2, <1>3 DEF PostingInv

\* Every step of a handler, of unawaited work, of the office and every restart
\* keeps the inductive invariant.
LEMMA PostingInvStep == PostingInv /\ [Next]_vars => PostingInv'
  <1> SUFFICES ASSUME PostingInv, [Next]_vars PROVE PostingInv'
    OBVIOUS
  <1>1. TypeOK' /\ OnePaymentPerKey'
    BY TypeStep, OnePaymentPerKeyStep DEF PostingInv
  <1>2. AckedIsPosted' /\ HandlersOK' /\ CacheOK' /\ BackgroundOK'
    BY AckedStep, HandlersStep, CacheStep, BackgroundKept
  <1>3. QED
    BY <1>1, <1>2 DEF PostingInv

\* What each place that remembers a payment id may assume, always.
THEOREM PostingInvariant == Spec => []PostingInv
  BY PostingInvInit, PostingInvStep, PTL DEF Spec

\* Every variable has its type in every reachable state.
THEOREM TypeCorrect == Spec => []TypeOK
  <1>1. PostingInv => TypeOK
    BY DEF PostingInv
  <1>2. QED
    BY <1>1, PostingInvariant, PTL

\* However many requests of one key are in flight, lost, repeated or cut off
\* by a restart, postPayment commits one payment for it.
THEOREM Idempotent == Spec => []OnePaymentPerKey
  <1>1. PostingInv => OnePaymentPerKey
    BY DEF PostingInv
  <1>2. QED
    BY <1>1, PostingInvariant, PTL

\* A reply a client holds names the committed payment of its key.
THEOREM RepliesTrue == Spec => []AckedIsPosted
  <1>1. PostingInv => AckedIsPosted
    BY DEF PostingInv
  <1>2. QED
    BY <1>1, PostingInvariant, PTL

\* A repeated request is never answered with another payment.
THEOREM RepliesStable == Spec => ReplyStable
  <1>1. PostingInv /\ [Next]_vars
          => [\A k \in Keys : reply[k] # 0 => reply'[k] = reply[k]]_vars
    BY AckedStep
  <1>2. QED
    BY <1>1, PostingInvariant, PTL DEF Spec, ReplyStable
-------------------------------------------------------------------------------
(* What belongs to a payment.                                               *)

\* A row of the table is the payment of a key, or takes back, under the
\* original's reversal key, the amount of such a payment, which is marked.
PaidRow(i) ==
    /\ payments[i].reversalOf = 0
    /\ payments[i].amount > 0
    /\ \E k \in Keys : payments[i].idempotencyKey = ClientKey(k)
OffsetRow(j, i) ==
    /\ PaidRow(i)
    /\ payments[i].reversalStatus = "Reversed"
    /\ payments[j].reversalStatus = "None"
    /\ payments[j].idempotencyKey = ReversalKey(i)
    /\ payments[j].amount = -payments[i].amount
RowsOK ==
    \A j \in DOMAIN payments :
        /\ PaidRow(j) \/ payments[j].reversalOf \in DOMAIN payments
        /\ ~PaidRow(j) => OffsetRow(j, payments[j].reversalOf)
MarksOK ==
    \A i \in DOMAIN payments : payments[i].reversalStatus = "Reversed" =>
        \E j \in DOMAIN payments : payments[j].reversalOf = i

\* The row a reversal has read is the row as it is, except for a mark made since.
ReadOK(s) ==
    s.step = "reverse" =>
        /\ s.row.amount = payments[s.id].amount
        /\ s.row.reversalStatus = "Reversed" => payments[s.id].reversalStatus = "Reversed"
ReadsOK == \A h \in Handlers : ReadOK(handler[h])

\* An event is either about to be emitted by one handler, or at work once in a
\* listener, or recorded by it; it is of a payment, not of a reversal.
Recorded(l, i) == \E n \in DOMAIN effects[l] : effects[l][n] = i
PendingOK ==
    \A t \in background : t.kind \in Listeners =>
        ~IsReversal(t.payment) /\ ~Recorded(t.kind, t.payment)
EmitsOK ==
    \A h \in Handlers : At(h, "emit") =>
        /\ ~IsReversal(handler[h].id)
        /\ \A t \in background : t.kind \in Listeners => t.payment # handler[h].id
        /\ \A l \in Listeners : ~Recorded(l, handler[h].id)
        /\ \A g \in Handlers : At(g, "emit") /\ handler[g].id = handler[h].id => g = h

EffectsInv ==
    /\ PostingInv
    /\ RowsOK
    /\ MarksOK
    /\ ReadsOK
    /\ WalletMatchesPayments
    /\ EffectsFollowCommit
    /\ PendingOK
    /\ EmitsOK
-------------------------------------------------------------------------------
(* What a step does to the rows.                                            *)

\* A row of the table has the type of a payment row.
LEMMA RowTyped ==
    ASSUME TypeOK, NEW i \in DOMAIN payments
    PROVE  /\ payments[i] \in PaymentRow
           /\ payments[i].amount \in Int
           /\ payments[i].reversalStatus \in {"None", "Reversed"}
           /\ i \in Nat \ {0}
  <1>1. payments[i] \in PaymentRow /\ i \in Nat \ {0}
    BY DEF TypeOK
  <1>2. QED
    BY <1>1 DEF PaymentRow

\* Rows stay and keep everything but the reversal mark, which is only set.
Kept ==
    \A i \in DOMAIN payments :
        /\ i \in DOMAIN payments'
        /\ payments'[i] \in {payments[i],
                             [payments[i] EXCEPT !.reversalStatus = "Reversed"]}

\* Only the two transactions change the table.
LEMMA OnlyTransactions ==
    ASSUME [Next]_vars
    PROVE  \/ UNCHANGED payments
           \/ \E h \in Handlers : Insert(h)
           \/ \E h \in Handlers : Reverse(h) /\ ~UNCHANGED payments
  BY DEF Next, HandlerStep, OfficeStep, BackgroundStep, Submit, CacheLookup, FindExisting,
         CheckPolicy, Emit, Respond, ReadOriginal, CacheWrite, AuditWrite, Listen,
         Allocate, ConfirmDeposit, WalletMove, SetPolicyStatus, Expire, Crash, vars, tables

\* No step edits a row except to mark it.
LEMMA KeptStep ==
    ASSUME PostingInv, [Next]_vars
    PROVE  Kept
  <1>1. ASSUME NEW h \in Handlers, Insert(h)
        PROVE  Kept
    BY <1>1, InsertShape DEF Kept, PostingInv
  <1>2. ASSUME NEW h \in Handlers, Reverse(h)
        PROVE  Kept
    BY <1>2, ReverseShape DEF Kept, PostingInv
  <1>3. CASE UNCHANGED payments
    BY <1>3 DEF Kept
  <1>4. QED
    BY <1>1, <1>2, <1>3, OnlyTransactions

\* The columns that the mark leaves alone.
LEMMA KeptColumns ==
    ASSUME TypeOK, Kept, NEW i \in DOMAIN payments
    PROVE  /\ i \in DOMAIN payments'
           /\ payments'[i].idempotencyKey = payments[i].idempotencyKey
           /\ payments'[i].amount = payments[i].amount
           /\ payments'[i].method = payments[i].method
           /\ payments'[i].marketer = payments[i].marketer
           /\ payments'[i].reversalOf = payments[i].reversalOf
           /\ payments[i].reversalStatus = "Reversed" => payments'[i].reversalStatus = "Reversed"
  <1>1. ASSUME NEW row \in PaymentRow, NEW row2,
               row2 \in {row, [row EXCEPT !.reversalStatus = "Reversed"]}
        PROVE  /\ row2.idempotencyKey = row.idempotencyKey
               /\ row2.amount = row.amount
               /\ row2.method = row.method
               /\ row2.marketer = row.marketer
               /\ row2.reversalOf = row.reversalOf
               /\ row.reversalStatus = "Reversed" => row2.reversalStatus = "Reversed"
    BY <1>1 DEF PaymentRow
  <1>2. payments[i] \in PaymentRow
    BY DEF TypeOK
  <1>3. QED
    BY <1>1, <1>2 DEF Kept

\* The row that postPayment adds is the payment of a key.
LEMMA InsertedRow ==
    ASSUME PostingInv, NEW h \in Handlers, Insert(h), ~UNCHANGED payments
    PROVE  \E n \in Nat \ DOMAIN payments :
             /\ n = Len(payments) + 1
             /\ DOMAIN payments' = DOMAIN payments \cup {n}
             /\ \A j \in DOMAIN payments : payments'[j] = payments[j]
             /\ PaidRow(n)'
             /\ payments'[n] = NewPayment(handler[h].key)
             /\ payments'[n].reversalStatus = "None"
  <1> DEFINE k == handler[h].key
  <1>0. PICK n : n = Len(payments) + 1
    OBVIOUS
  <1>1. /\ k \in Keys
        /\ n \in Nat \ DOMAIN payments
        /\ DOMAIN payments' = DOMAIN payments \cup {n}
        /\ \A j \in DOMAIN payments : payments'[j] = payments[j]
        /\ payments'[n] = NewPayment(k)
    BY <1>0, InsertShape DEF PostingInv
  <1> HIDE DEF k
  <1>2. Dto[k].amount > 0
    BY <1>1, PaymentsAssumption DEF PaymentsAssumption, PaymentRequest
  <1>3. /\ payments'[n].reversalOf = 0
        /\ payments'[n].amount > 0
        /\ payments'[n].idempotencyKey = ClientKey(k)
        /\ payments'[n].reversalStatus = "None"
    BY <1>1, <1>2 DEF NewPayment
  <1>4. PaidRow(n)'
    BY <1>1, <1>3 DEF PaidRow
  <1>5. QED
    BY <1>0, <1>1, <1>3, <1>4 DEF k

\* A row whose reversal key is free has no reversal and is not marked.
LEMMA NotYetReversed ==
    ASSUME TypeOK, RowsOK, MarksOK, NEW i \in DOMAIN payments,
           ~UniqueIndexHas(ReversalKey(i))
    PROVE  /\ payments[i].reversalStatus = "None"
           /\ \A j \in DOMAIN payments : payments[j].reversalOf # i
  <1>1. i # 0
    BY DEF TypeOK
  <1>2. ASSUME NEW j \in DOMAIN payments, payments[j].reversalOf = i
        PROVE  FALSE
    <2>1. OffsetRow(j, i)
      BY <1>1, <1>2 DEF RowsOK, PaidRow
    <2>2. QED
      BY <2>1 DEF OffsetRow, UniqueIndexHas
  <1>3. payments[i].reversalStatus \in {"None", "Reversed"}
    BY RowTyped
  <1>4. QED
    BY <1>2, <1>3 DEF MarksOK

\* What a reversal that commits has found, and the row it adds.
LEMMA ReversedRow ==
    ASSUME EffectsInv, NEW h \in Handlers, Reverse(h), ~UNCHANGED payments
    PROVE  \E i \in DOMAIN payments, n \in Nat \ DOMAIN payments :
               /\ PaidRow(i)
               /\ payments[i].reversalStatus = "None"
               /\ \A j \in DOMAIN payments : payments[j].reversalOf # i
               /\ DOMAIN payments' = DOMAIN payments \cup {n}
               /\ \A j \in DOMAIN payments \ {i} : payments'[j] = payments[j]
               /\ payments'[i] = [payments[i] EXCEPT !.reversalStatus = "Reversed"]
               /\ payments'[n].idempotencyKey = ReversalKey(i)
               /\ payments'[n].amount = -payments[i].amount
               /\ payments'[n].reversalOf = i
               /\ payments'[n].reversalStatus = "None"
               /\ Start({"audit"}, n)
  <1> DEFINE i == handler[h].id
             n == Len(payments) + 1
             read == handler[h].row
  <1>1. /\ i \in DOMAIN payments
        /\ read \in PaymentRow
        /\ ~UniqueIndexHas(ReversalKey(i))
        /\ read.amount >= 0
        /\ n \in Nat \ DOMAIN payments
        /\ DOMAIN payments' = DOMAIN payments \cup {n}
        /\ \A j \in DOMAIN payments :
             payments'[j] = IF j = i
               THEN [payments[j] EXCEPT !.reversalStatus = "Reversed"] ELSE payments[j]
        /\ payments'[n] = ReversalRow(read, i)
        /\ Start({"audit"}, n)
    BY ReverseShape DEF EffectsInv, PostingInv
  <1>2. /\ read.amount = payments[i].amount
        /\ read.reversalStatus = "Reversed" => payments[i].reversalStatus = "Reversed"
    BY DEF EffectsInv, ReadsOK, ReadOK, Reverse, At
  <1> HIDE DEF i, n, read
  <1>3. /\ payments[i].reversalStatus = "None"
        /\ \A j \in DOMAIN payments : payments[j].reversalOf # i
    BY <1>1, NotYetReversed DEF EffectsInv, PostingInv
  <1>4. read.reversalStatus = "None"
    BY <1>1, <1>2, <1>3 DEF PaymentRow
  <1>5. PaidRow(i)
    <2>1. SUFFICES ASSUME ~PaidRow(i) PROVE FALSE
      OBVIOUS
    <2>2. OffsetRow(i, payments[i].reversalOf) /\ payments[i].reversalOf \in DOMAIN payments
      BY <1>1, <2>1 DEF EffectsInv, RowsOK
    <2>3. payments[payments[i].reversalOf].amount \in Int
      BY <2>2, RowTyped DEF EffectsInv, PostingInv
    <2>4. payments[i].amount < 0
      BY <2>2, <2>3 DEF OffsetRow, PaidRow
    <2>5. payments[i].amount \in Int
      BY <1>1, RowTyped DEF EffectsInv, PostingInv
    <2>6. QED
      BY <1>1, <1>2, <2>4, <2>5
  <1>6. /\ payments'[n].idempotencyKey = ReversalKey(i)
        /\ payments'[n].amount = -payments[i].amount
        /\ payments'[n].reversalOf = i
        /\ payments'[n].reversalStatus = "None"
    BY <1>1, <1>2, <1>4 DEF ReversalRow
  <1>7. QED
    BY <1>1, <1>3, <1>5, <1>6
-------------------------------------------------------------------------------
(* The rows: each payment is taken back by one row at most.                 *)

\* Inserting a payment leaves the other rows' relations as they are, and a
\* committed reversal marks one payment and adds its only offsetting row.
LEMMA RowsStep ==
    ASSUME EffectsInv, [Next]_vars
    PROVE  RowsOK' /\ MarksOK'
  <1> USE DEF EffectsInv
  <1>1. TypeOK /\ TypeOK' /\ Kept
    BY KeptStep, PostingInvStep DEF PostingInv
  <1>2. ASSUME NEW j \in DOMAIN payments, PaidRow(j)
        PROVE  PaidRow(j)'
    BY <1>1, <1>2, KeptColumns DEF PaidRow
  <1>3. ASSUME NEW j \in DOMAIN payments, NEW i \in DOMAIN payments, OffsetRow(j, i),
               payments'[j] = payments[j]
        PROVE  OffsetRow(j, i)'
    BY <1>1, <1>2, <1>3, KeptColumns DEF OffsetRow
  <1>4. ASSUME NEW j \in DOMAIN payments, payments'[j] = payments[j]
        PROVE  /\ PaidRow(j)' \/ payments'[j].reversalOf \in DOMAIN payments'
               /\ ~PaidRow(j)' => OffsetRow(j, payments[j].reversalOf)'
               /\ payments[j].reversalOf = payments'[j].reversalOf
    <2>1. CASE PaidRow(j)
      BY <1>2, <1>4, <2>1
    <2>2. CASE ~PaidRow(j)
      <3>1. PICK i \in DOMAIN payments : i = payments[j].reversalOf /\ OffsetRow(j, i)
        BY <2>2 DEF RowsOK
      <3>2. OffsetRow(j, i)'
        BY <1>3, <1>4, <3>1
      <3>3. i \in DOMAIN payments'
        BY <1>1, KeptColumns
      <3>4. OffsetRow(j, payments[j].reversalOf)'
        BY <1>4, <3>1, <3>2 DEF OffsetRow, PaidRow
      <3>5. QED
        BY <1>4, <3>1, <3>3, <3>4
    <2>3. QED
      BY <2>1, <2>2
  <1>5. CASE UNCHANGED payments
    BY <1>5 DEF RowsOK, MarksOK, OffsetRow, PaidRow
  <1>6. ASSUME NEW h \in Handlers, Insert(h), ~UNCHANGED payments
        PROVE  RowsOK' /\ MarksOK'
    <2>1. PICK n \in Nat \ DOMAIN payments :
            /\ DOMAIN payments' = DOMAIN payments \cup {n}
            /\ \A j \in DOMAIN payments : payments'[j] = payments[j]
            /\ PaidRow(n)'
            /\ payments'[n].reversalStatus = "None"
      BY <1>6, InsertedRow
    <2>2. RowsOK'
      BY <1>4, <2>1 DEF RowsOK
    <2>3. MarksOK'
      BY <1>4, <2>1 DEF MarksOK
    <2>4. QED
      BY <2>2, <2>3
  <1>7. ASSUME NEW h \in Handlers, Reverse(h), ~UNCHANGED payments
        PROVE  RowsOK' /\ MarksOK'
    <2>1. PICK i \in DOMAIN payments, n \in Nat \ DOMAIN payments :
            /\ PaidRow(i)
            /\ DOMAIN payments' = DOMAIN payments \cup {n}
            /\ \A j \in DOMAIN payments \ {i} : payments'[j] = payments[j]
            /\ payments'[i] = [payments[i] EXCEPT !.reversalStatus = "Reversed"]
            /\ payments'[n].idempotencyKey = ReversalKey(i)
            /\ payments'[n].amount = -payments[i].amount
            /\ payments'[n].reversalOf = i
            /\ payments'[n].reversalStatus = "None"
      BY <1>7, ReversedRow
    <2>2. /\ PaidRow(i)'
          /\ payments'[i].reversalStatus = "Reversed"
          /\ payments'[i].amount = payments[i].amount
      <3>1. payments[i] \in PaymentRow
        BY <1>1, RowTyped
      <3>2. payments'[i].reversalStatus = "Reversed"
        BY <2>1, <3>1 DEF PaymentRow
      <3>3. QED
        BY <1>1, <1>2, <2>1, <3>2, KeptColumns
    <2>3. OffsetRow(n, i)'
      BY <2>1, <2>2 DEF OffsetRow
    <2>4. RowsOK'
      <3>1. ASSUME NEW j \in DOMAIN payments'
            PROVE  /\ PaidRow(j)' \/ payments'[j].reversalOf \in DOMAIN payments'
                   /\ ~PaidRow(j)' => OffsetRow(j, payments[j].reversalOf)'
        <4>1. CASE j = n
          <5>1. payments'[j].reversalOf = i /\ i \in DOMAIN payments'
            BY <2>1, <4>1
          <5>2. OffsetRow(j, payments[j].reversalOf)'
            BY <2>3, <4>1, <5>1 DEF OffsetRow, PaidRow
          <5>3. QED
            BY <5>1, <5>2
        <4>2. CASE j = i
          BY <2>2, <4>2
        <4>3. CASE j \in DOMAIN payments \ {i}
          BY <1>4, <2>1, <4>3
        <4>4. QED
          BY <2>1, <3>1, <4>1, <4>2, <4>3
      <3>2. QED
        BY <3>1 DEF RowsOK
    <2>5. MarksOK'
      <3>1. ASSUME NEW j \in DOMAIN payments', payments'[j].reversalStatus = "Reversed"
            PROVE  \E g \in DOMAIN payments' : payments'[g].reversalOf = j
        <4>1. CASE j = i
          BY <2>1, <4>1
        <4>2. CASE j \in DOMAIN payments \ {i}
          <5>1. PICK g \in DOMAIN payments : payments[g].reversalOf = j
            BY <2>1, <3>1, <4>2 DEF MarksOK
          <5>2. QED
            BY <1>1, <5>1, KeptColumns
        <4>3. QED
          BY <2>1, <3>1, <4>1, <4>2
      <3>2. QED
        BY <3>1 DEF MarksOK
    <2>6. QED
      BY <2>4, <2>5
  <1>8. QED
    BY <1>5, <1>6, <1>7, OnlyTransactions

\* A reversal reads the row it holds in one step and the row is only marked
\* after that.
LEMMA ReadsStep ==
    ASSUME EffectsInv, [Next]_vars
    PROVE  ReadsOK'
  <1> USE DEF EffectsInv
  <1>1. TypeOK /\ HandlersOK /\ Kept
    BY KeptStep DEF PostingInv
  <1>2. ASSUME NEW g \in Handlers, handler'[g] = handler[g]
        PROVE  ReadOK(handler[g])'
    <2>1. CASE handler[g].step = "reverse"
      <3>1. handler[g].id \in DOMAIN payments /\ ReadOK(handler[g])
        BY <1>1, <2>1 DEF HandlersOK, HandlerOK, ReadsOK
      <3>2. QED
        BY <1>1, <1>2, <2>1, <3>1, KeptColumns DEF ReadOK
    <2>2. QED
      BY <1>2, <2>1 DEF ReadOK
  <1>3. ASSUME NEW h \in Handlers, handler'[h].step # "reverse",
               \A g \in Handlers \ {h} : handler'[g] = handler[g]
        PROVE  ReadsOK'
    BY <1>2, <1>3 DEF ReadsOK, ReadOK
  <1>4. ASSUME NEW h \in Handlers, Done(h)
        PROVE  ReadsOK'
    <2>1. /\ handler'[h].step # "reverse"
          /\ \A g \in Handlers \ {h} : handler'[g] = handler[g]
      BY <1>1, <1>4 DEF Done, TypeOK, Idle
    <2>2. QED
      BY <1>3, <2>1
  <1>5. ASSUME NEW h \in Handlers, NEW step, NEW i, Goto(h, step, i), step # "reverse"
        PROVE  ReadsOK'
    <2>1. handler[h] \in HandlerState
      BY <1>1 DEF TypeOK
    <2>2. /\ handler'[h].step # "reverse"
          /\ \A g \in Handlers \ {h} : handler'[g] = handler[g]
      BY <1>1, <1>5, <2>1 DEF Goto, TypeOK, HandlerState
    <2>3. QED
      BY <1>3, <2>2
  <1>6. ASSUME NEW h \in Handlers, NEW k \in Keys, Submit(h, k)
        PROVE  ReadsOK'
    <2>1. /\ handler'[h].step # "reverse"
          /\ \A g \in Handlers \ {h} : handler'[g] = handler[g]
      BY <1>1, <1>6 DEF Submit, TypeOK, Idle
    <2>2. QED
      BY <1>3, <2>1
  <1>7. ASSUME NEW h \in Handlers, NEW i \in DOMAIN payments, ReadOriginal(h, i)
        PROVE  ReadsOK'
    <2>1. /\ handler'[h] = [step |-> "reverse", key |-> NULL, id |-> i, row |-> payments[i]]
          /\ \A g \in Handlers \ {h} : handler'[g] = handler[g]
          /\ payments' = payments
      BY <1>1, <1>7 DEF ReadOriginal, TypeOK, tables
    <2>2. ReadOK(handler[h])'
      BY <2>1 DEF ReadOK
    <2>3. QED
      BY <1>2, <2>1, <2>2 DEF ReadsOK
  <1>8. CASE Crash
    BY <1>8 DEF Crash, ReadsOK, ReadOK, Idle
  <1>9. CASE UNCHANGED handler
    BY <1>2, <1>9 DEF ReadsOK
  <1>10. ASSUME NEW h \in Handlers, HandlerStep(h)
         PROVE  ReadsOK'
    <2>1. CASE CacheLookup(h)
      BY <1>5, <2>1 DEF CacheLookup
    <2>2. CASE FindExisting(h) \/ CheckPolicy(h) \/ Insert(h) \/ Emit(h)
      BY <1>4, <1>5, <2>2 DEF FindExisting, CheckPolicy, Insert, Emit
    <2>3. CASE Respond(h) \/ Reverse(h)
      BY <1>4, <2>3 DEF Respond, Reverse
    <2>4. QED
      BY <1>10, <2>1, <2>2, <2>3 DEF HandlerStep
  <1>11. QED
    BY <1>6, <1>7, <1>8, <1>9, <1>10
    DEF Next, OfficeStep, BackgroundStep, CacheWrite, AuditWrite, Listen,
        Allocate, ConfirmDeposit, WalletMove, SetPolicyStatus, Expire, vars
-------------------------------------------------------------------------------
(* The wallet rows.                                                         *)

\* What a wallet row says of a payment row does not depend on the mark.
LEMMA CashKept ==
    ASSUME TypeOK, Kept, NEW i \in DOMAIN payments
    PROVE  /\ i \in DOMAIN payments'
           /\ IsReversal(i)' <=> IsReversal(i)
           /\ CollectsCash(payments'[i]) <=> CollectsCash(payments[i])
           /\ CashRow(payments'[i], i) = CashRow(payments[i], i)
  BY KeptColumns DEF IsReversal, CollectsCash, CashRow

\* A step that adds no collection and no cash payment keeps the match.
LEMMA NoCollection ==
    ASSUME TypeOK, Kept, WalletMatchesPayments, Collections' = Collections,
           \A w \in Collections : wallet'[w] = wallet[w],
           \A i \in DOMAIN payments' \ DOMAIN payments :
               IsReversal(i)' \/ ~CollectsCash(payments'[i])
    PROVE  WalletMatchesPayments'
  <1>1. ASSUME NEW i \in DOMAIN payments', ~IsReversal(i)', CollectsCash(payments'[i])
        PROVE  \E w \in Collections' : wallet'[w] = CashRow(payments'[i], i)
    <2>1. i \in DOMAIN payments
      BY <1>1
    <2>2. PICK w \in Collections : wallet[w] = CashRow(payments[i], i)
      BY <1>1, <2>1, CashKept DEF WalletMatchesPayments
    <2>3. QED
      BY <2>1, <2>2, CashKept
  <1>2. ASSUME NEW w \in Collections', NEW i, i = wallet'[w].reference
        PROVE  /\ i \in DOMAIN payments'
               /\ ~IsReversal(i)' /\ CollectsCash(payments'[i])
               /\ wallet'[w] = CashRow(payments'[i], i)
    <2>1. /\ i \in DOMAIN payments
          /\ ~IsReversal(i) /\ CollectsCash(payments[i])
          /\ wallet[w] = CashRow(payments[i], i)
      BY <1>2 DEF WalletMatchesPayments
    <2>2. QED
      BY <1>2, <2>1, CashKept
  <1>3. \A v, w \in Collections' : wallet'[v].reference = wallet'[w].reference => v = w
    BY DEF WalletMatchesPayments
  <1>4. QED
    BY <1>1, <1>2, <1>3 DEF WalletMatchesPayments, IsReversal

\* A step that adds one cash payment and the collection of it keeps the match.
LEMMA OneCollection ==
    ASSUME TypeOK, Kept, WalletMatchesPayments,
           NEW n \in Nat \ DOMAIN payments, DOMAIN payments' = DOMAIN payments \cup {n},
           NEW v, v \notin Collections, Collections' = Collections \cup {v},
           \A w \in Collections : wallet'[w] = wallet[w],
           ~IsReversal(n)', CollectsCash(payments'[n]),
           wallet'[v] = CashRow(payments'[n], n)
    PROVE  WalletMatchesPayments'
  <1>1. wallet'[v].reference = n
    BY DEF CashRow
  <1>2. ASSUME NEW i \in DOMAIN payments', ~IsReversal(i)', CollectsCash(payments'[i])
        PROVE  \E w \in Collections' : wallet'[w] = CashRow(payments'[i], i)
    <2>1. CASE i = n
      BY <2>1
    <2>2. CASE i \in DOMAIN payments
      <3>1. PICK w \in Collections : wallet[w] = CashRow(payments[i], i)
        BY <1>2, <2>2, CashKept DEF WalletMatchesPayments
      <3>2. QED
        BY <2>2, <3>1, CashKept
    <2>3. QED
      BY <1>2, <2>1, <2>2
  <1>3. ASSUME NEW w \in Collections', NEW i, i = wallet'[w].reference
        PROVE  /\ i \in DOMAIN payments'
               /\ ~IsReversal(i)' /\ CollectsCash(payments'[i])
               /\ wallet'[w] = CashRow(payments'[i], i)
               /\ w # v => i \in DOMAIN payments
    <2>1. CASE w = v
      BY <1>1, <1>3, <2>1
    <2>2. CASE w \in Collections
      <3>1. /\ i \in DOMAIN payments
            /\ ~IsReversal(i) /\ CollectsCash(payments[i])
            /\ wallet[w] = CashRow(payments[i], i)
        BY <1>3, <2>2 DEF WalletMatchesPayments
      <3>2. QED
        BY <1>3, <2>2, <3>1, CashKept
    <2>3. QED
      BY <1>3, <2>1, <2>2
  <1>4. ASSUME NEW u \in Collections', NEW w \in Collections',
               wallet'[u].reference = wallet'[w].reference
        PROVE  u = w
    <2>1. CASE u = v \/ w = v
      BY <1>1, <1>3, <1>4, <2>1
    <2>2. CASE u \in Collections /\ w \in Collections
      BY <1>4, <2>2 DEF WalletMatchesPayments
    <2>3. QED
      BY <1>4, <2>1, <2>2
  <1>5. QED
    BY <1>2, <1>3, <1>4 DEF WalletMatchesPayments, IsReversal

\* The transaction of a payment commits its wallet row with it; every other
\* step leaves the collections and the cash payments as they are.
LEMMA WalletStep ==
    ASSUME EffectsInv, [Next]_vars
    PROVE  WalletMatchesPayments'
  <1> USE DEF EffectsInv
  <1>1. TypeOK /\ Kept /\ wallet \in Seq(WalletRow)
    BY KeptStep DEF PostingInv, TypeOK
  <1>2. ASSUME UNCHANGED <<payments, wallet>>
        PROVE  WalletMatchesPayments'
    BY <1>2 DEF WalletMatchesPayments, Collections, IsReversal
  <1>3. ASSUME NEW h \in Handlers, Insert(h)
        PROVE  WalletMatchesPayments'
    <2> DEFINE row == NewPayment(handler[h].key)
               v == Len(wallet) + 1
    <2>1. CASE UNCHANGED payments
      <3>1. payments' # Append(payments, row)
        BY <1>1, <2>1 DEF TypeOK
      <3>2. QED
        BY <1>2, <1>3, <2>1, <3>1 DEF Insert
    <2>2. CASE ~UNCHANGED payments
      <3>1. PICK n \in Nat \ DOMAIN payments :
              /\ n = Len(payments) + 1
              /\ DOMAIN payments' = DOMAIN payments \cup {n}
              /\ PaidRow(n)'
              /\ payments'[n] = row
        BY <1>3, <2>2, InsertedRow
      <3>2. ~IsReversal(n)'
        BY <3>1 DEF PaidRow, IsReversal
      <3>3. CASE ~CollectsCash(row)
        <4>1. wallet' = wallet
          BY <1>3, <2>2, <3>3 DEF Insert
        <4>2. QED
          BY <1>1, <3>1, <3>3, <4>1, NoCollection DEF Collections
      <3>4. CASE CollectsCash(row)
        <4>1. wallet' = Append(wallet, CashRow(row, n))
          BY <1>3, <2>2, <3>1, <3>4 DEF Insert
        <4>2. CashRow(row, n).type = "CashCollectionPosted"
          BY DEF CashRow
        <4>3. /\ DOMAIN wallet' = DOMAIN wallet \cup {v}
              /\ v \notin DOMAIN wallet
              /\ \A w \in DOMAIN wallet : wallet'[w] = wallet[w]
              /\ wallet'[v] = CashRow(row, n)
          BY <1>1, <4>1
        <4> HIDE DEF v
        <4>4. PICK u : u = v
          OBVIOUS
        <4>5. /\ Collections' = Collections \cup {u}
              /\ u \notin Collections
              /\ \A w \in Collections : wallet'[w] = wallet[w]
          BY <4>2, <4>3, <4>4 DEF Collections
        <4>6. QED
          BY <1>1, <3>1, <3>2, <3>4, <4>3, <4>4, <4>5, OneCollection
      <3>5. QED
        BY <3>3, <3>4
    <2>3. QED
      BY <2>1, <2>2
  <1>4. ASSUME NEW h \in Handlers, Reverse(h)
        PROVE  WalletMatchesPayments'
    <2>1. wallet' = wallet
      BY <1>4 DEF Reverse
    <2>2. CASE UNCHANGED payments
      BY <1>2, <2>1, <2>2
    <2>3. CASE ~UNCHANGED payments
      <3>1. PICK i \in DOMAIN payments, n \in Nat \ DOMAIN payments :
              /\ DOMAIN payments' = DOMAIN payments \cup {n}
              /\ payments'[n].reversalOf = i
        BY <1>4, <2>3, ReversedRow
      <3>2. IsReversal(n)'
        BY <1>1, <3>1, RowTyped DEF IsReversal
      <3>3. QED
        BY <1>1, <2>1, <3>1, <3>2, NoCollection DEF Collections
    <2>4. QED
      BY <2>2, <2>3
  <1>5. ASSUME NEW m \in Marketers, NEW a \in Amounts, Allocate(m, a) \/ ConfirmDeposit(m, a)
        PROVE  WalletMatchesPayments'
    <2>1. PICK type \in {"Allocation", "DepositConfirmed"} : WalletMove(type, m, a)
      BY <1>5 DEF Allocate, ConfirmDeposit
    <2>2. /\ payments' = payments
          /\ wallet' = Append(wallet, [type |-> type, marketer |-> m, amount |-> a,
                                       reference |-> 0])
      BY <2>1 DEF WalletMove
    <2>3. /\ DOMAIN wallet' = DOMAIN wallet \cup {Len(wallet) + 1}
          /\ \A w \in DOMAIN wallet : wallet'[w] = wallet[w]
          /\ wallet'[Len(wallet) + 1].type # "CashCollectionPosted"
          /\ Len(wallet) + 1 \notin DOMAIN wallet
      BY <1>1, <2>2
    <2>4. /\ Collections' = Collections
          /\ \A w \in Collections : wallet'[w] = wallet[w]
      BY <2>3 DEF Collections
    <2>5. QED
      BY <1>1, <2>2, <2>4, NoCollection
  <1>6. QED
    BY <1>2, <1>3, <1>4, <1>5
    DEF Next, HandlerStep, OfficeStep, BackgroundStep, Submit, CacheLookup, FindExisting,
        CheckPolicy, Emit, Respond, ReadOriginal, CacheWrite, AuditWrite, Listen,
        SetPolicyStatus, Expire, Crash, vars, tables
-------------------------------------------------------------------------------
(* The event of a payment, and what its listeners record.                   *)

EventsOK == EffectsFollowCommit /\ PendingOK /\ EmitsOK

\* What the events are about is in the table, so a new row has none.
LEMMA EventsAreOfRows ==
    ASSUME EffectsInv
    PROVE  /\ \A t \in background : t.payment \in DOMAIN payments
           /\ \A l \in Listeners : \A i : Recorded(l, i) => i \in DOMAIN payments /\ ~IsReversal(i)
           /\ \A h \in Handlers : At(h, "emit") => handler[h].id \in DOMAIN payments
  BY DEF EffectsInv, PostingInv, BackgroundOK, EffectsFollowCommit, Recorded, At,
         HandlersOK, HandlerOK, PostedAs

\* A step that brings no event, work or record of one keeps what they satisfy.
LEMMA NoNewEvent ==
    ASSUME EffectsInv, Kept, UNCHANGED effects,
           \A t \in background' : t.kind \in Listeners => t \in background,
           \A g \in Handlers : At(g, "emit")' => At(g, "emit") /\ handler'[g].id = handler[g].id
    PROVE  EventsOK'
  <1>1. TypeOK
    BY DEF EffectsInv, PostingInv
  <1>2. \A i \in DOMAIN payments : i \in DOMAIN payments' /\ (IsReversal(i)' <=> IsReversal(i))
    BY <1>1, CashKept
  <1>3. \A l, i : Recorded(l, i)' <=> Recorded(l, i)
    BY DEF Recorded
  <1>4. EffectsFollowCommit'
    BY <1>2 DEF EffectsInv, EffectsFollowCommit, IsReversal
  <1>5. PendingOK'
    BY <1>2, <1>3, EventsAreOfRows DEF EffectsInv, PendingOK, IsReversal, Recorded
  <1>6. EmitsOK'
    <2>1. ASSUME NEW h \in Handlers, At(h, "emit")', NEW i, i = handler'[h].id
          PROVE  /\ ~IsReversal(i)'
                 /\ \A t \in background' : t.kind \in Listeners => t.payment # i
                 /\ \A l \in Listeners : ~Recorded(l, i)'
                 /\ \A g \in Handlers : At(g, "emit")' /\ handler'[g].id = i => g = h
      BY <1>2, <1>3, <2>1, EventsAreOfRows DEF EffectsInv, EmitsOK
    <2>2. QED
      BY <2>1 DEF EmitsOK, IsReversal, Recorded
  <1>7. QED
    BY <1>4, <1>5, <1>6 DEF EventsOK

\* The handler that inserted a row is the only one to emit its event.
LEMMA InsertEvents ==
    ASSUME EffectsInv, NEW h \in Handlers, Insert(h), Kept
    PROVE  EventsOK'
  <1> USE DEF EffectsInv
  <1>1. TypeOK
    BY DEF PostingInv
  <1>2. UNCHANGED <<effects, background>>
    BY DEF Insert
  <1>3. CASE UNCHANGED payments
    <2>1. payments' # Append(payments, NewPayment(handler[h].key))
      BY <1>1, <1>3 DEF TypeOK
    <2>2. handler' = [handler EXCEPT ![h] = Idle]
      BY <2>1 DEF Insert, Done
    <2>3. \A g \in Handlers : At(g, "emit")' => At(g, "emit") /\ handler'[g] = handler[g]
      BY <1>1, <2>2 DEF At, Idle, TypeOK
    <2>4. QED
      BY <1>2, <2>3, NoNewEvent
  <1>4. CASE ~UNCHANGED payments
    <2>1. PICK n \in Nat \ DOMAIN payments :
            /\ n = Len(payments) + 1
            /\ PaidRow(n)'
      BY <1>4, InsertedRow
    <2>2. /\ handler'[h].id = n
          /\ \A g \in Handlers \ {h} : handler'[g] = handler[g]
      <3>1. handler' = [handler EXCEPT ![h].step = "emit", ![h].id = n]
        BY <1>4, <2>1 DEF Insert, Goto
      <3>2. handler[h] \in HandlerState
        BY <1>1 DEF TypeOK
      <3>3. QED
        BY <1>1, <3>1, <3>2 DEF TypeOK, HandlerState
    <2>3. \A i \in DOMAIN payments :
             i \in DOMAIN payments' /\ (IsReversal(i)' <=> IsReversal(i))
      BY <1>1, CashKept
    <2>4. ~IsReversal(n)'
      BY <2>1 DEF PaidRow, IsReversal
    <2>5. \A l, i : Recorded(l, i)' <=> Recorded(l, i)
      BY <1>2 DEF Recorded
    <2>6. EffectsFollowCommit'
      BY <1>2, <2>3 DEF EffectsFollowCommit, IsReversal
    <2>7. PendingOK'
      BY <1>2, <2>3, <2>5, EventsAreOfRows DEF PendingOK, IsReversal, Recorded
    <2>8. EmitsOK'
      <3>1. ASSUME NEW g \in Handlers, At(g, "emit")', NEW i, i = handler'[g].id
            PROVE  /\ ~IsReversal(i)'
                   /\ \A t \in background' : t.kind \in Listeners => t.payment # i
                   /\ \A l \in Listeners : ~Recorded(l, i)'
                   /\ \A f \in Handlers : At(f, "emit")' /\ handler'[f].id = i => f = g
        <4>1. CASE g = h
          BY <1>2, <2>1, <2>2, <2>4, <2>5, <3>1, <4>1, EventsAreOfRows DEF At
        <4>2. CASE g # h
          <5>1. At(g, "emit") /\ i = handler[g].id /\ i \in DOMAIN payments /\ i # n
            BY <2>1, <2>2, <3>1, <4>2, EventsAreOfRows DEF At
          <5>2. QED
            BY <1>2, <2>2, <2>3, <2>5, <5>1 DEF At, EmitsOK
        <4>3. QED
          BY <4>1, <4>2
      <3>2. QED
        BY <3>1 DEF EmitsOK, IsReversal, Recorded
    <2>9. QED
      BY <2>6, <2>7, <2>8 DEF EventsOK
  <1>5. QED
    BY <1>3, <1>4

\* emit hands the event over to the listeners, each of which gets it once.
LEMMA EmitEvents ==
    ASSUME EffectsInv, NEW h \in Handlers, Emit(h)
    PROVE  EventsOK'
  <1> USE DEF EffectsInv
  <1>1. TypeOK /\ UNCHANGED <<payments, effects>>
    BY DEF PostingInv, Emit, tables
  <1>2. PICK n : n = handler[h].id
    OBVIOUS
  <1>3. /\ At(h, "emit")
        /\ background' = background \cup {[kind |-> t, payment |-> n] : t \in Listeners}
    BY <1>2 DEF Emit, Start
  <1>4. /\ ~At(h, "emit")'
        /\ \A g \in Handlers \ {h} : handler'[g] = handler[g]
    <2>1. handler' = [handler EXCEPT ![h].step = "respond", ![h].id = n]
      BY <1>2 DEF Emit, Goto
    <2>2. handler[h] \in HandlerState
      BY <1>1 DEF TypeOK
    <2>3. QED
      BY <1>1, <2>1, <2>2 DEF TypeOK, HandlerState, At
  <1>5. \A t \in background' : t \in background \/ t.payment = n
    BY <1>3
  <1>6. ~IsReversal(n) /\ \A l \in Listeners : ~Recorded(l, n)
    BY <1>2, <1>3 DEF EmitsOK
  <1>7. \A l, i : (Recorded(l, i)' <=> Recorded(l, i)) /\ (IsReversal(i)' <=> IsReversal(i))
    BY <1>1 DEF Recorded, IsReversal
  <1>8. EffectsFollowCommit'
    BY <1>1 DEF EffectsFollowCommit, IsReversal
  <1>9. PendingOK'
    <2>1. ASSUME NEW t \in background', t.kind \in Listeners,
                 NEW i, i = t.payment, NEW l, l = t.kind
          PROVE  ~IsReversal(i)' /\ ~Recorded(l, i)'
      BY <1>5, <1>6, <1>7, <2>1 DEF PendingOK
    <2>2. QED
      BY <2>1 DEF PendingOK, IsReversal, Recorded
  <1>10. EmitsOK'
    <2>1. ASSUME NEW g \in Handlers, At(g, "emit")', NEW i, i = handler'[g].id
          PROVE  /\ ~IsReversal(i)'
                 /\ \A t \in background' : t.kind \in Listeners => t.payment # i
                 /\ \A l \in Listeners : ~Recorded(l, i)'
                 /\ \A f \in Handlers : At(f, "emit")' /\ handler'[f].id = i => f = g
      <3>1. g # h /\ At(g, "emit") /\ i = handler[g].id
        BY <1>4, <2>1 DEF At
      <3>2. i # n
        BY <1>2, <1>3, <3>1 DEF EmitsOK
      <3>3. QED
        BY <1>4, <1>5, <1>7, <3>1, <3>2 DEF EmitsOK, At
    <2>2. QED
      BY <2>1 DEF EmitsOK, IsReversal, Recorded
  <1>11. QED
    BY <1>8, <1>9, <1>10 DEF EventsOK

\* A listener that has recorded a payment has no more work with it.
LEMMA ListenEvents ==
    ASSUME EffectsInv, NEW l \in Listeners, NEW i \in DOMAIN payments, Listen(l, i)
    PROVE  EventsOK'
  <1> USE DEF EffectsInv
  <1>1. /\ TypeOK
        /\ UNCHANGED <<payments, handler>>
        /\ [kind |-> l, payment |-> i] \in background
        /\ background' = background \ {[kind |-> l, payment |-> i]}
    BY DEF PostingInv, Listen, Finish
  <1>2. CASE UNCHANGED effects
    BY <1>1, <1>2, NoNewEvent DEF Kept, At
  <1>3. CASE effects' = [effects EXCEPT ![l] = Append(@, i)]
    <2>1. ~IsReversal(i) /\ ~Recorded(l, i)
      BY <1>1 DEF PendingOK
    <2>2. /\ DOMAIN effects'[l] = DOMAIN effects[l] \cup {Len(effects[l]) + 1}
          /\ \A n \in DOMAIN effects[l] : effects'[l][n] = effects[l][n]
          /\ effects'[l][Len(effects[l]) + 1] = i
          /\ \A m \in Listeners \ {l} : effects'[m] = effects[m]
      <3>1. effects[l] \in Seq(Nat) /\ i \in Nat
        BY <1>1 DEF TypeOK
      <3>2. /\ effects'[l] = Append(effects[l], i)
            /\ \A m \in Listeners \ {l} : effects'[m] = effects[m]
        BY <1>1, <1>3 DEF TypeOK
      <3>3. QED
        BY <3>1, <3>2, AppendKeeps
    <2>3. \A m \in Listeners : \A j : Recorded(m, j)' <=> Recorded(m, j) \/ (m = l /\ j = i)
      BY <2>2 DEF Recorded
    <2>4. \A j : IsReversal(j)' <=> IsReversal(j)
      BY <1>1 DEF IsReversal
    <2>5. EffectsFollowCommit'
      <3>1. ASSUME NEW m \in Listeners, NEW n \in DOMAIN effects'[m]
            PROVE  /\ effects'[m][n] \in DOMAIN payments'
                   /\ payments'[effects'[m][n]].reversalOf = 0
        BY <1>1, <2>1, <2>2 DEF EffectsFollowCommit, IsReversal
      <3>2. ASSUME NEW m \in Listeners, NEW n \in DOMAIN effects'[m],
                   NEW o \in DOMAIN effects'[m], effects'[m][o] = effects'[m][n]
            PROVE  o = n
        BY <2>1, <2>2, <3>2 DEF EffectsFollowCommit, Recorded
      <3>3. QED
        BY <3>1, <3>2 DEF EffectsFollowCommit, IsReversal
    <2>6. PendingOK'
      <3>1. ASSUME NEW t \in background', t.kind = l, t.payment = i
            PROVE  FALSE
        <4>1. t \in Tasks
          BY <1>1, <3>1 DEF TypeOK
        <4>2. t = [kind |-> l, payment |-> i]
          BY <3>1, <4>1 DEF Tasks
        <4>3. QED
          BY <1>1, <4>2
      <3>2. ASSUME NEW t \in background', t.kind \in Listeners
            PROVE  ~IsReversal(t.payment)' /\ ~Recorded(t.kind, t.payment)'
        <4>1. t \in background
          BY <1>1
        <4>2. ~IsReversal(t.payment) /\ ~Recorded(t.kind, t.payment)
          BY <4>1, <3>2 DEF PendingOK
        <4>3. ~IsReversal(t.payment)'
          BY <2>4, <4>2
        <4>4. ~Recorded(t.kind, t.payment)'
          BY <2>3, <3>1, <3>2, <4>2
        <4>5. QED
          BY <4>3, <4>4
      <3>3. QED
        BY <3>2 DEF PendingOK, IsReversal, Recorded
    <2>7. EmitsOK'
      <3>1. ASSUME NEW g \in Handlers, At(g, "emit")', NEW j, j = handler'[g].id
            PROVE  /\ ~IsReversal(j)'
                   /\ \A t \in background' : t.kind \in Listeners => t.payment # j
                   /\ \A m \in Listeners : ~Recorded(m, j)'
                   /\ \A f \in Handlers : At(f, "emit")' /\ handler'[f].id = j => f = g
        <4>1. At(g, "emit") /\ j = handler[g].id
          BY <1>1, <3>1 DEF At
        <4>2. j # i
          BY <1>1, <4>1 DEF EmitsOK
        <4>3. QED
          BY <1>1, <2>3, <2>4, <4>1, <4>2 DEF EmitsOK, At
      <3>2. QED
        BY <3>1 DEF EmitsOK, IsReversal, Recorded
    <2>8. QED
      BY <2>5, <2>6, <2>7 DEF EventsOK
  <1>4. QED
    BY <1>2, <1>3 DEF Listen
\* Every other step leaves the events alone: a handler stops or goes to
\* another step than "emit", and the work it starts is not a listener's.
LEMMA EventsStep ==
    ASSUME EffectsInv, [Next]_vars
    PROVE  EventsOK'
  <1> USE DEF EffectsInv
  <1>1. TypeOK /\ Kept
    BY KeptStep DEF PostingInv
  <1>2. "cache" \notin Listeners /\ "audit" \notin Listeners
    BY PaymentsAssumption DEF PaymentsAssumption
  <1>3. ASSUME NEW h \in Handlers, NEW v, handler' = [handler EXCEPT ![h] = v],
               v.step # "emit", UNCHANGED effects,
               \A t \in background' : t.kind \in Listeners => t \in background
        PROVE  EventsOK'
    <2>1. \A g \in Handlers : At(g, "emit")' => At(g, "emit") /\ handler'[g] = handler[g]
      BY <1>1, <1>3 DEF At, TypeOK
    <2>2. QED
      BY <1>1, <1>3, <2>1, NoNewEvent
  <1>4. ASSUME NEW h \in Handlers, NEW step, NEW i, Goto(h, step, i), step # "emit",
               UNCHANGED <<effects, background>>
        PROVE  EventsOK'
    <2>1. handler[h] \in HandlerState
      BY <1>1 DEF TypeOK
    <2>2. PICK v : v = [handler[h] EXCEPT !.step = step, !.id = i]
      OBVIOUS
    <2>3. handler' = [handler EXCEPT ![h] = v] /\ v.step = step
      BY <1>4, <2>1, <2>2 DEF Goto, HandlerState
    <2>4. QED
      BY <1>3, <1>4, <2>3
  <1>5. ASSUME NEW h \in Handlers, NEW k \in Keys, Submit(h, k)
        PROVE  EventsOK'
    <2>1. PICK v : v = [Idle EXCEPT !.step = "lookup", !.key = k]
      OBVIOUS
    <2>2. v.step = "lookup"
      BY <2>1 DEF Idle
    <2>3. QED
      BY <1>3, <1>5, <2>1, <2>2 DEF Submit, tables
  <1>6. ASSUME NEW h \in Handlers, CacheLookup(h) \/ FindExisting(h)
        PROVE  EventsOK'
    BY <1>4, <1>6 DEF CacheLookup, FindExisting, tables
  <1>7. ASSUME NEW h \in Handlers, CheckPolicy(h)
        PROVE  EventsOK'
    <2>1. Idle.step # "emit"
      BY DEF Idle
    <2>2. UNCHANGED <<effects, background>>
      BY <1>7 DEF CheckPolicy, tables
    <2>3. CASE Done(h)
      BY <1>3, <2>1, <2>2, <2>3 DEF Done
    <2>4. CASE Goto(h, "insert", 0)
      BY <1>4, <2>2, <2>4
    <2>5. QED
      BY <1>7, <2>3, <2>4 DEF CheckPolicy
  <1>8. ASSUME NEW h \in Handlers, Respond(h)
        PROVE  EventsOK'
    <2>1. \A t \in background' : t.kind \in Listeners => t \in background
      BY <1>2, <1>8 DEF Respond, Start
    <2>2. Idle.step # "emit"
      BY DEF Idle
    <2>3. QED
      BY <1>3, <1>8, <2>1, <2>2 DEF Respond, tables, Done
  <1>9. ASSUME NEW h \in Handlers, Reverse(h)
        PROVE  EventsOK'
    <2>1. \A t \in background' : t.kind \in Listeners => t \in background
      BY <1>2, <1>9 DEF Reverse, Start
    <2>2. Idle.step # "emit"
      BY DEF Idle
    <2>3. QED
      BY <1>3, <1>9, <2>1, <2>2 DEF Reverse, Done
  <1>10. ASSUME NEW h \in Handlers, NEW i \in DOMAIN payments, ReadOriginal(h, i)
         PROVE  EventsOK'
    <2>1. PICK v : v = [step |-> "reverse", key |-> NULL, id |-> i, row |-> payments[i]]
      OBVIOUS
    <2>2. v.step = "reverse"
      BY <2>1
    <2>3. QED
      BY <1>3, <1>10, <2>1, <2>2 DEF ReadOriginal, tables
  <1>11. ASSUME UNCHANGED <<handler, effects>>, background' \subseteq background
         PROVE  EventsOK'
    BY <1>1, <1>11, NoNewEvent DEF At
  <1>12. CASE Crash
    <2>1. \A g \in Handlers : ~At(g, "emit")'
      BY <1>12 DEF Crash, At, Idle
    <2>2. QED
      BY <1>1, <1>12, <2>1, NoNewEvent DEF Crash, tables
  <1>13. ASSUME NEW h \in Handlers, Insert(h) \/ Emit(h)
         PROVE  EventsOK'
    BY <1>1, <1>13, InsertEvents, EmitEvents
  <1>14. ASSUME NEW h \in Handlers, HandlerStep(h)
         PROVE  EventsOK'
    BY <1>6, <1>7, <1>8, <1>9, <1>13, <1>14 DEF HandlerStep
  <1>15. ASSUME NEW i \in DOMAIN payments, BackgroundStep(i)
         PROVE  EventsOK'
    BY <1>11, <1>15, ListenEvents DEF BackgroundStep, CacheWrite, AuditWrite, Finish, tables
  <1>16. CASE \/ \E m \in Marketers, a \in Amounts : Allocate(m, a) \/ ConfirmDeposit(m, a)
              \/ \E p \in Policies : SetPolicyStatus(p)
              \/ \E k \in Keys : Expire(k)
              \/ UNCHANGED vars
    BY <1>11, <1>16 DEF Allocate, ConfirmDeposit, WalletMove, SetPolicyStatus, Expire,
                        vars, tables
  <1>17. QED
    BY <1>5, <1>10, <1>12, <1>14, <1>15, <1>16 DEF Next, OfficeStep
-------------------------------------------------------------------------------
(* Theorems.                                                                *)

\* The invariant holds of the empty tables.
LEMMA EffectsInvInit == Init => EffectsInv
  <1> SUFFICES ASSUME Init PROVE EffectsInv
    OBVIOUS
  <1>1. PostingInv
    BY PostingInvInit
  <1>2. RowsOK /\ MarksOK /\ WalletMatchesPayments
    BY DEF Init, RowsOK, MarksOK, WalletMatchesPayments, Collections
  <1>3. ReadsOK /\ EmitsOK
    BY DEF Init, ReadsOK, ReadOK, EmitsOK, At, Idle
  <1>4. EffectsFollowCommit /\ PendingOK
    BY DEF Init, EffectsFollowCommit, PendingOK
  <1>5. QED
    BY <1>1, <1>2, <1>3, <1>4 DEF EffectsInv

\* Every step keeps it.
LEMMA EffectsInvStep == EffectsInv /\ [Next]_vars => EffectsInv'
  <1> SUFFICES ASSUME EffectsInv, [Next]_vars PROVE EffectsInv'
    OBVIOUS
  <1>1. PostingInv'
    BY PostingInvStep DEF EffectsInv
  <1>2. QED
    BY <1>1, RowsStep, ReadsStep, WalletStep, EventsStep DEF EventsOK, EffectsInv

\* A payment is taken back exactly when it is marked, by one row and by its
\* whole amount, because the reversal key admits one row.
LEMMA ReversedOnceHolds == EffectsInv => ReversedOnce
  <1> SUFFICES ASSUME EffectsInv, NEW i \in DOMAIN payments
               PROVE  LET offsets == {j \in DOMAIN payments : payments[j].reversalOf = i}
                      IN  IF payments[i].reversalStatus = "Reversed"
                          THEN \E j \in offsets : /\ offsets = {j}
                                                  /\ payments[j].amount = -payments[i].amount
                                                  /\ ~IsReversal(i)
                          ELSE offsets = {}
    BY DEF ReversedOnce
  <1>1. ASSUME NEW j \in DOMAIN payments, payments[j].reversalOf = i
        PROVE  OffsetRow(j, i)
    <2>1. i # 0
      BY RowTyped DEF EffectsInv, PostingInv
    <2>2. QED
      BY <1>1, <2>1 DEF EffectsInv, RowsOK, PaidRow
  <1>2. ASSUME NEW j \in DOMAIN payments, NEW g \in DOMAIN payments,
               payments[j].reversalOf = i, payments[g].reversalOf = i
        PROVE  j = g
    BY <1>1, <1>2 DEF OffsetRow, EffectsInv, PostingInv, OnePaymentPerKey
  <1>3. CASE payments[i].reversalStatus = "Reversed"
    <2>1. PICK j \in DOMAIN payments : payments[j].reversalOf = i
      BY <1>3 DEF EffectsInv, MarksOK
    <2>2. payments[j].amount = -payments[i].amount /\ ~IsReversal(i)
      BY <1>1, <2>1 DEF OffsetRow, PaidRow, IsReversal
    <2>3. QED
      BY <1>2, <1>3, <2>1, <2>2
  <1>4. CASE payments[i].reversalStatus # "Reversed"
    BY <1>1, <1>4 DEF OffsetRow
  <1>5. QED
    BY <1>3, <1>4

\* What the rows, the wallets, the listeners and the handlers know of one
\* another, always.
THEOREM EffectsInvariant == Spec => []EffectsInv
  BY EffectsInvInit, EffectsInvStep, PTL DEF Spec

\* What belongs to a payment follows its row, and only once: the wallet row is
\* committed with it, each listener records it at most once and only after the
\* commit, and it is offset at most once, however requests are repeated, lost,
\* interleaved or cut off by a restart.
THEOREM EffectsExactlyOnce == Spec => []EffectsOnce
  <1>1. EffectsInv => EffectsOnce
    BY ReversedOnceHolds DEF EffectsInv, EffectsOnce
  <1>2. QED
    BY <1>1, EffectsInvariant, PTL

\* No step edits or removes a payment; a reversal only marks it.
THEOREM RowsAreNeverEdited == Spec => RowsNeverEdited
  <1>1. PostingInv /\ [Next]_vars => Kept
    BY KeptStep
  <1>2. Kept <=> \A i \in DOMAIN payments :
                   /\ i \in DOMAIN payments'
                   /\ payments'[i] \in {payments[i],
                                        [payments[i] EXCEPT !.reversalStatus = "Reversed"]}
    BY DEF Kept
  <1>3. PostingInv /\ [Next]_vars
          => [\A i \in DOMAIN payments :
                /\ i \in DOMAIN payments'
                /\ payments'[i] \in {payments[i],
                                     [payments[i] EXCEPT !.reversalStatus = "Reversed"]}]_vars
    BY <1>1, <1>2
  <1>4. QED
    BY <1>3, PostingInvariant, PTL DEF Spec, RowsNeverEdited
-------------------------------------------------------------------------------
(* Payments implements PaymentLedger: the tables, seen as the keys that are *)
(* paid, the keys that are refunded and the balances summed from the wallet *)
(* rows, take one step of the ledger for a commit that adds a row, and none *)
(* otherwise.                                                               *)

\* The rows of one kind that belong to a marketer, in a wallet table w.
RowsOf(w, type, m) == {i \in DOMAIN w : w[i].type = type /\ w[i].marketer = m}
AmountsIn(w, S) == [i \in S |-> w[i].amount]
SumOfRows(w, type, m) ==
    SumFunctionOnSet(AmountsIn(w, RowsOf(w, type, m)), RowsOf(w, type, m))

\* getBalance sums the amounts of those rows, before and after a step.
LEMMA TotalIsSum ==
    ASSUME NEW type, NEW m
    PROVE  /\ Total(type, m) = SumOfRows(wallet, type, m)
           /\ Total(type, m)' = SumOfRows(wallet', type, m)
  <1>1. ASSUME NEW w, NEW S
        PROVE  SumFunction([i \in S |-> w[i].amount]) = SumFunctionOnSet(AmountsIn(w, S), S)
    BY DEF SumFunction, AmountsIn
  <1>2. QED
    BY <1>1, Zenon DEF Total, SumOfRows, RowsOf

\* The rows of a wallet are finitely many and their amounts are integers.
LEMMA RowsFinite ==
    ASSUME NEW w \in Seq(WalletRow), NEW type, NEW m
    PROVE  /\ IsFiniteSet(RowsOf(w, type, m))
           /\ IntegersOn(AmountsIn(w, RowsOf(w, type, m)), RowsOf(w, type, m))
           /\ SumOfRows(w, type, m) \in Int
  <1>1. IsFiniteSet(1 .. Len(w)) /\ RowsOf(w, type, m) \subseteq 1 .. Len(w)
    BY FS_Interval DEF RowsOf
  <1>2. IsFiniteSet(RowsOf(w, type, m))
    BY <1>1, FS_Subset
  <1>3. IntegersOn(AmountsIn(w, RowsOf(w, type, m)), RowsOf(w, type, m))
    <2>1. \A i \in RowsOf(w, type, m) : w[i] \in WalletRow
      BY DEF RowsOf
    <2>2. QED
      BY <2>1 DEF IntegersOn, AmountsIn, WalletRow
  <1>4. QED
    BY <1>2, <1>3, SumOnStep DEF SumOfRows

\* A new row adds its amount to the sum of its kind and marketer only.
LEMMA SumAppend ==
    ASSUME NEW w \in Seq(WalletRow), NEW row \in WalletRow, NEW type, NEW m
    PROVE  SumOfRows(Append(w, row), type, m) =
             SumOfRows(w, type, m) +
             (IF row.type = type /\ row.marketer = m THEN row.amount ELSE 0)
  <1>1. PICK n, v : n = Len(w) + 1 /\ v = Append(w, row)
    OBVIOUS
  <1>2. PICK S, U : S = RowsOf(w, type, m) /\ U = RowsOf(v, type, m)
    OBVIOUS
  <1>3. /\ v \in Seq(WalletRow)
        /\ DOMAIN v = DOMAIN w \cup {n}
        /\ n \notin DOMAIN w
        /\ \A i \in DOMAIN w : v[i] = w[i]
        /\ v[n] = row
    BY <1>1, AppendKeeps
  <1>4. PICK f, g : f = AmountsIn(w, S) /\ g = AmountsIn(v, U)
    OBVIOUS
  <1>5. /\ IsFiniteSet(S) /\ IntegersOn(f, S)
        /\ IsFiniteSet(U) /\ IntegersOn(g, U)
        /\ SumOfRows(w, type, m) = SumFunctionOnSet(f, S)
        /\ SumOfRows(v, type, m) = SumFunctionOnSet(g, U)
        /\ SumFunctionOnSet(f, S) \in Int
    BY <1>2, <1>3, <1>4, RowsFinite DEF SumOfRows
  <1>6. n \notin S /\ S \subseteq U /\ \A i \in S : g[i] = f[i]
    BY <1>2, <1>3, <1>4 DEF RowsOf, AmountsIn
  <1>7. SumFunctionOnSet(g, S) = SumFunctionOnSet(f, S)
    BY <1>5, <1>6, SumOnSame
  <1>8. CASE row.type = type /\ row.marketer = m
    <2>1. n \in U /\ U \ {n} = S /\ g[n] = row.amount
      BY <1>2, <1>3, <1>4, <1>8 DEF RowsOf, AmountsIn
    <2>2. SumFunctionOnSet(g, U) = g[n] + SumFunctionOnSet(g, S) /\ g[n] \in Int
      BY <1>5, <2>1, SumOnStep
    <2>3. QED
      BY <1>1, <1>5, <1>7, <1>8, <2>1, <2>2
  <1>9. CASE ~(row.type = type /\ row.marketer = m)
    <2>1. U = S
      BY <1>2, <1>3, <1>9 DEF RowsOf
    <2>2. QED
      BY <1>1, <1>5, <1>7, <1>9, <2>1
  <1>10. QED
    BY <1>8, <1>9

\* The same of the sums of Payments.
LEMMA TotalAppend ==
    ASSUME wallet \in Seq(WalletRow), NEW row \in WalletRow, wallet' = Append(wallet, row),
           NEW type, NEW m
    PROVE  /\ Total(type, m) \in Int
           /\ Total(type, m)' = Total(type, m) +
                (IF row.type = type /\ row.marketer = m THEN row.amount ELSE 0)
  BY TotalIsSum, RowsFinite, SumAppend

\* A step that leaves the wallets alone leaves every sum alone.
LEMMA TotalKept ==
    ASSUME UNCHANGED wallet, NEW type, NEW m
    PROVE  Total(type, m)' = Total(type, m)
  BY TotalIsSum

\* The sums are integers.
LEMMA TotalType ==
    ASSUME wallet \in Seq(WalletRow), NEW type, NEW m
    PROVE  Total(type, m) \in Int
  BY TotalIsSum, RowsFinite
-------------------------------------------------------------------------------
(* The keys that are paid and refunded.                                     *)

\* A key is refunded when the row posted for it is marked.
LEMMA RefundedIs ==
    ASSUME OnePaymentPerKey
    PROVE  /\ PaidKeys = {k \in Keys : \E i \in DOMAIN payments : PostedAs(i, k)}
           /\ RefundedKeys = {k \in Keys : \E i \in DOMAIN payments :
                                PostedAs(i, k) /\ payments[i].reversalStatus = "Reversed"}
  <1>1. PaidKeys = {k \in Keys : \E i \in DOMAIN payments : PostedAs(i, k)}
    BY DEF PaidKeys, UniqueIndexHas, PostedAs
  <1>2. ASSUME NEW k \in Keys, NEW i \in DOMAIN payments, PostedAs(i, k)
        PROVE  IdOfKey(ClientKey(k)) = i
    <2>1. UniqueIndexHas(ClientKey(k))
      BY <1>2 DEF UniqueIndexHas, PostedAs
    <2>2. QED
      BY <1>2, <2>1, IdOfKeyFound DEF OnePaymentPerKey, PostedAs
  <1>3. QED
    BY <1>1, <1>2 DEF RefundedKeys

\* The ledger sees what the tables hold.
LEMMA SameView ==
    ASSUME UNCHANGED <<payments, wallet>>
    PROVE  UNCHANGED Ledger!ledgerVars
  <1>1. PaidKeys' = PaidKeys
    BY DEF PaidKeys, UniqueIndexHas
  <1>2. RefundedKeys' = RefundedKeys
    BY <1>1 DEF RefundedKeys, IdOfKey
  <1>3. \A m \in Marketers : Balance(m)' = Balance(m) /\ CashLiability(m)' = CashLiability(m)
    BY TotalKept DEF Balance, CashLiability
  <1>4. QED
    BY <1>1, <1>2, <1>3 DEF Ledger!ledgerVars

\* The empty tables are the empty ledger.
LEMMA LedgerInitHolds == Init => Ledger!LedgerInit
  <1> SUFFICES ASSUME Init PROVE Ledger!LedgerInit
    OBVIOUS
  <1>1. PaidKeys = {} /\ RefundedKeys = {}
    BY DEF Init, PaidKeys, UniqueIndexHas, RefundedKeys
  <1>2. ASSUME NEW type, NEW m
        PROVE  Total(type, m) = 0
    <2>1. RowsOf(wallet, type, m) = {}
      BY DEF RowsOf, Init
    <2>2. QED
      BY <2>1, TotalIsSum, SumOnStep, FS_EmptySet DEF SumOfRows, IntegersOn
  <1>3. \A m \in Marketers : Balance(m) = 0 /\ CashLiability(m) = 0
    BY <1>2 DEF Balance, CashLiability
  <1>4. QED
    BY <1>1, <1>3 DEF Ledger!LedgerInit

\* The commit of a payment is Pay of its key: the row and, for cash taken by a
\* marketer, his wallet row.
LEMMA InsertPays ==
    ASSUME EffectsInv, NEW h \in Handlers, Insert(h), ~UNCHANGED payments
    PROVE  Ledger!Pay(handler[h].key)
  <1>1. PICK k \in Keys : k = handler[h].key
    BY InsertShape DEF EffectsInv, PostingInv
  <1>2. PICK n \in Nat \ DOMAIN payments :
          /\ n = Len(payments) + 1
          /\ DOMAIN payments' = DOMAIN payments \cup {n}
          /\ \A j \in DOMAIN payments : payments'[j] = payments[j]
          /\ payments'[n] = NewPayment(handler[h].key)
          /\ payments'[n].reversalStatus = "None"
    BY InsertedRow DEF EffectsInv
  <1>3. payments'[n].idempotencyKey = ClientKey(k) /\ ~UniqueIndexHas(ClientKey(k))
    BY <1>1, <1>2, InsertShape, NewPaymentType DEF EffectsInv, PostingInv
  <1>4. TypeOK /\ OnePaymentPerKey /\ OnePaymentPerKey'
    <2>1. Next
      BY Zenon DEF Next, HandlerStep
    <2>2. QED
      BY <2>1, OnePaymentPerKeyStep DEF EffectsInv, PostingInv
  <1>5. /\ k \notin PaidKeys
        /\ PaidKeys' = PaidKeys \cup {k}
    BY <1>2, <1>3, KeysType DEF PaidKeys, UniqueIndexHas
  <1>6. RefundedKeys' = RefundedKeys
    <2>1. \A l \in Keys :
            (\E i \in DOMAIN payments' : /\ payments'[i].idempotencyKey = ClientKey(l)
                                         /\ payments'[i].reversalStatus = "Reversed")
            <=> (\E i \in DOMAIN payments : PostedAs(i, l) /\ payments[i].reversalStatus = "Reversed")
      BY <1>2 DEF PostedAs
    <2>2. RefundedKeys = {l \in Keys : \E i \in DOMAIN payments :
                            PostedAs(i, l) /\ payments[i].reversalStatus = "Reversed"}
      BY <1>4, RefundedIs
    <2>3. RefundedKeys' = {l \in Keys : \E i \in DOMAIN payments' :
                             /\ payments'[i].idempotencyKey = ClientKey(l)
                             /\ payments'[i].reversalStatus = "Reversed"}
      <3>1. ASSUME NEW l \in Keys, NEW i \in DOMAIN payments',
                   payments'[i].idempotencyKey = ClientKey(l)
            PROVE  IdOfKey(ClientKey(l))' = i
        BY <1>4, <3>1 DEF IdOfKey, OnePaymentPerKey
      <3>2. QED
        BY <3>1 DEF RefundedKeys, PaidKeys, UniqueIndexHas
    <2>4. QED
      BY <2>1, <2>2, <2>3
  <1>7. wallet \in Seq(WalletRow)
    BY <1>4 DEF TypeOK
  <1>8. ASSUME NEW m \in Marketers
        PROVE  LET moved == IF m = Charge[k].marketer THEN Charge[k].amount ELSE 0
               IN  Balance(m)' = Balance(m) - moved /\ CashLiability(m)' = CashLiability(m) + moved
    <2>1. Dto[k] \in PaymentRequest /\ NULL \notin Marketers
      BY PaymentsAssumption DEF PaymentsAssumption
    <2>2. \A type : Total(type, m) \in Int
      BY <1>7, TotalType
    <2>3. CASE CollectsCash(NewPayment(k))
      <3>1. wallet' = Append(wallet, CashRow(NewPayment(k), n))
        BY <1>1, <1>2, <2>3 DEF Insert
      <3>2. /\ CashRow(NewPayment(k), n) \in WalletRow
            /\ CashRow(NewPayment(k), n).type = "CashCollectionPosted"
            /\ CashRow(NewPayment(k), n).marketer = Dto[k].marketer
            /\ CashRow(NewPayment(k), n).amount = Dto[k].amount
        BY <2>1, <2>3 DEF CashRow, NewPayment, WalletRow, PaymentRequest, CollectsCash
      <3>3. Charge[k] = [marketer |-> Dto[k].marketer, amount |-> Dto[k].amount]
        BY <2>3 DEF Charge
      <3>4. /\ Total("Allocation", m)' = Total("Allocation", m)
            /\ Total("DepositConfirmed", m)' = Total("DepositConfirmed", m)
            /\ Total("CashCollectionPosted", m)' = Total("CashCollectionPosted", m) +
                 (IF Dto[k].marketer = m THEN Dto[k].amount ELSE 0)
        BY <1>7, <2>2, <3>1, <3>2, TotalAppend
      <3>5. Dto[k].amount \in Int
        BY <2>1 DEF PaymentRequest
      <3>6. QED
        BY <2>2, <3>3, <3>4, <3>5 DEF Balance, CashLiability
    <2>4. CASE ~CollectsCash(NewPayment(k))
      <3>1. wallet' = wallet
        BY <1>1, <1>2, <2>4 DEF Insert
      <3>2. Charge[k].marketer # m
        BY <2>1, <2>4 DEF Charge
      <3>3. QED
        BY <2>2, <3>1, <3>2, TotalKept DEF Balance, CashLiability
    <2>5. QED
      BY <2>3, <2>4
  <1>9. Ledger!Pay(k)
    BY <1>5, <1>6, <1>8 DEF Ledger!Pay
  <1>10. QED
    BY <1>1, <1>9
\* The commit of a reversal is Refund of the key whose payment it marks.
LEMMA ReverseRefunds ==
    ASSUME EffectsInv, NEW h \in Handlers, Reverse(h), ~UNCHANGED payments
    PROVE  \E k \in Keys : Ledger!Refund(k)
  <1>1. PICK i \in DOMAIN payments, n \in Nat \ DOMAIN payments :
          /\ PaidRow(i)
          /\ payments[i].reversalStatus = "None"
          /\ DOMAIN payments' = DOMAIN payments \cup {n}
          /\ \A j \in DOMAIN payments \ {i} : payments'[j] = payments[j]
          /\ payments'[i] = [payments[i] EXCEPT !.reversalStatus = "Reversed"]
          /\ payments'[n].idempotencyKey = ReversalKey(i)
          /\ payments'[n].reversalStatus = "None"
    BY ReversedRow
  <1>2. PICK k \in Keys : payments[i].idempotencyKey = ClientKey(k)
    BY <1>1 DEF PaidRow
  <1>3. /\ TypeOK /\ OnePaymentPerKey /\ OnePaymentPerKey'
        /\ wallet' = wallet
    <2>1. Next
      BY Zenon DEF Next, HandlerStep
    <2>2. QED
      BY <2>1, OnePaymentPerKeyStep DEF EffectsInv, PostingInv, Reverse
  <1>4. /\ payments'[i].idempotencyKey = ClientKey(k)
        /\ payments'[i].reversalStatus = "Reversed"
    <2>1. payments[i] \in PaymentRow
      BY <1>3, RowTyped
    <2>2. QED
      BY <1>1, <1>2, <2>1 DEF PaymentRow
  <1>5. \A l \in Keys : payments'[n].idempotencyKey # ClientKey(l)
    <2>1. i \in Nat
      BY <1>3, RowTyped
    <2>2. \A l \in Keys : ClientKey(l) # ReversalKey(i)
      BY <2>1, KeysType
    <2>3. payments'[n].idempotencyKey = ReversalKey(i)
      BY <1>1
    <2>4. QED
      BY <2>2, <2>3, Zenon
  <1>6. PaidKeys' = PaidKeys /\ k \in PaidKeys
    <2>1. \A j \in DOMAIN payments :
             /\ j \in DOMAIN payments'
             /\ payments'[j].idempotencyKey = payments[j].idempotencyKey
      BY <1>1, <1>2, <1>4
    <2>2. \A l \in Keys, j \in DOMAIN payments' :
             payments'[j].idempotencyKey = ClientKey(l) => j \in DOMAIN payments
      BY <1>1, <1>5
    <2>3. QED
      BY <1>2, <2>1, <2>2 DEF PaidKeys, UniqueIndexHas
  <1>7. RefundedKeys = {l \in Keys : \E j \in DOMAIN payments :
                          PostedAs(j, l) /\ payments[j].reversalStatus = "Reversed"}
    BY <1>3, RefundedIs
  <1>8. RefundedKeys' = {l \in Keys : \E j \in DOMAIN payments' :
                           /\ payments'[j].idempotencyKey = ClientKey(l)
                           /\ payments'[j].reversalStatus = "Reversed"}
    <2>1. ASSUME NEW l \in Keys, NEW j \in DOMAIN payments',
                 payments'[j].idempotencyKey = ClientKey(l)
          PROVE  IdOfKey(ClientKey(l))' = j
      BY <1>3, <2>1 DEF IdOfKey, OnePaymentPerKey
    <2>2. QED
      BY <2>1 DEF RefundedKeys, PaidKeys, UniqueIndexHas
  <1>9. k \notin RefundedKeys
    BY <1>1, <1>2, <1>3, <1>7 DEF OnePaymentPerKey, PostedAs
  <1>10. RefundedKeys' = RefundedKeys \cup {k}
    <2>1. ASSUME NEW l \in Keys
          PROVE  (\E j \in DOMAIN payments' : /\ payments'[j].idempotencyKey = ClientKey(l)
                                              /\ payments'[j].reversalStatus = "Reversed")
                 <=> \/ l = k
                     \/ \E j \in DOMAIN payments :
                          PostedAs(j, l) /\ payments[j].reversalStatus = "Reversed"
      <3>1. l = k => \E j \in DOMAIN payments' : /\ payments'[j].idempotencyKey = ClientKey(l)
                                                 /\ payments'[j].reversalStatus = "Reversed"
        BY <1>1, <1>4
      <3>2. ASSUME NEW j \in DOMAIN payments, PostedAs(j, l),
                   payments[j].reversalStatus = "Reversed"
            PROVE  /\ j \in DOMAIN payments'
                   /\ payments'[j].idempotencyKey = ClientKey(l)
                   /\ payments'[j].reversalStatus = "Reversed"
        BY <1>1, <3>2 DEF PostedAs
      <3>3. ASSUME NEW j \in DOMAIN payments', payments'[j].idempotencyKey = ClientKey(l),
                   payments'[j].reversalStatus = "Reversed", l # k
            PROVE  /\ j \in DOMAIN payments
                   /\ PostedAs(j, l)
                   /\ payments[j].reversalStatus = "Reversed"
        <4>1. j # n
          BY <1>5, <3>3
        <4>2. j # i
          BY <1>4, <3>3, KeysType
        <4>3. QED
          BY <1>1, <3>3, <4>1, <4>2 DEF PostedAs
      <3>4. QED
        BY <3>1, <3>2, <3>3
    <2>2. QED
      BY <1>7, <1>8, <2>1
  <1>11. \A m \in Marketers : Balance(m)' = Balance(m) /\ CashLiability(m)' = CashLiability(m)
    BY <1>3, TotalKept DEF Balance, CashLiability
  <1>12. Ledger!Refund(k)
    BY <1>6, <1>9, <1>10, <1>11 DEF Ledger!Refund
  <1>13. QED
    BY <1>12

\* An allocation and a confirmed deposit are the ledger's Grant and Bank.
LEMMA OfficeMovesLedger ==
    ASSUME EffectsInv, NEW m \in Marketers, NEW a \in Amounts
    PROVE  /\ Allocate(m, a) => Ledger!Grant(m, a)
           /\ ConfirmDeposit(m, a) => Ledger!Bank(m, a)
  <1>1. wallet \in Seq(WalletRow) /\ a \in Nat
    BY PaymentsAssumption DEF PaymentsAssumption, EffectsInv, PostingInv, TypeOK
  <1>2. ASSUME NEW type \in {"Allocation", "DepositConfirmed"}, WalletMove(type, m, a)
        PROVE  /\ PaidKeys' = PaidKeys /\ RefundedKeys' = RefundedKeys
               /\ \A t, o : /\ Total(t, o) \in Int
                            /\ Total(t, o)' = Total(t, o) + (IF t = type /\ o = m THEN a ELSE 0)
    <2> DEFINE row == [type |-> type, marketer |-> m, amount |-> a, reference |-> 0]
    <2>1. payments' = payments /\ wallet' = Append(wallet, row)
      BY <1>2 DEF WalletMove
    <2>2. row \in WalletRow /\ row.type = type /\ row.marketer = m /\ row.amount = a
      BY <1>1 DEF WalletRow
    <2> HIDE DEF row
    <2>3. PaidKeys' = PaidKeys /\ RefundedKeys' = RefundedKeys
      BY <2>1 DEF PaidKeys, UniqueIndexHas, RefundedKeys, IdOfKey
    <2>4. ASSUME NEW t, NEW o
          PROVE  /\ Total(t, o) \in Int
                 /\ Total(t, o)' = Total(t, o) + (IF t = type /\ o = m THEN a ELSE 0)
      <3>1. /\ Total(t, o) \in Int
            /\ Total(t, o)' = Total(t, o) +
                 (IF row.type = t /\ row.marketer = o THEN row.amount ELSE 0)
        BY <1>1, <2>1, <2>2, TotalAppend
      <3>2. QED
        BY <2>2, <3>1
    <2>5. QED
      BY <2>3, <2>4
  <1>3. ASSUME Allocate(m, a)
        PROVE  Ledger!Grant(m, a)
    <2>1. WalletMove("Allocation", m, a)
      BY <1>3 DEF Allocate
    <2>2. \A o \in Marketers : /\ Balance(o)' = IF o = m THEN Balance(m) + a ELSE Balance(o)
                               /\ CashLiability(o)' = CashLiability(o)
      BY <1>1, <1>2, <2>1 DEF Balance, CashLiability
    <2>3. QED
      BY <1>2, <2>1, <2>2 DEF Ledger!Grant
  <1>4. ASSUME ConfirmDeposit(m, a)
        PROVE  Ledger!Bank(m, a)
    <2>1. WalletMove("DepositConfirmed", m, a)
      BY <1>4 DEF ConfirmDeposit
    <2>2. \A o \in Marketers :
            /\ CashLiability(o)' = IF o = m THEN CashLiability(m) - a ELSE CashLiability(o)
            /\ Balance(o)' = Balance(o)
      BY <1>1, <1>2, <2>1 DEF Balance, CashLiability
    <2>3. QED
      BY <1>2, <2>1, <2>2 DEF Ledger!Bank
  <1>5. QED
    BY <1>3, <1>4
-------------------------------------------------------------------------------
\* Every step of the code is one step of the ledger or none.
LEMMA LedgerStep ==
    ASSUME EffectsInv, [Next]_vars
    PROVE  [Ledger!LedgerNext]_Ledger!ledgerVars
  <1>1. ASSUME NEW h \in Handlers, Insert(h)
        PROVE  [Ledger!LedgerNext]_Ledger!ledgerVars
    <2>1. CASE UNCHANGED payments
      <3>1. payments' # Append(payments, NewPayment(handler[h].key))
        BY <2>1 DEF TypeOK, EffectsInv, PostingInv
      <3>2. QED
        BY <1>1, <2>1, <3>1, SameView DEF Insert
    <2>2. CASE ~UNCHANGED payments
      <3>1. handler[h].key \in Keys
        BY <1>1, InsertShape DEF EffectsInv, PostingInv
      <3>2. QED
        BY <1>1, <2>2, <3>1, InsertPays DEF Ledger!LedgerNext
    <2>3. QED
      BY <2>1, <2>2
  <1>2. ASSUME NEW h \in Handlers, Reverse(h)
        PROVE  [Ledger!LedgerNext]_Ledger!ledgerVars
    <2>1. CASE UNCHANGED payments
      BY <1>2, <2>1, SameView DEF Reverse
    <2>2. CASE ~UNCHANGED payments
      BY <1>2, <2>2, ReverseRefunds DEF Ledger!LedgerNext
    <2>3. QED
      BY <2>1, <2>2
  <1>3. ASSUME NEW m \in Marketers, NEW a \in Amounts, Allocate(m, a) \/ ConfirmDeposit(m, a)
        PROVE  [Ledger!LedgerNext]_Ledger!ledgerVars
    BY <1>3, OfficeMovesLedger DEF Ledger!LedgerNext
  <1>4. CASE UNCHANGED <<payments, wallet>>
    BY <1>4, SameView
  <1>5. QED
    BY <1>1, <1>2, <1>3, <1>4
    DEF Next, HandlerStep, OfficeStep, BackgroundStep, Submit, CacheLookup, FindExisting,
        CheckPolicy, Emit, Respond, ReadOriginal, CacheWrite, AuditWrite, Listen,
        SetPolicyStatus, Expire, Crash, vars, tables

\* The handlers, transactions, retries and restarts implement the ledger: every
\* payment is taken once and refunded at most once, and what getBalance sums
\* moves exactly with the payments, allocations and deposits.
THEOREM LedgerImplemented == Spec => ImplementsLedger
  <1>1. Init => Ledger!LedgerInit
    BY LedgerInitHolds
  <1>2. EffectsInv /\ [Next]_vars => [Ledger!LedgerNext]_Ledger!ledgerVars
    BY LedgerStep
  <1>3. QED
    BY <1>1, <1>2, EffectsInvariant, PTL DEF Spec, ImplementsLedger, Ledger!LedgerSpec
===============================================================================
