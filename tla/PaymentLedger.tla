---------------------------- MODULE PaymentLedger ----------------------------
(***************************************************************************)
(* What the premium-collection component promises, without requests,       *)
(* caches, transactions or tables: every payment is identified by its      *)
(* idempotency key, is taken once and refunded at most once, and every     *)
(* marketer has a token balance and a cash liability that move exactly     *)
(* when a cash payment, an allocation or a confirmed deposit happens.      *)
(* Payments.tla implements it; its balances are not stored but summed.     *)
(***************************************************************************)
EXTENDS Integers

CONSTANTS
    Keys,       \* idempotency keys, one per payment the clients want to make
    Marketers,
    Charge,     \* [Keys -> [marketer, amount]]: the wallet movement of a key
    Amounts     \* amounts finance allocates and banks confirm

VARIABLES
    paid,       \* keys whose payment has been taken
    refunded,   \* keys whose payment has been reversed
    tokens,     \* token balance of each marketer (may be negative)
    owed        \* cash each marketer still has to bank

ledgerVars == <<paid, refunded, tokens, owed>>

LedgerInit ==
    /\ paid = {}
    /\ refunded = {}
    /\ tokens = [m \in Marketers |-> 0]
    /\ owed = [m \in Marketers |-> 0]

\* A cash payment moves its amount from the marketer's tokens to the cash
\* he owes; any other payment (Charge[k].marketer not a marketer) moves none.
Pay(k) ==
    /\ k \notin paid
    /\ paid' = paid \cup {k}
    /\ LET moved(m) == IF m = Charge[k].marketer THEN Charge[k].amount ELSE 0
       IN /\ tokens' = [m \in Marketers |-> tokens[m] - moved(m)]
          /\ owed' = [m \in Marketers |-> owed[m] + moved(m)]
    /\ UNCHANGED refunded

\* A refund is a second row: what the marketer owes does not change.
Refund(k) ==
    /\ k \in paid \ refunded
    /\ refunded' = refunded \cup {k}
    /\ UNCHANGED <<paid, tokens, owed>>

Grant(m, a) ==
    /\ tokens' = [tokens EXCEPT ![m] = @ + a]
    /\ UNCHANGED <<paid, refunded, owed>>

Bank(m, a) ==
    /\ owed' = [owed EXCEPT ![m] = @ - a]
    /\ UNCHANGED <<paid, refunded, tokens>>

LedgerNext ==
    \/ \E k \in Keys : Pay(k) \/ Refund(k)
    \/ \E m \in Marketers, a \in Amounts : Grant(m, a) \/ Bank(m, a)

LedgerSpec == LedgerInit /\ [][LedgerNext]_ledgerVars
==============================================================================
