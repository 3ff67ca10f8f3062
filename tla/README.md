# EMI CoreHub backend: specification and verification

The backend is a NestJS monolith over PostgreSQL (TypeORM), Redis and BullMQ that
runs a life insurer's back office: policies, premium collection, claims, loans,
the general ledger, IFRS 17 measurement, notifications and a client app. This
directory holds TLA+ models of its core, the TLC configurations that check them,
and TLAPS proofs. File names below are relative to `src/src/`.

Three facts of the platform shape every model:

* Node runs one handler at a time, but **every `await` is a scheduling point**: a
  handler that reads a row, awaits and writes by id works on a row that any other
  request may have changed. A model step is the code between two awaits; a
  `dataSource.transaction` is one step (the transactions here only insert rows and
  update by id, and a unique index aborts them as a whole).
* Work that is started and not awaited (event listeners, the audit interceptor's
  write, the cache write) lives in memory and **dies with the process**;
  PostgreSQL and Redis survive. `Crash` may happen between any two steps.
* TypeORM's `save(entity)` writes every column in which the entity in memory
  differs from the row: a stale entity **writes stale columns back**.

## 1. Inventory

| Part | State | Operations | What is hard | Modelled in |
|---|---|---|---|---|
| Premium payments, wallet (`modules/field-collection-wallet`) | `payments`, `wallet_transactions` (balances are sums) | postPayment, reverse, allocate, confirmDeposit, getBalance | retries of one key in flight, loss of replies, restart, unique index, two rows in one transaction | `Payments`, `PaymentLedger`, `PaymentsProofs` |
| Bulk payments, deduction import, payroll upload | processed records, clients and policies made on the way | five file layouts, row loops over postPayment | a loop cut off and sent again; keys made from row data | `PremiumImport` |
| Idempotency and audit interceptors (`common/interceptors`, `modules/audit`) | Redis key per request, `audit_logs` | look-up, write after the reply, expiry; audit row after the reply | look-up and write are apart; the audit row is not in the transaction | `Payments`, `Claims` |
| General ledger (`journal.service.ts`, `finance-event.listener.ts`) | `journal_entries`, lines, `accounting_periods` | post, approve, reverse, closePeriod, posting from events | checks before the transaction, whole-row saves, rounding | `Journal` |
| Financial reports | none of their own | income statement, balance sheet, drill-downs, budget report, cash flow | every report must tell the same story | `FinancialStatements`, `JournalProofs` |
| Bank accounts | accounts, statement lines, deletion requests | chart import, edit, reconcile, request and decide deletion | decide twice, request twice, whole-row saves | `BankBooks` |
| IFRS 17 (`jobs/ifrs17-batch-close.processor.ts`, `actuarial/`) | group measurements per month | both calculators; the monthly close of every group | what "previous" is; a month closed twice; rounding month after month | `Ifrs17Calculators`, `Ifrs17Close` |
| Policy status rules (`policy-status.util.ts`) | none | computePolicyStatus | boundaries: due day, maturity, commencement, partial and advance payments | `PolicyStatus` |
| Policy register and nightly sweep (`policies.service.ts`, `jobs/lapse-detection.processor.ts`) | `policies` | create, updateStatus, reinstate, renew, editPolicyNumber, editFields | a sweep over a list read long before, beside the office | `PolicyLifecycle` |
| Background jobs (`jobs/`) | BullMQ queue `jobs` | repeatable jobs, one worker per processor class | which worker takes which job; stalled jobs | `JobQueue` |
| Notifications (`modules/notifications`) | `sms_logs`, campaigns, three queues | hold, release, send, bulk send, e-mail | retry after a partial success, lost answers | `SmsDelivery` |
| Lifecycle triggers (`modules/marketing-automation`) | triggers and the log of their firings | nightly run, "run now" | look up, send, record | `LifecycleTriggers` |
| Roster import | import issues, clients, policies | importRoster (four formats), resolve, link, dismiss | numbers spelled in several ways, sheets sent again | `RosterImport` |
| Client app: applications | applications, files, applicants | submit, review, reject, convert | conversion is many writes without a transaction | `ApplicationConversion` |
| Client app: accounts | accounts, setup codes, sessions | code, activate, log in, change and reset the PIN | which sessions a new PIN ends | `ClientAppAuth` |
| Client app: inbox, requests, push | inbox, subscriptions, requests | notify, notifyMany, subscribe, the calls that cause notices | devices that fail or move | `ClientNotices` |
| HR and payroll | employees, leave, attendance, runs, lines | upload, edit, finalize | edit while finalizing, names spelled otherwise | `HrPayroll` |
| Administration | assets, procurement requests | depreciation, approve, pay, aging | journal entry and row apart, no guard on the status | `Administration` |
| Loans (`modules/loans`) | `loans`, `loan_repayments` | create, two approvals, disburse, recordRepayment | read, check, write by id | `Loans` |
| Claims (`modules/claims`) | `claims` | create, advance, reject, setReserve; events to the ledger | stale advance, two events for one step | `Claims` |
| Action items and calendar | two tables that name each other | create, complete, change, delete on either side | two writes, errors swallowed | `LinkedTasks` |
| Identity and access | users | login in two steps, enrolment, users | the steps of an enrolment apart | `StaffAuth` |
| Commission, CRM, underwriting, documents, regulatory forms, reporting, settings, branches | single rows | create, edit, read | little: one row, one write | not modelled |
| `public/`, migrations, scripts | none at run time | | | not modelled |

How they interact: controllers pass through the idempotency interceptor (only
`POST /payments`) and the audit interceptor; `postPayment` emits `PaymentPosted`
and `advance` emits `ClaimApproved` and `ClaimPaid` after their writes, and the
finance listener turns each into a journal entry; the nightly sweep reads payments
per month and writes policy statuses; reinstatement reads the same sums; reversals
feed those sums. File uploads and conversions create clients and policies and call
`postPayment`; procurement and depreciation post to the journal; the listeners of
the client app write notices; triggers hand messages to the notification queue.
The hazards this creates, line by line, are in `PROJECT.json`.

## 2. Modules

Tables are sequences of rows in insertion order (the id of a row is its position)
or sets and functions where ids do not matter. Concurrent calls are a function
from a small set of callers (`Handlers`, `Clerks`, `Tellers`, ...) to what each
remembers between two awaits; its `step` says where it stands. `Crash` (or the
action a module names after it) forgets the callers and keeps the tables.

**PaymentLedger** (abstract). What premium collection promises: a set of paid
keys, a set of refunded ones, a token balance and a cash liability per marketer.

**Payments.** `handler[h]` is the continuation of a request: `lookup` (Redis),
`find` (existing key), `policy` (status check), `insert` (transaction), `emit`,
`respond`; `replay` answers from the cache; `reverse` holds the original as it was
read. `background` is the work nobody awaits. A client (the marketer's offline
queue) sends a key until it is answered and may have two requests of it in flight;
`Respond` may lose the reply; `Expire` is the 24-hour limit of the cache; `Crash`
clears handlers and background. `ImplementsLedger` is the refinement: paid keys
are the keys of client rows, balances are the sums of `getBalance`.

**PremiumImport.** The rows of five file layouts (two deduction lists, a payroll,
the office's sheet, the bulk endpoint). Each is matched, a key is made of it, and
the payment and the record of the row are written in two steps, so that a restart
may fall between them. `postPayment` is one step here; `Payments` has its parts.

**Journal.** One action per step of post, approve, reverse and closePeriod.
Amounts are thousandths, so that `toFixed(2)` can lose one. `Save` replaces the
row by the entity that was read. **FinancialStatements** are the reports as
operators over the entries of that journal and a chart of accounts; `MCJournal`
evaluates them in every state.

**BankBooks.** The accounts of the bank, the lines of their statements and the
requests to delete them; what a teller decides on is what was read.

**PolicyStatus**, **Ifrs17Calculators.** `computePolicyStatus` over whole months,
the due day being a Boolean; `computeGmmPeriod` and `computePaaPeriod` over cents,
each result computed exactly and rounded by the `toFixed(2)` that stores it, so
the rounding errors of the code's doubles are not modelled but those of its columns
are. **Ifrs17Close** is the close that uses them: read the latest measurement, add
up the month (`recorded` has the premiums recorded per group and month), save a new one.
What it hands the calculators is what the code hands them: at every close after the
first of a group one month elapsed and all months but one left.

**PolicyLifecycle.** Rows with status and maturity, payments per month, the
calendar, the sweep (it lists the policies that are not cancelled, and then computes,
finds and updates each) and the office's calls, each with what it read.

**JobQueue**, **SmsDelivery**, **LifecycleTriggers.** A list of waiting jobs, one
worker per processor, and `process` that returns at once for a foreign name; log
rows and the jobs that refer to them, whose worker calls the provider and writes
the outcome apart; the loop over triggers and clients with its look-up, message
and record. BullMQ and the providers are external: at most one waiting occurrence
of a repeatable job, stalled jobs return to the queue, a job that threw is tried
again up to its attempts, and an answer may be lost after the message was taken.
The worker of the two SMS queues writes Failed when the provider throws; the one of
the e-mail queue writes nothing then, and the row stays Queued.

**RosterImport**, **ApplicationConversion.** An import is one step per row; what
its parser makes of a cell is the value (a number is its series number and its
spelling). A conversion is its sequence of writes: client, policy, beneficiaries,
account, status. Each may be refused, which ends the call with the earlier ones
done; `leftBehind` is history, the policies of conversions that broke off.

**ClientAppAuth**, **ClientNotices**, **StaffAuth.** PINs, codes, secrets and
tokens are values that are equal or not; a session carries the version it was
signed with. A notice goes to the inbox, then the devices of its subject are looked
up, and then it goes to each of them. Writing the inbox row and pushing are each
inside a `try`; the look-up is not, so `ReadThrows` ends the whole call. Push is taken
to be enabled (the VAPID keys are set).

**HrPayroll**, **Administration**, **LinkedTasks**, **Loans**, **Claims.** A line of
the payroll has its amounts by column, and the columns of `editable` take whatever an
officer sends (`Updates`); the other editable fields (PAYE, notes) do not enter the net
pay and are left out. An event of the calendar names nothing, or any item the user
likes, and takes any status; a write of `LinkedTasks` may fail, and where the code
swallows the failure the call goes on. Each call is a read-and-check step and one step per write; `taken` in `Loans` is
history (what was recorded per installment), as are `touched` in `HrPayroll` (the
cells officers wrote), `lost` in `LinkedTasks` (items whose completion failed) and
`broken` in `ClientNotices` (subjects whose look-up threw); `posting` in `Claims` are started
listeners, `books` in `Administration` are the sums of the accounts it posts to. A
depreciation run updates the assets it computed in any order, because the query that
lists them asks for none.

Several modules keep one Boolean of history (`alone`, `calm`, `apart`, `inOrder`,
`quiet`, `serial`, `single`, `oneByOne`, `smooth`, `tidy`, `inStep`, `orderly`,
`undisturbed`): whether calls have come one after the other so far, and, where the
comment of the property says so, whether nothing was cut off or lost. The code
locks no rows, so what its guards promise holds only of such histories; what
overlaps do instead is listed under "Known deviations".

Operators headed "Fault:" are small defects (a dropped guard, a missing reset, an
index that is not there). No specification uses them; each is substituted for the
operator after it to confirm that the properties notice.

## 3. Checks

`MCBackground`, `MCIntake` and `MCOffice` check several modules that share no
table: their variable `part` says which of them a behaviour is about, so the run
is the union of the parts' state spaces and not their product.

| Run | Instance | Shows |
|---|---|---|
| `payments` | 2 handlers, 1 key, 1 fault (crash or lost reply) | `OnePaymentPerKey`; `EffectsOnce`: wallet rows match payments one for one, effects only for committed payments and once, one reversal; `AckedIsPosted`, `ReplyStable`: replies true and stable; `Answered`: every queued payment is answered |
| `payments_ledger` | 1 handler, 2 keys (cash, mobile), 1 office move | `RowsNeverEdited` beyond the mark; `ImplementsLedger`, the refinement |
| `journal` | 2 calls, 2 users, 3 entries, 1 restart; inputs even, uneven and with an unknown account | `MakerChecker`: nobody approves his own entry; `StatementsAgree`: balance sheet, income statement, drill-downs and cash flow agree in every state; `PostedStays`; of calls one after the other `InOrderAlone` (reversed once, closed months settled) and `FrozenAlone`, also over a restart between two calls |
| `formulas` | every payment history of 4 months, below, at and above the premium | `StatusIsUnpaidRun`: the loop equals a definition without one; `PayingNeverHurts` |
| `policy_register` | 1 policy, 1 office call at a time beside the sweep, 3 operations, 4 months | `MaturityOnlyExtends`; `RegisterConverges` once the office is quiet |
| `background` | 3 workers; 2 messages, 1 campaign; 2 triggers, 2 clients, a nightly and a manual run; 3 groups, 3 months; 1 restart, lost answer or doubled run in each | `MessagesCounted`, `NeverDoubleSends`, `PremiumsEarnedOnce`, `MarginsEarnedOnce` (from close to close no premium and no margin is lost or earned twice); `QueueDrains`, `MessagesSettle`, `ReachesAll`; `RunClosesTheRest` |
| `loans` | 1 loan of 2 installments, 2 concurrent calls, 3 repayments, 1 restart | of calls one after the other `FullyApprovedAlone` (two approvals, one schedule) and `CompletedIsPaidAlone`; of overlapping calls `MarksCompleted` |
| `intake` | 1 application, 2 sheets, 5 files; 2 callers, 1 restart (of applications: or refused write) in each part | `ApprovalIsComplete` whatever overlaps; `OnePolicyEach`; `RowsAccounted`; `UploadsAccounted` |
| `office` | per part 2 callers (claims and notices 1) and 1 restart or failure where the part has them (notices 2 failures; tasks: a restart or a failed write) | `EntriesOnce`, `SessionsFollowPin`, `EveryoneTold`, `PaysTheLastFile`, `BooksMeetRegisters`, `TasksAgree`, `BankBooksHold`, `EnrolledCanLogin` |

Violations (the code does something else than its own text says):

| Run | What happens |
|---|---|
| `payments_net` | `reverse` reads the original without its policy, so the offsetting row belongs to none and the sum per policy, which claims to include reversals, still counts the reversed premium; had the offsetting row the policy of the original, the property would hold |
| `jobs_sweeps` | a worker of another class takes the sweep's job, returns at once and thereby completes it; this may happen every night |
| `policy_lapsed` | the sweep restores a lapsed policy as soon as premiums are paid, without the officer's reinstatement the comment requires |

**Known deviations beyond the runs.** The following configurations check sentences
of the code's own text that end in a counterexample; they are kept for reproduction
(`tlc -config X.cfg M`) and are the work list for a fix. TLC stops at the first
property that is violated; with the lines of the others removed it shows each:

| Configuration (module) | Property | Counterexample |
|---|---|---|
| MCPaymentsDeviations (MCPayments) | NoPaymentOnCancelled | cancelled between check and transaction |
| | ReversalsAudited | reversal committed, audit row later or never |
| MCJournalDeviations (MCJournal) | ClosedMonthsFrozen | month closed between check and insert |
| | ReversedOnce | two reversals at once, or a restart between offsetting entry and mark |
| | StoredBalances | 3 x 0.333 against 0.999 is stored as 0.99 against 1.00 |
| MCPolicyDeviations (MCPolicyLifecycle) | SweepKeepsCancelled | cancelled after the sweep listed it |
| | MaturityOnlyExtends | two renewals from one read |
| MCLoansDeviations (MCLoans) | FullyApproved | stale rejection, then stale approval |
| | CompletedIsPaid | lost update after completion |
| MCClaimsDeviations (MCClaims) | StepsInOrder | stale advance over Paid |
| | EntriesOnce | two approvals announced |

The models also contain the following, met while modelling and excluded from the
properties by the Boolean of history or by the wording of the property:

* *Messages.* Two releases of one pending message queue it twice; a job repeated
  after a lost answer or restart sends again. An anniversary is recorded under a
  key that is no uuid, which fails and ends the run. An e-mail whose attempts all threw
  stays Queued, with no job left (`email.processor.ts:21`, `email.service.ts:42`).
* *IFRS 17.* A loss on the first day is not recorded; closing a month again or two
  closes at once count twice; premiums recorded after the close of their month are
  never counted. Every close after the first takes one month as elapsed and all but
  one as left, a simplification the code names (`ifrs17-batch-close.processor.ts:324-338`), so the
  margin of a group shrinks by the same share each month and never runs off; nothing
  is stated about the end of coverage.
* *Roster.* `SSP037` and `SSP37` in one sheet are two policies; a resolved issue is
  flagged again by the next upload; two clerks who resolve one issue make two
  policies; a resolution that fails leaves a client without one.
* *Premium files.* A second row of one person and month counts as already posted;
  the key of a bulk row changes with the spelling of the number.
* *Applications.* A second conversion, at once or after a cut-off, makes a second
  policy. A beneficiary whose date of birth the column refuses (the form takes any
  text, `app-applications.service.ts:99`, and the insert is at `:363`) leaves a policy
  behind an unapproved application in one undisturbed call, and the next attempt makes
  another. A review or rejection overwrites Approved; an application with more
  beneficiaries than the limit loses the rest without a word.
* *Client app.* Of two PIN changes at once both sign the same version. A client
  who activates before the first premium may log in at once. `app-push.service.ts:55`
  says of `notify` that it never throws, but the look-up of the devices (`:67`) is in no
  `try`: it ends `notifyMany` with the rest of the list untold and unrecorded, and fails
  the callers (claim, loan request, conversion, answer, bulk) after they have saved. "Your policy is
  active" is sent with every payment (`app-events.listener.ts:53` says the first).
  A device whose endpoint moved to another member is deleted by the old id.
* *Payroll.* What an officer enters in a line is not validated
  (`payroll.controller.ts:94`): a credit, or a debt below zero, raises the net pay.
  PAYE is not part of the net pay; an upload that overlaps the
  finalization reopens the month; one that was cut off can be finalized.
* *Administration.* Approving or paying a request again posts again; a restart
  between entry and rows leaves them apart; overlapping depreciations book twice.
* *Tasks.* Changing one side leaves the other as it was. An event of one's own may
  name any item (`calendar.controller.ts:12`): completing it completes the item, whose
  own reminder stays Scheduled; any text is a status, and one that does not end an
  event that had ended sets the two apart. A failure of the second write is swallowed
  (`calendar.service.ts:128`, `action-items.service.ts:77`), and when the event of a new
  item cannot be made (`action-items.service.ts:40`) the call fails with the item saved.
  The service itself never stores `Missed`, which `leadership-reports.service.ts:89`
  counts; only a request that sends it does.
* *Bank accounts.* Of two decisions at once Rejected may overwrite Approved after
  the deletion; saving an edited account that was deleted inserts it again; a
  request may be left Pending by a restart.
* *Staff.* Starting to enrol again replaces the secret at once (`auth.controller.ts:31`
  says otherwise); disabling beside a confirmation leaves MFA on without a secret.

**Bounds.** Two callers suffice for every race between a read and a write of one
row (the code never waits for a third); one key, one loan, one application is
enough because rows of different ones meet only in sums, which `payments_ledger`
and the parts with two rows cover. One crash at every point reaches every partial
state; a second only repeats it. Three journal entries are an entry and two
competing reversals. Four months reach Warning (2) and Lapsed (3) and one month
beyond maturity; three closes of a group have a first and one after another.
The sheets and files hold each kind of row their parser tells apart: with and
without a number, one number or pincode twice, one number spelled in two ways, a
person unknown, known and known otherwise, and a row that fails. Two assets, one
that ends after a month, reach full depreciation. Every bound is a constant
`Max...` that guards the action it ends (`MaxFaults`, `MaxOffice`, `MaxEntries`,
`MaxCrashes`, `MaxOps`, `MaxUploads`, `MaxCuts`, `MaxBreaks`, ...). In `office`
two officers upload payrolls at once only before anything else happened, and the
accounts of the client app are checked one holder at a time (they share nothing).

**Deadlock** is not checked where a bound or time ends a behaviour (all runs but
those over `Payments` and `PolicyLifecycle`, where some action is always possible).

**Symmetry** is used over callers, users and PINs in runs of safety properties
only. No run with fairness uses it.

**Fairness.** `Payments`: a handler that can move does (Node's event loop runs
every continuation), background work ends, and the offline queue sends again while
it has no answer: strong fairness, because the handlers may be busy again and
again. Nothing forces a crash, an expiry or an office action. `PolicyLifecycle`:
the sweep is scheduled every night and runs when started; a call that has begun
ends. `JobQueue`: cron comes round, some worker takes a waiting job, a worker ends
what it began; which worker takes a job is not fair, as BullMQ promises nothing.
`SmsDelivery`: BullMQ gives a due job to its worker, and a worker ends; callers
owe nothing. `LifecycleTriggers`: nights come, and a run goes through its list.
`Loans`: a call that has begun ends; `MarksCompleted` is about behaviours without
a restart, since one cut off between the last repayment and the completion leaves
the loan as it is. `WF_x` names only the variable that every step of the action
changes; in `MCBackground` it is conditioned on `part`.

## 4. Proofs

Every theorem holds for every value of the constants that the named assumptions of
its module allow: any number of callers, keys, loans, entries and users, any bound.

| Module | Theorem | States |
|---|---|---|
| PaymentsProofs | `PostingInvariant`, `TypeCorrect` | the invariant `PostingInv`; `TypeOK` |
| | `Idempotent`, `RepliesTrue`, `RepliesStable` | `OnePaymentPerKey`, `AckedIsPosted`, `ReplyStable` |
| | `EffectsInvariant`, `EffectsExactlyOnce` | the invariant `EffectsInv`; `EffectsOnce` |
| | `RowsAreNeverEdited` | `RowsNeverEdited` |
| | `LedgerImplemented` | `ImplementsLedger`: Payments refines PaymentLedger |
| JournalProofs | `JournalInvariant`, `JournalTypeCorrect` | the invariant `JournalInv`; `TypeOK` |
| | `MakerCheckerHolds`, `PostedStaysHolds` | `MakerChecker`, `PostedStays`, whatever overlaps |
| | `OrderInvariant`, `InOrderAloneHolds`, `FrozenAloneHolds` | `InOrderAlone`, `FrozenAlone`, of one call after the other |
| | `StatementsAgreeHolds` | `StatementsAgree`, of lines in whole cents on one side |
| LoansProofs | `LoansTypeCorrect` | the invariant `LoansInv`, which has `TypeOK` |
| | `LoansOrderInvariant`, `FullyApprovedAloneHolds`, `CompletedIsPaidAloneHolds` | `FullyApprovedAlone`, `CompletedIsPaidAlone` |
| BackgroundProofs | `TriggersNeverDoubleSend`, `MessagesAreCounted` | `NeverDoubleSends`, `MessagesCounted` |
| | `RegisterInvariant`, `MaturityOnlyExtendsHolds` | `MaturityOnlyExtends`, with one office call at a time |
| FormulasProofs | `StatusIsUnpaidRunHolds`, `PayingNeverHurtsHolds` | `StatusIsUnpaidRun`, `PayingNeverHurts`, for every policy and history |
| | `CloseInvariant`, `RunClosesTheRestHolds` | `RunClosesTheRest`, whatever overlaps |
| | `EarnedInvariant`, `PremiumsEarnedOnceHolds`, `MarginsEarnedOnceHolds` | `PremiumsEarnedOnce`, `MarginsEarnedOnce`, of closes in order |
| IntakeProofs | `ApplicationInvariant`, `ApprovalIsCompleteHolds` | `ApprovalIsComplete`, whatever overlaps or is cut off |
| | `OnePolicyEachHolds` | `OnePolicyEach`, also when writes are refused |
| | `PremiumInvariant`, `UploadsAccountedHolds` | `UploadsAccounted`, for any files and tables in order |
| | `RosterInvariant`, `RowsAccountedHolds` | `RowsAccounted`, for any sheets in order |
| OfficeProofs | `EveryoneIsTold` | `EveryoneTold` |
| | `EntriesPostedOnce` | `EntriesOnce`, with one call at a time |
| | `EnrolledCanLoginHolds`, `SessionsFollowPinHolds` | `EnrolledCanLogin`, `SessionsFollowPin` |
| | `TasksAgreeHolds`, `BankBooksHoldAlways` | `TasksAgree`, `BankBooksHold` |
| | `PayrollInvariant`, `PaysTheLastFileHolds` | `PaysTheLastFile`, for any files in order |
| | `BooksInvariant`, `BooksMeetRegistersHolds` | `BooksMeetRegisters`, for any validated assets and orders |

**Payments: replies.** `OnePaymentPerKey` is nearly inductive (the unique index
keeps it), but a reply is right only because everything that remembers an id on the
way to it is: the handler between its transaction and its reply, the cache, and the
cache write in the background. So `PostingInv` adds `HandlersOK` (after look-up or
insert a handler holds the row of its own key), `CacheOK` (what Redis holds for a
key is the row of that key) and `BackgroundOK` (unawaited work is about committed
rows). `InsertShape` and `ReverseShape` reduce each transaction to "nothing, or one
row at the end under a new key", `GrownStep` says no step removes a row or changes a
key, and the rest follows.

**Payments: effects.** `EffectsInv` adds to `PostingInv` what rows say of one
another: a row is the payment of a key, or takes back, under the original's reversal
key, the amount of one that is marked (`RowsOK`, `MarksOK`). A handler that is about
to reverse may hold a row that has been reversed since; it then fails on the unique
key (`ReadsOK`, `NotYetReversed`). An event is in one place at a time: a handler
that will announce it, the background, or the listener's record (`PendingOK`,
`EmitsOK`), which is why no listener acts twice.

**Payments: refinement.** Keys with a client row are paid, keys with an offsetting
row refunded, and balances are the sums of `getBalance`. A committed payment,
reversal or office move takes one step of `PaymentLedger`, everything else none. That
the appended row adds its amount to its own sum and to no other needs `Sums`: the
fold of the community modules takes elements in an order it chooses, and a sum must
not depend on it. The induction over finite sets goes by the least natural number of
a set that lacks a property (`LeastNatural`, `SubsetInduction`). The module also has
that sums are linear and can be taken group by group (`SumOnPlus`, `SumByGroup`) or
over another index (`SumOnImage`).

**Journal.** `save` writes a whole row back, so `JournalInv` says in what an entity
in memory may differ from its row: status, signature and marks, and nothing else
(`SameEntry`). An entry keyed by hand in the hands of an approver is somebody else's,
hence `MakerChecker` even when two approvals overlap.

**Reports.** Every report is a sum of `Net`, what a line adds to the debit side, over
some of the lines of a period. Grouped by entry the sums are 0 (`ReportBalances`),
grouped by account they are closing balances (`AccountsBalance`), by type the sections
of the statements (`SectionIs`), by module of origin the rows of the cash flow
(`CashFlowIn`). That two groupings of the same lines have one total is why the balance
sheet meets the income statement. The journal has such lines because `LinesInv` holds:
what is in the books or about to be inserted balances exactly, since sums of whole
cents that differ by less than a cent are equal (`TidyBalances`), storing them loses
nothing (`TidyStored`), and no save changes lines (`JournalInv`). The hypothesis
`TidyInputs`, lines of whole cents on one side, holds of the inputs of the run; the
listener and the historical upload post one amount on two sides, in whole cents when
it has no more than two decimals. The API accepts more
(`post-journal-entry.dto.ts` asks for numbers from 0): uneven cents are stored out of
balance (`StoredBalances` under "Known deviations"), and of a line with a debit and a
credit the drill-down of its account shows the debit only
(`financial-reports.service.ts`), so without the hypothesis the theorem is false.

**One call after the other.** The code locks no row; what its guards promise holds
while calls do not overlap, and `alone` records whether that was so. `OrderInv` (one
in `JournalProofs`, one in `LoansProofs`) says that then at most one call is at work
and still holds what it read (`Current`). The set of calls at work is finite whatever
`Handlers` is, so "at most one" can be told by counting it. For the journal the rest
is that an original has one offset at most, marked unless the call that made it is
about to mark it, and that no closed month holds a pending entry. A restart may come
between two calls. For loans it is that a row carries the signatures its status asks
for, that a schedule has one installment a month from the disbursement on, and that
totals equal what was recorded; there a restart may cut a call off after any of its
writes. `TriggerInv` has the same form for runs of the triggers: the fire log and
the row about to be written name exactly those greeted, and who is about to be
greeted is in neither. No theorem promises more of overlapping calls: "Known
deviations" has the counterexamples.

**Messages.** `Orderly` holds whatever overlaps, is retried, cut off or lost: a campaign
owns its rows and has one job at most, the job of a message holds no row of a campaign
(`JobOwnsRows`, `HasInHand`), and what a worker was answered is what it has written so
far (`Answered`); hence a completed campaign, whose job is done, counts what its rows
say (`Counted`). `NothingTakenTwice` is the rest, for calls that follow each other
without a fault: a row has one job at most and a released row none yet, and its
message was not taken before its job was answered. A gateway that throws took nothing,
so a retry is the first to be taken. With a lost answer or two releases at once the
second half is false, and is not stated.

**Notices.** Whoever a call is for has been told or is still on its list, and during
the look-up and the pushes of one subject that subject has been told: a failing push
cannot lose a message, since the inbox comes first. A look-up that throws ends the
call, and the invariant then has the subject at which it broke: whoever was still on
the list is untold because of that one, and of nothing else.

**Accounts, tasks and bank books.** Four more invariants of one call after the other,
each in terms of what the call at work has read and has yet to write. A session
of the version an account has now has the PIN it has now (`SessionAgrees`), and the
call that decides on a PIN has read both as they are (`Fresh`). A second
factor is enabled by a request that holds the secret the app was shown (`StaffInv`).
An action item and its event may differ only in what the request at work will still
write, so `Steady(x)` says of a request `x` which item it is creating, or which of the
two rows it has ended first (`Between`), and where its other row is (`Duty`); at rest
`x` is nobody and the rows agree. That an event which has ended has reached its item
(`Reached`) needs no order: it holds whatever overlaps, fails or is set, because an item
that is completed stays so and a write that failed is on record (`lost`). A deleted bank account has a request that says so
or one that the call at work is about to sign (`Signing`), one account has one
pending request (`AskedOnce`), a request refers to its account exactly while that is
there (`Named`), and what the call has read is still so (`StillSo`). These theorems
need no hypothesis: that a history was orderly is part of what each property says.

**Claims.** With one handler, `CallAgrees` says that the call at work writes a
successor of the status the claim has and announces one for which nothing was posted.
The hypothesis, one handler, is needed: the run has one, and two calls that advance
one claim would both announce its status (`claims.service.ts:57` reads it, `:72`
writes it, with nothing between them to hold others off).

**Policy status.** The loop of `computePolicyStatus` is a recursive function over
the months, and the prover has no induction over what such a function computes. The
proof takes the counter as a function of its own (`CountFcn`), shows by the least
natural number that the recursion has a solution (`CountFcnDef`), and that the
counter is the length of the run of unpaid months. `PayingNeverHurts` compares two
runs. Both ask that a warning comes after two months at most: the code compares the
run with the two thresholds and then with exactly one, so with a
`WARNING_THRESHOLD_MONTHS` of 3 or more (`config/configuration.ts:31` takes any
number) two unpaid months read Active, better than one. The default is 2.

**IFRS 17: the close.** A group that can be closed waits in the list of a run, is in its
hand, or has its measurement of the month (`Placed`); since rows are only added
(`RowsStay`) this survives whatever other runs, restarts of the list and late premiums
do, and a run that ends has nobody waiting. `EarnedInv` is about closes in order: no
month of a listed group from this one on is measured (`Ahead`), what was read is the
last row (`LastIs`), rows of a group ascend (`Ascending`), and what was found paid is
earned or in the closing balance of the last row, up to a cent per close (`Earned`).
The margin of a GMM group is followed in the same invariant: its margin at recognition
and the interest of the closes are what was released and what is carried forward, up to
two cents a close (`MarginKept`). One close keeps that (`MarginRolls`) because the
part of the margin that is released and the part that is carried forward make up the
margin after interest, each rounded to cents, and a close unlocks nothing. `toFixed(2)` is the floor of a fraction, which the lemmas
state as two inequalities between integers, the form the solver can use.
`OrderStep` says what the history variable allows a step to do.

**Policy register.** The sweep writes statuses only and a payment no row at all, so
what an office call has read of a maturity holds until it writes (`CallOK`), however
the sweep interleaves. The hypothesis, one office call at a time (`OneCall`), is
needed: two renewals from one read cut cover short ("Known deviations").

**Applications.** `RequestOK` lists what a conversion has made by each of its steps,
`Grown` that tables only grow, so whatever other requests and restarts do an approved
row has behind it all that the notice promises. The sequence of beneficiaries is
counted as it shrinks. `QuietInv` adds for requests one after the other that an
application which is not approved has a policy only in the hands of the request at
work (`Steady`), or left behind by one that broke off, at a restart or because a write was
refused; these are counted apart, since nothing takes them back.

**Premium files.** `PremiumInv` holds for any uploads at once: what is written stays
(`Onward`), a row the loop has passed is paid or refused, and recorded if its layout
keeps records (`RowDone`), keys are unique, and each payment is of the policy its row
means (`Meant`). `AloneInv` is the rest, of uploads one after the other: a phone has
one client, a client one Endowment policy, and what the upload at work has looked up
is still missing when it writes. `RowsInOrder` and `TablesInOrder` say of the inputs
what the property does: a person is identified in one way, and an office sheet spells
a number in one way.

**Rosters.** `RosterInv` says of any requests that a row of a sheet that was taken is a
policy, an issue, or still before the import at work. `SerialInv` adds, of requests one
after the other, that numbers are unique and that what the import at work has found
missing is missing; `FamilyInv`, of a server that was not restarted either, that the
rows of one family have one client and how many clients there are. `SheetsInOrder` is
the hypothesis: each sheet spells a number in one way, and the number of a child is in
one sheet only.

**Payroll.** `PayrollInv` says of any overlap that an upload knows an employee for
each name it has met (`KnownOK`), that names of employees stay and that what officers
wrote stays on record (`RecordsStay`). Of calls one after the other `SmoothInv` says a
month has the lines of its file, or of the rows read so far while its upload is at work,
each amount the file's but for cells of that very line that an officer wrote: an upload
makes new lines, so no correction of an earlier one can be among them. The hypotheses
are `FilesInOrder` (rows have names, amounts are integers and the rate is not below
zero) and `UpdatesInOrder` (what is entered are integers, of either sign).

**Administration.** Even when runs overlap each figure a depreciation run writes stands
on the schedule of its asset (`AccumulatedOK`), so none is written off twice. That two
accounts show what the tables say is told in terms of the request at work: accounts
equal tables plus what it has posted before the rows (`Agrees`). Each posting may be
off by a rounding of every asset, hence the bound `postings * Slack`, and the sums over
assets are compared by `SumsNear`. `GoodsInOrder` is what `administration.dto.ts`
validates (costs from 0, a life of at least one month), for costs in whole cents, as
the column stores them.

**Assumptions.** `PaymentsAssumption`, `JournalAssumption`, `LoansAssumption`
(`NULL` is none of the values it stands beside, bounds are natural numbers, tenure
and amount due positive), `NoticeAssumption` (finitely many clients, some of
whom were applicants), `ChartAssumption` (finitely many accounts, each of
one of the five types; the cash account is an asset), `ClaimsAssumption` (`NULL` is
no claim, status or row), `AuthAssumption` (no PIN is none of the PINs),
`SmsAssumption` (an audience is a number of recipients), `PolicyStatusAssumption`
(months are an interval, thresholds positive), `PolicyLifecycleAssumption`,
`ApplicationAssumption`, `RosterAssumption` and `PremiumAssumption` (finitely many
callers; the shape of policies, forms, sheets and files), which
the runs of their modules evaluate. What a theorem asks beyond these it names:
`BookTyped`, `RowsInOrder`, `TablesInOrder`, `SheetsInOrder`, `FilesInOrder`,
`UpdatesInOrder` and `GoodsInOrder` are assumed by the MC modules too, so TLC evaluates them on the
instances; `TidyInputs`, `OneCall`, one handler of claims, the warning threshold and
finite sets of callers are said above. Some of these state what a parser yields,
since the prover cannot open the definition of `SelectSeq`.

**Only model-checked.** Liveness: `Answered`, `QueueDrains`, `MessagesSettle`,
`ReachesAll`, `MarksCompleted`, `RegisterConverges`. The prover has no rule for
fairness. Every other property of a passing run is stated by a theorem.

## 5. What is left out

Strings, formats, PDF and spreadsheet parsing, search, pagination, hashing and
signatures, and the SMS and push gateways themselves. Amounts are small integers;
a policy has a premium per month and no riders. `updateStatus` and `reinstate`
write to one database, so isolation anomalies inside a transaction (PostgreSQL's
read committed) are not modelled: each transaction here writes rows it alone
creates, or by id. Within modelled parts: the historical upload of journal
entries (a loop over post), `setBudgetLine`, IFRS 17 risk metrics and discount
curves, the read-only views of the client app, device approval of staff, the
queries that decide who is due for a trigger (a set that changes at will), and
the two jobs that only read and log. Commission, CRM, underwriting, documents,
regulatory forms, reporting and settings are single rows with one write each and
have no rule that several steps could break. The pages under `public/` keep
nothing but what the API returned and were read for how they retry; migrations
and scripts run once.

## 6. Plan

1. A client number (`count + 1`, `clients.service.ts:139`) shared by conversions,
   rosters and uploads: the composition of the three parts of `MCIntake`.
2. Abstract specifications: a journal as a set of balanced entries, a loan as a
   workflow with an amount due, shown to be implemented where it is.
