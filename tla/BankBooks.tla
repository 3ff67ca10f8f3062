------------------------------- MODULE BankBooks -------------------------------
(***************************************************************************)
(* FinancialReportsService: the import of the chart of accounts, bank      *)
(* accounts with their statement lines, the matching of these against the  *)
(* ledger, and the deletion of a bank account, which anyone but a Supreme  *)
(* Admin has to request.  Every await between a read and the write that    *)
(* depends on it is a step boundary.                                       *)
(***************************************************************************)
EXTENDS Naturals, Sequences, FiniteSets

CONSTANTS
    Tellers,                 \* requests the server works on at the same time
    Codes,                   \* valid rows an upload of the chart may have
    MaxAccounts, MaxStatement, MaxDeletions, LedgerLines, MaxBreaks    \* bounds

VARIABLES
    chart,          \* chart_of_accounts: the codes there are
    bankAccounts,   \* bank_accounts, in order of creation: is the row still there
    statement,      \* bank_statement_lines: [account, matchedJournalLineId]
    deletions,      \* bank_account_deletion_requests
    teller,         \* what each request is doing
    direct,         \* history: accounts a Supreme Admin deleted without a request
    breaks,
    orderly         \* history: one call after the other so far, none cut off, and
                    \* only lines the view shows as unmatched were matched

bankVars == <<chart, bankAccounts, statement, deletions, teller, direct, breaks, orderly>>

NoRow == 0
StatementLine == [bankAccount: Nat, matchedJournalLineId: Nat]
DeletionRequest ==
    [bankAccount: Nat, bankAccountName: Nat, status: {"Pending", "Approved", "Rejected"}]

Waiting == [step |-> "idle", account |-> NoRow, request |-> NoRow, known |-> {}, rows |-> {},
            decision |-> "Pending"]
Serves(t, step) == teller[t].step = step
Proceeds(t, to) == teller' = [teller EXCEPT ![t] = to]

BankInit ==
    /\ chart = {}
    /\ bankAccounts = << >>
    /\ statement = << >>
    /\ deletions = << >>
    /\ teller = [t \in Tellers |-> Waiting]
    /\ direct = {}
    /\ breaks = 0
    /\ orderly = TRUE
-------------------------------------------------------------------------------
(* Chart of accounts and bank accounts.                                     *)

\* bulkImportAccounts: the codes there are, then row by row those that are new;
\* the code is unique, so that a save that comes late ends the upload.
ReadChart(t, rows) ==
    /\ Serves(t, "idle")
    /\ Proceeds(t, [Waiting EXCEPT !.step = "row", !.known = chart, !.rows = rows])
    /\ UNCHANGED <<chart, bankAccounts, statement, deletions, direct, breaks>>
ImportAccount(t, code) ==
    LET rest == [teller[t] EXCEPT !.rows = @ \ {code}]
    IN  /\ Serves(t, "row") /\ code \in teller[t].rows
        /\ IF code \in teller[t].known THEN UNCHANGED chart ELSE chart' = chart \union {code}
        /\ Proceeds(t, IF rest.rows = {} \/ code \in chart \ teller[t].known
                       THEN Waiting ELSE rest)
        /\ UNCHANGED <<bankAccounts, statement, deletions, direct, breaks>>

CreateBankAccount(code) ==
    /\ Len(bankAccounts) < MaxAccounts
    /\ code \in chart
    /\ bankAccounts' = Append(bankAccounts, TRUE)
    /\ UNCHANGED <<chart, statement, deletions, teller, direct, breaks>>

\* editBankAccount: what was read is saved; save inserts a row that is gone.
ReadAccount(t, a) ==
    /\ Serves(t, "idle")
    /\ bankAccounts[a]
    /\ Proceeds(t, [Waiting EXCEPT !.step = "edit", !.account = a])
    /\ UNCHANGED <<chart, bankAccounts, statement, deletions, direct, breaks>>
EditBankAccount(t) ==
    /\ Serves(t, "edit")
    /\ bankAccounts' = [bankAccounts EXCEPT ![teller[t].account] = TRUE]
    /\ Proceeds(t, Waiting)
    /\ UNCHANGED <<chart, statement, deletions, direct, breaks>>
-------------------------------------------------------------------------------
(* Reconciliation.                                                          *)

ImportStatementLine(a) ==
    /\ bankAccounts[a]
    /\ Len(statement) < MaxStatement
    /\ statement' = Append(statement, [bankAccount |-> a, matchedJournalLineId |-> NoRow])
    /\ UNCHANGED <<chart, bankAccounts, deletions, teller, direct, breaks>>
SetMatch(s, line) ==
    /\ statement' = [statement EXCEPT ![s].matchedJournalLineId = line]
    /\ UNCHANGED <<chart, bankAccounts, deletions, teller, direct, breaks>>
MatchLines(s, line) == SetMatch(s, line)
UnmatchLine(s) == SetMatch(s, NoRow)

\* The view of one account: what is unmatched on either side.
UnmatchedStatement(a) ==
    {s \in DOMAIN statement : /\ statement[s].bankAccount = a
                              /\ statement[s].matchedJournalLineId = NoRow}
MatchedStatement(a) ==
    {s \in DOMAIN statement : statement[s].bankAccount = a} \ UnmatchedStatement(a)
UnmatchedLedger(a) ==
    LedgerLines \ {statement[s].matchedJournalLineId : s \in MatchedStatement(a)}
-------------------------------------------------------------------------------
(* Deletion.                                                                *)

\* Statement lines refer to their account and keep it; requests forget it.
Deletable(a) == \A s \in DOMAIN statement : statement[s].bankAccount # a
Delete(a) ==
    /\ bankAccounts' = [bankAccounts EXCEPT ![a] = FALSE]
    /\ deletions' = [r \in DOMAIN deletions |->
                       IF deletions[r].bankAccount = a
                       THEN [deletions[r] EXCEPT !.bankAccount = NoRow] ELSE deletions[r]]

\* requestBankAccountDeletion of a Supreme Admin, and of anybody else.
DeleteDirectly(a) ==
    /\ bankAccounts[a] /\ Deletable(a)
    /\ Delete(a)
    /\ direct' = direct \union {a}
    /\ UNCHANGED <<chart, statement, teller, breaks>>
ReadPending(t, a) ==
    /\ Serves(t, "idle")
    /\ bankAccounts[a]
    /\ Len(deletions) + Cardinality({c \in Tellers : Serves(c, "request")}) < MaxDeletions
    /\ \A r \in DOMAIN deletions :
          deletions[r].bankAccount = a => deletions[r].status # "Pending"
    /\ Proceeds(t, [Waiting EXCEPT !.step = "request", !.account = a])
    /\ UNCHANGED <<chart, bankAccounts, statement, deletions, direct, breaks>>
\* The insert of a request for an account that is gone fails.
InsertRequest(t) ==
    LET a == teller[t].account
    IN  /\ Serves(t, "request")
        /\ IF bankAccounts[a]
           THEN deletions' = Append(deletions, [bankAccount |-> a, bankAccountName |-> a,
                                                status |-> "Pending"])
           ELSE UNCHANGED deletions
        /\ Proceeds(t, Waiting)
        /\ UNCHANGED <<chart, bankAccounts, statement, direct, breaks>>

\* Fault: a request that has been decided is not refused.
ReadDecided(t, r, decision) ==
    /\ Serves(t, "idle")
    /\ Proceeds(t, [Waiting EXCEPT !.step = "decide", !.request = r, !.decision = decision,
                                   !.account = deletions[r].bankAccount])
    /\ UNCHANGED <<chart, bankAccounts, statement, deletions, direct, breaks>>
\* decideBankAccountDeletion reads the request, deletes, then saves it.
ReadRequest(t, r, decision) ==
    /\ Serves(t, "idle")
    /\ deletions[r].status = "Pending"
    /\ Proceeds(t, [Waiting EXCEPT !.step = "decide", !.request = r, !.decision = decision,
                                   !.account = deletions[r].bankAccount])
    /\ UNCHANGED <<chart, bankAccounts, statement, deletions, direct, breaks>>
DeleteAccount(t) ==
    LET a == teller[t].account
    IN  /\ Serves(t, "decide")
        /\ IF teller[t].decision = "Rejected" \/ a = NoRow
           THEN /\ Proceeds(t, [teller[t] EXCEPT !.step = "save"])
                /\ UNCHANGED <<bankAccounts, deletions>>
           ELSE IF Deletable(a)
           THEN /\ Proceeds(t, [teller[t] EXCEPT !.step = "save", !.account = NoRow])
                /\ Delete(a)
           ELSE Proceeds(t, Waiting) /\ UNCHANGED <<bankAccounts, deletions>>
        /\ UNCHANGED <<chart, statement, direct, breaks>>
\* The save writes the account that was read, too, and fails when it is gone.
SaveDecision(t) ==
    LET call == teller[t]
    IN  /\ Serves(t, "save")
        /\ IF call.account = NoRow \/ bankAccounts[call.account]
           THEN deletions' = [deletions EXCEPT ![call.request].status = call.decision,
                                               ![call.request].bankAccount = call.account]
           ELSE UNCHANGED deletions
        /\ Proceeds(t, Waiting)
        /\ UNCHANGED <<chart, bankAccounts, statement, direct, breaks>>
-------------------------------------------------------------------------------
\* The process restarts while a call is being worked on.
Break ==
    /\ breaks < MaxBreaks
    /\ \E t \in Tellers : ~Serves(t, "idle")
    /\ breaks' = breaks + 1
    /\ teller' = [t \in Tellers |-> Waiting]
    /\ UNCHANGED <<chart, bankAccounts, statement, deletions, direct>>

BankStep ==
    \/ \E t \in Tellers :
          \/ \E rows \in SUBSET Codes \ {{}} : ReadChart(t, rows)
          \/ \E code \in Codes : ImportAccount(t, code)
          \/ \E a \in DOMAIN bankAccounts : ReadAccount(t, a) \/ ReadPending(t, a)
          \/ EditBankAccount(t)
          \/ InsertRequest(t)
          \/ \E r \in DOMAIN deletions, decision \in {"Approved", "Rejected"} :
                ReadRequest(t, r, decision)
          \/ DeleteAccount(t)
          \/ SaveDecision(t)
    \/ \E code \in Codes : CreateBankAccount(code)
    \/ \E a \in DOMAIN bankAccounts : ImportStatementLine(a) \/ DeleteDirectly(a)
    \/ \E s \in DOMAIN statement :
          UnmatchLine(s) \/ \E line \in LedgerLines : MatchLines(s, line)
    \/ Break

\* Somebody matches a line that the view does not show as unmatched.
MatchedUnseen ==
    \E s \in DOMAIN statement :
        LET a == statement[s].bankAccount
            line == statement'[s].matchedJournalLineId
        IN  /\ line \notin {NoRow, statement[s].matchedJournalLineId}
            /\ ~(s \in UnmatchedStatement(a) /\ line \in UnmatchedLedger(a))
BankNext ==
    /\ BankStep
    /\ orderly' = /\ orderly
                  /\ breaks' = 0
                  /\ \A s, t \in Tellers :
                        teller'[s] # Waiting /\ teller'[t] # Waiting => s = t
                  /\ teller = teller' => \A t \in Tellers : Serves(t, "idle")
                  /\ ~MatchedUnseen
-------------------------------------------------------------------------------
(* Property.                                                                *)

\* An account that is gone was deleted by a Supreme Admin or with a request
\* that says Approved; what was approved is gone, and a request waits only for
\* an account that is there or was deleted over its head.
DeletionsSigned ==
    /\ \A a \in DOMAIN bankAccounts :
          ~bankAccounts[a] => \/ a \in direct
                              \/ \E r \in DOMAIN deletions : /\ deletions[r].bankAccountName = a
                                                             /\ deletions[r].status = "Approved"
    /\ \A r \in DOMAIN deletions :
          LET a == deletions[r].bankAccountName
          IN  /\ deletions[r].status = "Approved" => ~bankAccounts[a]
              /\ deletions[r].status = "Pending" => bankAccounts[a] \/ a \in direct

\* A ledger line is on one side of an account's view: unmatched, or matched by
\* exactly one line of its statement.
EachLineOnce ==
    \A a \in DOMAIN bankAccounts, line \in LedgerLines :
        line \in UnmatchedLedger(a) \/
        Cardinality({s \in MatchedStatement(a) : statement[s].matchedJournalLineId = line}) = 1

\* While calls come one after the other and staff match what they are shown, at
\* rest: what the requests say about deleted accounts is what happened to them,
\* and the reconciliation counts no ledger line twice.
BankBooksHold ==
    orderly /\ (\A t \in Tellers : Serves(t, "idle")) => DeletionsSigned /\ EachLineOnce
===============================================================================
