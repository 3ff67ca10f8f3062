------------------------------ MODULE RosterImport ------------------------------
(***************************************************************************)
(* RosterImportService: an office spreadsheet becomes clients and          *)
(* policies, row by row; a row that cannot be trusted becomes an issue     *)
(* that a person resolves, links to a policy or dismisses.  A cell is what *)
(* its parser makes of it, a policy number its series number and the way   *)
(* it is spelled.                                                          *)
(***************************************************************************)
EXTENDS Naturals, Sequences, FiniteSets, SequencesExt

CONSTANTS
    Clerks,          \* requests the server works on at the same time
    Sheets,          \* the files there are: a format and the rows of its sheet
    FixNumbers,      \* numbers a person may give a row under review
    NoNumber, NoPin, \* an empty cell
    MaxImports,      \* bound: uploads
    MaxIssues,       \* bound: rows of roster_import_issues
    MaxRestarts      \* bound: restarts
ASSUME RosterAssumption ==
    /\ IsFiniteSet(Clerks)
    /\ Sheets \in Seq(Range(Sheets))
    /\ \A s \in DOMAIN Sheets : Sheets[s].sheet \in Seq(Range(Sheets[s].sheet))

VARIABLES
    rosterPolicies,  \* policies: number, pincode, client, and the row it was made of
    rosterClients,   \* how many clients were created
    issues,    \* table roster_import_issues
    clerk,     \* what each request is doing
    uploaded,  \* history: sheets whose upload ended well
    restarts, imports,
    serial     \* history: one request after the other so far

rosterVars == <<rosterPolicies, rosterClients, issues, clerk, uploaded, restarts, imports, serial>>

RosterImportIssue ==
    [row: [policyNo: {NoNumber} \union [number: Nat, spelling: Nat, copy: Nat], pincode: {NoPin} \union Nat],
     status: {"Pending", "Resolved", "Dismissed"}]

\* "SSP 037", "ssp37" and "SSP037": the spelling goes, but not of a number that
\* carries a suffix.
normalizePolicyNo(no) ==
    IF no = NoNumber \/ no.copy > 1 THEN no
    ELSE [number |-> no.number, spelling |-> 0, copy |-> no.copy]
-------------------------------------------------------------------------------
(* Reading a sheet.                                                         *)

\* What kind of cell a date is written as, and the kinds each parser reads.  A
\* kind it does not read is reported, an empty cell is not.
DateKinds == {"empty", "date", "mmm-yy", "d/m/y", "serial", "text"}
Unparsed(readable, kind) == kind \notin readable \union {"empty"}
parseDateCell == {"date", "mmm-yy"}
parseCssDateCell == {"date", "serial", "d/m/y"}

\* The parsers differ in the columns there are: a pincode in two of the
\* rosters, a maturity that is a date, a number of years or nothing.
ParsedRosterRow(cells, readable, maturityUnparsed, pincode, family) ==
    [policyNo |-> cells.policyNo, pincode |-> pincode, name |-> cells.name,
     bad |-> Unparsed(readable, cells.commencement) \/ maturityUnparsed, family |-> family]

parsePaySmolSmolRoster(sheet) ==
    [i \in DOMAIN sheet |-> ParsedRosterRow(sheet[i], parseDateCell,
        Unparsed(parseDateCell, sheet[i].maturity), sheet[i].pincode, 0)]
parseCssRoster(sheet) ==
    [i \in DOMAIN sheet |-> ParsedRosterRow(sheet[i], parseCssDateCell, FALSE, sheet[i].pincode, 0)]
\* A maturity period without a number of years cannot be read.
parseSuperSavingsPlusRoster(sheet) ==
    [i \in DOMAIN sheet |-> ParsedRosterRow(sheet[i], parseCssDateCell,
        sheet[i].maturity \notin {"empty", "years"}, NoPin, 0)]
\* A parent's children: a row without a name belongs to the client above, and
\* a number that comes again gets the suffix of its occurrence.
Family(sheet, i) == Cardinality({j \in 1 .. i : sheet[j].name # "above"})
Occurrence(sheet, i) == Cardinality({j \in 1 .. i : sheet[j].policyNo = sheet[i].policyNo})
parsePikinRoster(sheet) ==
    [i \in DOMAIN sheet |->
        LET cells == [sheet[i] EXCEPT !.policyNo =
                        IF @ = NoNumber THEN @ ELSE [@ EXCEPT !.copy = Occurrence(sheet, i)]]
        IN  ParsedRosterRow(cells, parseCssDateCell, Unparsed(parseCssDateCell, cells.maturity),
                            NoPin, Family(sheet, i))]
RowsOfSheet(s) ==
    CASE Sheets[s].format = "css" -> parseCssRoster(Sheets[s].sheet)
      [] Sheets[s].format = "pikin" -> parsePikinRoster(Sheets[s].sheet)
      [] Sheets[s].format = "super_savings_plus" -> parseSuperSavingsPlusRoster(Sheets[s].sheet)
      [] OTHER -> parsePaySmolSmolRoster(Sheets[s].sheet)
-------------------------------------------------------------------------------
Away == [step |-> "idle", sheet |-> 0, at |-> 0, numbers |-> {}, pins |-> {},
         pending |-> {}, families |-> << >>, client |-> 0, issue |-> 0, fix |-> NoNumber]
ClerkAt(c, step) == clerk[c].step = step
Moves(c, to) == clerk' = [clerk EXCEPT ![c] = to]
Row(c) == RowsOfSheet(clerk[c].sheet)[clerk[c].at]
\* Matched by number, or by pincode and name for a row without one.
Fingerprint(row) ==
    IF row.policyNo = NoNumber THEN <<row.pincode, row.name>> ELSE <<row.policyNo>>

RosterInit ==
    /\ rosterPolicies = {}
    /\ rosterClients = 0
    /\ issues = << >>
    /\ clerk = [c \in Clerks |-> Away]
    /\ uploaded = {}
    /\ restarts = 0
    /\ imports = 0
    /\ serial = TRUE

\* importRoster reads what there is, once.
StartImport(c, s) ==
    /\ ClerkAt(c, "idle")
    /\ imports < MaxImports
    /\ imports' = imports + 1
    /\ Moves(c, [Away EXCEPT !.step = "row", !.sheet = s, !.at = 1,
          !.numbers = {normalizePolicyNo(p.policyNo) : p \in rosterPolicies},
          !.pins = {p.pincode : p \in rosterPolicies} \ {NoPin},
          !.pending = {Fingerprint(issues[i].row) :
                         i \in {j \in DOMAIN issues : issues[j].status = "Pending"}}])
    /\ UNCHANGED <<rosterPolicies, rosterClients, issues, uploaded, restarts>>

Times(c, column, value) ==
    Cardinality({i \in DOMAIN RowsOfSheet(clerk[c].sheet) :
                    RowsOfSheet(clerk[c].sheet)[i][column] = value})
\* Why a row goes to review.
Suspicious(c, row) ==
    \/ row.policyNo = NoNumber
    \/ Times(c, "policyNo", row.policyNo) > 1
    \/ /\ row.pincode # NoPin
       /\ Times(c, "pincode", row.pincode) > 1 \/ row.pincode \in clerk[c].pins
    \/ row.bad

\* Fault: the numbers there are compared as written.
KnownAsWritten(c, row) == row.policyNo \in clerk[c].numbers
\* Already imported, however it was spelled then.
Known(c, row) == row.policyNo # NoNumber /\ normalizePolicyNo(row.policyNo) \in clerk[c].numbers
Skipped(c, row) == Known(c, row) \/ Fingerprint(row) \in clerk[c].pending

SkipRow(c) ==
    /\ ClerkAt(c, "row")
    /\ clerk[c].at \in DOMAIN RowsOfSheet(clerk[c].sheet)
    /\ Skipped(c, Row(c))
    /\ Moves(c, [clerk[c] EXCEPT !.at = @ + 1])
    /\ UNCHANGED <<rosterPolicies, rosterClients, issues, uploaded, restarts, imports>>

FlagRow(c) ==
    /\ ClerkAt(c, "row")
    /\ clerk[c].at \in DOMAIN RowsOfSheet(clerk[c].sheet)
    /\ ~Skipped(c, Row(c)) /\ Suspicious(c, Row(c))
    /\ Len(issues) < MaxIssues
    /\ issues' = Append(issues, [row |-> Row(c), status |-> "Pending"])
    /\ Moves(c, [clerk[c] EXCEPT !.at = @ + 1])
    /\ UNCHANGED <<rosterPolicies, rosterClients, uploaded, restarts, imports>>

\* The client: one for all rows of a family in this upload.
TakeClient(c) ==
    LET family == Row(c).family
        shared == family # 0 /\ family \in DOMAIN clerk[c].families
    IN  /\ ClerkAt(c, "row")
        /\ clerk[c].at \in DOMAIN RowsOfSheet(clerk[c].sheet)
        /\ ~Skipped(c, Row(c)) /\ ~Suspicious(c, Row(c))
        /\ rosterClients' = IF shared THEN rosterClients ELSE rosterClients + 1
        /\ Moves(c, [clerk[c] EXCEPT !.step = "policy",
             !.client = IF shared THEN clerk[c].families[family] ELSE rosterClients + 1,
             !.families = IF shared \/ family = 0 THEN @
                          ELSE [f \in DOMAIN @ \union {family} |->
                                  IF f = family THEN rosterClients + 1 ELSE @[f]]])
        /\ UNCHANGED <<rosterPolicies, issues, uploaded, restarts, imports>>

NewPolicy(no, pincode, client, sheet, at) ==
    rosterPolicies' = rosterPolicies \union
        {[policyNo |-> no, pincode |-> pincode, client |-> client, sheet |-> sheet, at |-> at]}
Taken(no) == \E p \in rosterPolicies : p.policyNo = no

\* The policy; its number is unique as written, and an error ends the upload.
SaveRosterPolicy(c) ==
    LET row == Row(c)
    IN  /\ ClerkAt(c, "policy")
        /\ IF Taken(row.policyNo) THEN Moves(c, Away) /\ UNCHANGED rosterPolicies
           ELSE /\ NewPolicy(row.policyNo, row.pincode, clerk[c].client, clerk[c].sheet, clerk[c].at)
                /\ Moves(c, [clerk[c] EXCEPT !.step = "row", !.at = @ + 1, !.client = 0,
                       !.numbers = @ \union {row.policyNo}, !.pins = @ \union ({row.pincode} \ {NoPin})])
        /\ UNCHANGED <<rosterClients, issues, uploaded, restarts, imports>>

EndImport(c) ==
    /\ ClerkAt(c, "row")
    /\ clerk[c].at \notin DOMAIN RowsOfSheet(clerk[c].sheet)
    /\ uploaded' = uploaded \union {clerk[c].sheet}
    /\ Moves(c, Away)
    /\ UNCHANGED <<rosterPolicies, rosterClients, issues, restarts, imports>>
-------------------------------------------------------------------------------
(* The review.                                                              *)

FindByNumber(no) == {p \in rosterPolicies : normalizePolicyNo(p.policyNo) = normalizePolicyNo(no)}

\* resolveIssue: the issue is Pending and the number free when looked at; then
\* the client, the policy, and the issue.
ResolveIssue(c, i, no) ==
    /\ ClerkAt(c, "idle")
    /\ issues[i].status = "Pending"
    /\ FindByNumber(no) = {}
    /\ rosterClients' = rosterClients + 1
    /\ Moves(c, [Away EXCEPT !.step = "fixed policy", !.issue = i, !.fix = no, !.client = rosterClients + 1])
    /\ UNCHANGED <<rosterPolicies, issues, uploaded, restarts, imports>>
SaveFixedPolicy(c) ==
    /\ ClerkAt(c, "fixed policy")
    /\ IF Taken(clerk[c].fix) THEN Moves(c, Away) /\ UNCHANGED rosterPolicies
       ELSE /\ NewPolicy(clerk[c].fix, issues[clerk[c].issue].row.pincode, clerk[c].client, 0, 0)
            /\ Moves(c, [clerk[c] EXCEPT !.step = "close", !.client = 0])
    /\ UNCHANGED <<rosterClients, issues, uploaded, restarts, imports>>
\* linkIssueToExisting fills in the pincode of the policy that was found.
LinkIssue(c, i) ==
    /\ ClerkAt(c, "idle")
    /\ issues[i].status = "Pending"
    /\ \E no \in FixNumbers : \E p \in FindByNumber(no) :
          rosterPolicies' = (rosterPolicies \ {p}) \union
             {[p EXCEPT !.pincode = IF @ = NoPin THEN issues[i].row.pincode ELSE @]}
    /\ Moves(c, [Away EXCEPT !.step = "close", !.issue = i])
    /\ UNCHANGED <<rosterClients, issues, uploaded, restarts, imports>>
SetIssue(i, status) == issues' = [issues EXCEPT ![i].status = status]
CloseIssue(c) ==
    /\ ClerkAt(c, "close")
    /\ SetIssue(clerk[c].issue, "Resolved")
    /\ Moves(c, Away)
    /\ UNCHANGED <<rosterPolicies, rosterClients, uploaded, restarts, imports>>
DismissIssue(c, i) ==
    /\ ClerkAt(c, "idle")
    /\ issues[i].status = "Pending"
    /\ SetIssue(i, "Dismissed")
    /\ UNCHANGED <<rosterPolicies, rosterClients, clerk, uploaded, restarts, imports>>

\* A restart cuts an upload off in the middle; the clerk uploads it again.
RosterRestart ==
    /\ restarts < MaxRestarts
    /\ restarts' = restarts + 1
    /\ clerk' = [c \in Clerks |-> Away]
    /\ UNCHANGED <<rosterPolicies, rosterClients, issues, uploaded, imports>>
-------------------------------------------------------------------------------
RosterNext ==
    /\ \/ \E c \in Clerks :
             \/ \E s \in DOMAIN Sheets : StartImport(c, s)
             \/ SkipRow(c) \/ FlagRow(c) \/ TakeClient(c) \/ SaveRosterPolicy(c) \/ EndImport(c)
             \/ SaveFixedPolicy(c) \/ CloseIssue(c)
             \/ \E i \in DOMAIN issues :
                   \/ \E no \in FixNumbers : ResolveIssue(c, i, no)
                   \/ LinkIssue(c, i)
                   \/ DismissIssue(c, i)
       \/ RosterRestart
    /\ serial' = (serial /\ Cardinality({c \in Clerks : clerk'[c].step # "idle"}) <= 1)
-------------------------------------------------------------------------------
(* Properties.                                                              *)

\* What is asked of the sheets: each spells a number in one way, and the number of
\* a child is in no other sheet.
SheetsInOrder ==
    /\ \A s \in DOMAIN Sheets : \A i, j \in DOMAIN RowsOfSheet(s) :
         normalizePolicyNo(RowsOfSheet(s)[i].policyNo) = normalizePolicyNo(RowsOfSheet(s)[j].policyNo)
            => RowsOfSheet(s)[i].policyNo = RowsOfSheet(s)[j].policyNo
    /\ \A s, t \in DOMAIN Sheets : \A i \in DOMAIN RowsOfSheet(s), j \in DOMAIN RowsOfSheet(t) :
         (RowsOfSheet(s)[i].family # 0 /\ RowsOfSheet(s)[i].policyNo # NoNumber
            /\ RowsOfSheet(s)[i].policyNo = RowsOfSheet(t)[j].policyNo) => s = t

\* What a sheet promises once its upload ended, restarts and further uploads
\* included: every row is a policy or an issue somebody looks at; no two
\* policies have what normalizePolicyNo calls the same number; and the policies
\* made of one family by an undisturbed server have one client.  (Requests
\* follow each other, and a sheet spells a number in one way.)
RowsAccounted ==
    serial =>
        /\ \A s \in uploaded : \A i \in DOMAIN RowsOfSheet(s) :
             LET row == RowsOfSheet(s)[i]
             IN  \/ row.policyNo # NoNumber /\ FindByNumber(row.policyNo) # {}
                 \/ \E k \in DOMAIN issues : Fingerprint(issues[k].row) = Fingerprint(row)
        /\ \A p, q \in rosterPolicies :
             p # q => normalizePolicyNo(p.policyNo) # normalizePolicyNo(q.policyNo)
        /\ restarts = 0 => \A p, q \in rosterPolicies :
             (p.sheet # 0 /\ p.sheet = q.sheet /\ RowsOfSheet(p.sheet)[p.at].family # 0) =>
                (p.client = q.client <=>
                   RowsOfSheet(p.sheet)[p.at].family = RowsOfSheet(q.sheet)[q.at].family)
===============================================================================
