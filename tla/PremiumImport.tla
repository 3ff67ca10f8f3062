----------------------------- MODULE PremiumImport -----------------------------
(***************************************************************************)
(* Premiums that arrive as files: the deduction lists of the Accountant    *)
(* General (two layouts), an employer's payroll, the office's own payment  *)
(* sheet and the bulk endpoint.  Each row is matched to a policy, by the   *)
(* payroll also created, and posted by PaymentsService.postPayment under a *)
(* key made of the row; here a payment is posted in one step.              *)
(***************************************************************************)
EXTENDS Naturals, Sequences, FiniteSets, SequencesExt

CONSTANTS
    Uploaders,    \* requests the server works on at the same time
    Files,        \* the files there are: a layout and its rows
    Absent,       \* an empty cell
    Products,     \* table products
    MaxUploads,   \* bound: uploads
    MaxCuts       \* bound: restarts, policies cancelled meanwhile

VARIABLES
    roll,      \* policies: number, pincode, client, product, cancelled
    people,    \* clients: national ID and phone
    posted,    \* table payments, by idempotency key
    records,   \* table deduction_import_records
    upload,    \* what each request is doing
    finished,  \* history: files whose upload was answered
    refused,   \* history: rows answered as failed, unmatched, zero or cancelled
    cuts, uploads,
    single     \* history: one upload after the other so far

premiumVars == <<roll, people, posted, records, upload, finished, refused, cuts, uploads, single>>

Layouts == {"mda", "endowment", "payroll", "office", "bulk"}
DeductionRecordStatus == {"Posted", "AlreadyPosted", "Unmatched", "Zero", "PolicyCancelled"}
DeductionImportRecord ==
    [period: Nat, pincode: Nat, status: DeductionRecordStatus, matchedPolicy: Nat]

\* The Accountant General's export is read without the amounts that are no
\* numbers; in the list of EMI's own clients they count as zero.
Readable(row) == row.amount # Absent
parseDeductionFile(rows) == SelectSeq(rows, Readable)
parseEmiEndowmentDeductionFile(rows) ==
    [i \in DOMAIN rows |-> IF Readable(rows[i]) THEN rows[i] ELSE [rows[i] EXCEPT !.amount = 0]]
SheetRows(f) ==
    CASE Files[f].layout = "mda" -> parseDeductionFile(Files[f].rows)
      [] Files[f].layout = "endowment" -> parseEmiEndowmentDeductionFile(Files[f].rows)
      [] OTHER -> Files[f].rows
Deductions(f) == Files[f].layout \in {"mda", "endowment"}
SheetRow(layout) ==
    CASE layout \in {"mda", "endowment"} -> [pincode: Nat, month: Nat, amount: Nat]
      [] layout = "payroll" -> [nationalId: Nat, phone: Nat, month: Nat, amount: Nat]
      [] OTHER -> [policyNo: [number: Nat, spelling: Nat], month: Nat, amount: Nat]
ASSUME PremiumAssumption ==
    /\ IsFiniteSet(Uploaders)
    /\ Absent \in Nat /\ "Endowment" \in Products
    /\ \A f \in DOMAIN Files :
         Files[f].layout \in Layouts /\ SheetRows(f) \in Seq(SheetRow(Files[f].layout))

\* The idempotency key of a row: who, which month, and in the sheets of the
\* office how much.
KeyOf(f, row) ==
    IF Deductions(f) THEN <<"deduction", row.pincode, row.month>>
    ELSE IF Files[f].layout = "payroll"
    THEN <<"payroll", IF row.nationalId # Absent THEN row.nationalId ELSE row.phone, row.month>>
    ELSE <<Files[f].layout, row.policyNo, row.month, row.amount>>

Out == [step |-> "idle", file |-> 0, at |-> 0, client |-> 0, policy |-> 0]
StepIs(c, step) == upload[c].step = step
Move(c, to) == upload' = [upload EXCEPT ![c] = to]
RowAt(c) == SheetRows(upload[c].file)[upload[c].at]
HasRow(c) == StepIs(c, "row") /\ upload[c].at \in DOMAIN SheetRows(upload[c].file)
Is(c, layouts) == Files[upload[c].file].layout \in layouts
\* On to the next row, with the policy and the client forgotten.
NextRow(c) == Move(c, [upload[c] EXCEPT !.step = "row", !.at = @ + 1, !.client = 0, !.policy = 0])
Refuse(c) == refused' = refused \union {<<upload[c].file, upload[c].at>>}
Keyed(key) == \E p \in posted : p.key = key

PremiumInit(policies, clients) ==
    /\ roll = policies
    /\ people = clients
    /\ posted = {}
    /\ records = << >>
    /\ upload = [c \in Uploaders |-> Out]
    /\ finished = {}
    /\ refused = {}
    /\ cuts = 0
    /\ uploads = 0
    /\ single = TRUE

StartUpload(c, f) ==
    /\ StepIs(c, "idle")
    /\ uploads < MaxUploads
    /\ uploads' = uploads + 1
    /\ Move(c, [Out EXCEPT !.step = "row", !.file = f, !.at = 1])
    /\ UNCHANGED <<roll, people, posted, records, finished, refused, cuts>>

EndUpload(c) ==
    /\ StepIs(c, "row")
    /\ ~HasRow(c)
    /\ finished' = finished \union {upload[c].file}
    /\ Move(c, Out)
    /\ UNCHANGED <<roll, people, posted, records, refused, cuts, uploads>>
-------------------------------------------------------------------------------
(* processRows: the deduction lists.                                        *)

ByPin(pincode) == {p \in DOMAIN roll : roll[p].pincode = pincode}
Record(row, status, p) ==
    records' = Append(records, [period |-> row.month, pincode |-> row.pincode, status |-> status,
                                matchedPolicy |-> p])

\* A row is refused for its amount, its pincode or its policy, or was posted
\* before; findOne gives any of the policies with the pincode.
MatchDeduction(c) ==
    LET row == RowAt(c)
    IN  /\ HasRow(c) /\ Is(c, {"mda", "endowment"})
        /\ \/ /\ row.amount = 0 \/ ByPin(row.pincode) = {}
              /\ Record(row, IF row.amount = 0 THEN "Zero" ELSE "Unmatched", 0)
              /\ Refuse(c) /\ NextRow(c)
           \/ \E p \in ByPin(row.pincode) :
              /\ row.amount > 0
              /\ IF roll[p].cancelled
                 THEN Record(row, "PolicyCancelled", p) /\ Refuse(c) /\ NextRow(c)
                 ELSE /\ UNCHANGED refused
                      /\ IF Keyed(KeyOf(upload[c].file, row))
                         THEN Record(row, "AlreadyPosted", p) /\ NextRow(c)
                         ELSE /\ UNCHANGED records
                              /\ Move(c, [upload[c] EXCEPT !.step = "post", !.policy = p])
        /\ UNCHANGED <<roll, people, posted, finished, cuts, uploads>>

RecordDeduction(c) ==
    /\ StepIs(c, "record")
    /\ Record(RowAt(c), "Posted", upload[c].policy)
    /\ NextRow(c)
    /\ UNCHANGED <<roll, people, posted, finished, refused, cuts, uploads>>
-------------------------------------------------------------------------------
(* processFile: an employer's payroll.                                      *)

\* Fault: with a national ID given, the phone is not tried.
FoundById(row) ==
    IF row.nationalId # Absent THEN {k \in DOMAIN people : people[k].nationalId = row.nationalId}
    ELSE {k \in DOMAIN people : people[k].phone = row.phone}
\* An employee on file, by national ID when given, otherwise by phone.
FindClient(row) ==
    LET byId == {k \in DOMAIN people : people[k].nationalId = row.nationalId /\ row.nationalId # Absent}
    IN  IF byId # {} THEN byId ELSE {k \in DOMAIN people : people[k].phone = row.phone}

MatchEmployee(c) ==
    LET row == RowAt(c)
    IN  /\ HasRow(c) /\ Is(c, {"payroll"})
        /\ IF row.phone = Absent \/ row.amount = 0 THEN Refuse(c) /\ NextRow(c)
           ELSE /\ UNCHANGED refused
                /\ IF FindClient(row) = {} THEN Move(c, [upload[c] EXCEPT !.step = "enrol"])
                   ELSE \E k \in FindClient(row) :
                           Move(c, [upload[c] EXCEPT !.step = "policy", !.client = k])
        /\ UNCHANGED <<roll, people, posted, records, finished, cuts, uploads>>
CreateEmployee(c) ==
    /\ StepIs(c, "enrol")
    /\ people' = Append(people, [nationalId |-> RowAt(c).nationalId, phone |-> RowAt(c).phone])
    /\ Move(c, [upload[c] EXCEPT !.step = "policy", !.client = Len(people) + 1])
    /\ UNCHANGED <<roll, posted, records, finished, refused, cuts, uploads>>
EndowmentsOf(k) == {p \in DOMAIN roll : roll[p].client = k /\ roll[p].product = "Endowment"}
FindPolicy(c) ==
    /\ StepIs(c, "policy")
    /\ IF EndowmentsOf(upload[c].client) = {} THEN Move(c, [upload[c] EXCEPT !.step = "issue"])
       ELSE \E p \in EndowmentsOf(upload[c].client) :
               Move(c, [upload[c] EXCEPT !.step = "post", !.policy = p])
    /\ UNCHANGED <<roll, people, posted, records, finished, refused, cuts, uploads>>
IssuePolicy(c) ==
    /\ StepIs(c, "issue")
    /\ roll' = Append(roll, [policyNo |-> [number |-> Absent, spelling |-> 0], pincode |-> Absent, client |-> upload[c].client,
                             product |-> "Endowment", cancelled |-> FALSE])
    /\ Move(c, [upload[c] EXCEPT !.step = "post", !.policy = Len(roll) + 1])
    /\ UNCHANGED <<people, posted, records, finished, refused, cuts, uploads>>
-------------------------------------------------------------------------------
(* bulkUpload and postBulk: sheets that name the policy.                    *)

\* bulkUpload forgives the spelling and looks for the key first, postBulk
\* takes the number as written and leaves the key to postPayment.
Spelled(c, no, written) == no.number = written.number /\ (Is(c, {"office"}) \/ no = written)
MatchPolicyNo(c) ==
    LET row == RowAt(c)
        named == {p \in DOMAIN roll : Spelled(c, roll[p].policyNo, row.policyNo)}
    IN  /\ HasRow(c) /\ Is(c, {"office", "bulk"})
        /\ \/ named = {} /\ Refuse(c) /\ NextRow(c)
           \/ /\ named # {} /\ Is(c, {"office"}) /\ Keyed(KeyOf(upload[c].file, row))
              /\ UNCHANGED refused /\ NextRow(c)
           \/ /\ ~(Is(c, {"office"}) /\ Keyed(KeyOf(upload[c].file, row)))
              /\ UNCHANGED refused
              /\ \E p \in named : Move(c, [upload[c] EXCEPT !.step = "post", !.policy = p])
        /\ UNCHANGED <<roll, people, posted, records, finished, cuts, uploads>>

\* postPayment: refused for a cancelled policy, and nothing new under a key
\* that is there.  An error ends a deduction list, and is noted by the others.
Post(c) ==
    LET f == upload[c].file
    IN  /\ StepIs(c, "post")
        /\ IF roll[upload[c].policy].cancelled
           THEN /\ Refuse(c)
                /\ IF Deductions(f) THEN Move(c, Out) ELSE NextRow(c)
                /\ UNCHANGED posted
           ELSE /\ posted' = IF Keyed(KeyOf(f, RowAt(c))) THEN posted
                             ELSE posted \union {[key |-> KeyOf(f, RowAt(c)), policy |-> upload[c].policy,
                                                  month |-> RowAt(c).month, amount |-> RowAt(c).amount]}
                /\ IF Deductions(f) THEN Move(c, [upload[c] EXCEPT !.step = "record"]) ELSE NextRow(c)
                /\ UNCHANGED refused
        /\ UNCHANGED <<roll, people, records, finished, cuts, uploads>>

Cut == cuts < MaxCuts /\ cuts' = cuts + 1
CancelMeanwhile(p) ==
    /\ Cut
    /\ roll' = [roll EXCEPT ![p].cancelled = TRUE]
    /\ UNCHANGED <<people, posted, records, upload, finished, refused, uploads>>
UploadRestart ==
    /\ Cut
    /\ upload' = [c \in Uploaders |-> Out]
    /\ UNCHANGED <<roll, people, posted, records, finished, refused, uploads>>
-------------------------------------------------------------------------------
PremiumNext ==
    /\ \/ \E c \in Uploaders :
             \/ \E f \in DOMAIN Files : StartUpload(c, f)
             \/ MatchDeduction(c) \/ RecordDeduction(c)
             \/ MatchEmployee(c) \/ CreateEmployee(c) \/ FindPolicy(c) \/ IssuePolicy(c)
             \/ MatchPolicyNo(c) \/ Post(c) \/ EndUpload(c)
       \/ \E p \in DOMAIN roll : CancelMeanwhile(p)
       \/ UploadRestart
    /\ single' = (single /\ Cardinality({c \in Uploaders : upload'[c].step # "idle"}) <= 1)
-------------------------------------------------------------------------------
(* Properties.                                                              *)

\* What the files say of people: an employee has one phone and one way to be
\* named, in the lists and in the tables, and an office sheet spells a number in
\* one way.
RowsOf(layout) ==
    UNION {Range(SheetRows(f)) : f \in {g \in DOMAIN Files : Files[g].layout = layout}}
RowsInOrder ==
    /\ \A row, other \in RowsOf("payroll") :
         /\ row.phone = other.phone => row.nationalId = other.nationalId
         /\ row.nationalId = other.nationalId /\ row.nationalId # Absent => row.phone = other.phone
    /\ \A row, other \in RowsOf("office") :
         row.policyNo.number = other.policyNo.number => row.policyNo = other.policyNo
TablesInOrder(policies, clients) ==
    /\ policies \in Seq([policyNo: [number: Nat, spelling: Nat], pincode: Nat,
                         client: DOMAIN clients, product: Products, cancelled: BOOLEAN])
    /\ clients \in Seq([nationalId: Nat, phone: Nat])
    /\ \A k, j \in DOMAIN clients : clients[k].phone = clients[j].phone => k = j
    /\ \A p, q \in DOMAIN policies :
         (policies[p].client = policies[q].client
            /\ policies[p].product = "Endowment" /\ policies[q].product = "Endowment") => p = q
    /\ \A row \in RowsOf("payroll"), k \in DOMAIN clients :
         row.nationalId # Absent /\ row.nationalId = clients[k].nationalId
            => row.phone = clients[k].phone

\* processFile, "re-running the exact same upload changes nothing instead of
\* double-posting", for every layout: once an upload was answered each of its
\* rows is paid or was refused, and however often files were cut off and sent
\* again no employee has two clients, no client two Endowment policies, and no
\* policy two payments of one amount for one month from one kind of list.
UploadsPayOnce ==
    single =>
        /\ \A f \in finished : \A i \in DOMAIN SheetRows(f) :
              Keyed(KeyOf(f, SheetRows(f)[i])) \/ <<f, i>> \in refused
        /\ \A k, j \in DOMAIN people : people[k].phone = people[j].phone => k = j
        /\ \A k \in DOMAIN people : Cardinality(EndowmentsOf(k)) <= 1
        /\ \A p, q \in posted :
              (p.key[1] = q.key[1] /\ p.policy = q.policy /\ p.month = q.month /\ p.amount = q.amount)
                 => p = q

\* The record of a deduction is true: one that says Posted or AlreadyPosted has
\* its payment, no payment was recorded as Posted by two rows, and a list that
\* was answered has a record for each of its payments.
RecordsTellPayments ==
    /\ \A i \in DOMAIN records : records[i].status \in {"Posted", "AlreadyPosted"} =>
          Keyed(<<"deduction", records[i].pincode, records[i].period>>)
    /\ single => \A i, j \in DOMAIN records :
          (records[i].status = "Posted" /\ records[j].status = "Posted"
             /\ records[i].pincode = records[j].pincode /\ records[i].period = records[j].period) => i = j
    /\ \A f \in finished : Deductions(f) => \A i \in DOMAIN SheetRows(f) :
          \E k \in DOMAIN records :
             records[k].pincode = SheetRows(f)[i].pincode /\ records[k].period = SheetRows(f)[i].month

\* Uploaded premiums: one payment per row, however often the file comes, and the
\* record kept of a deduction tells whether it was paid.
UploadsAccounted == UploadsPayOnce /\ RecordsTellPayments
===============================================================================
