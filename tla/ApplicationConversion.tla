------------------------- MODULE ApplicationConversion -------------------------
(***************************************************************************)
(* AppApplicationsService: a person applies in the client app, an officer  *)
(* reviews, rejects or converts the application into a client, a policy,   *)
(* its beneficiaries and an app account.  A conversion is a row of writes  *)
(* without a transaction; its reads before the first write are one step.   *)
(* A form is a telephone number and the shares of the beneficiaries.       *)
(***************************************************************************)
EXTENDS Naturals, Sequences, FiniteSets, SequencesExt, FiniteSetsExt

CONSTANTS
    Requests,          \* requests the server works on at the same time
    Applicants,
    Forms,             \* what may be filled in: [phone, shares, product]
    AppVisible,        \* products that can be applied for
    BeneficiaryLimit,  \* beneficiaries a stored form keeps (6 in the code)
    StaffNumbers,      \* policy numbers an officer may think of
    MaxApplications,   \* bound: applications
    MaxPolicies,       \* bound: policies when a conversion begins
    MaxCrashes         \* bound: restarts and refused writes
ASSUME ApplicationAssumption ==
    /\ IsFiniteSet(Requests) /\ Requests # {}
    /\ \A f \in Forms : f.phone \in Nat /\ f.shares \in Seq(Nat)
    /\ BeneficiaryLimit \in Nat \ {0}

VARIABLES
    apps,          \* table app_applications
    files,         \* table app_files: applications that have their documents
    clients,       \* table clients: [id, clientNo, phone]
    policies,      \* table policies: [id, policyNo, client, product, app]
    beneficiaries, \* table beneficiaries: [id, client, share]
    applicants,    \* app_applicants.clientId
    accounts,      \* client_app_accounts: clients that have one
    inbox,         \* notifications an applicant has: <<applicant, application, what>>
    premiums,      \* clients with a payment that is not reversed
    request,       \* what each request is doing
    crashes,
    quiet,         \* history: one call after the other so far
    leftBehind     \* history: policies whose conversion broke off after them

applicationVars == <<apps, files, clients, policies, beneficiaries, applicants, accounts,
                     inbox, premiums, request, crashes, quiet, leftBehind>>

None == 0
ApplicationStatus == {"Submitted", "Under Review", "Approved", "Rejected"}
AppApplication ==
    [applicationNo: Nat \ {0}, applicant: Applicants, product: {f.product : f \in Forms},
     form: [phone: Nat, shares: Seq(Nat)], status: ApplicationStatus,
     clientId: Nat, policyId: Nat]
AppApplicant == [Applicants -> Nat]
Beneficiary == [id: Nat \ {0}, client: Nat, share: Nat]
-------------------------------------------------------------------------------
(* The form.                                                                *)

Total(shares) == FoldSeq(LAMBDA s, sum : s + sum, 0, shares)
\* At least one beneficiary; of several the shares make 100 per cent.
validateForm(f) ==
    /\ f.shares # << >>
    /\ Len(f.shares) > 1 => Total(f.shares) = 100
sanitizeForm(f) ==
    [phone |-> f.phone,
     shares |-> IF Len(f.shares) = 1 THEN <<100>>
                ELSE SubSeq(f.shares, 1, IF Len(f.shares) < BeneficiaryLimit
                                         THEN Len(f.shares) ELSE BeneficiaryLimit)]

\* "SSP037" and "SSP37" are one number in two spellings.
normalizePolicyNoForLookup(no) == no.number
findDuplicates(a) == {c.id : c \in {d \in clients : d.phone = a.form.phone}}
\* One more than the highest number of the product; there is none to suggest
\* for a product without policies.
suggestPolicyNo(product) ==
    LET known == {p.policyNo.number : p \in {q \in policies : q.product = product}}
    IN  IF known = {} THEN {} ELSE {[number |-> Max(known) + 1, spelling |-> 0]}

\* What the applicant reads.
publicStatus(a) ==
    CASE a.status = "Rejected" -> "Not approved"
      [] a.status = "Approved" /\ a.clientId \notin premiums -> "Approved - awaiting first premium"
      [] a.status = "Approved" /\ a.clientId \in premiums -> "Active"
      [] OTHER -> "Received"
-------------------------------------------------------------------------------
Idle == [step |-> "idle", draft |-> << >>, app |-> None, count |-> 0,
         no |-> [number |-> 0, spelling |-> 0], client |-> None, own |-> FALSE, policy |-> None,
         left |-> << >>, tell |-> "nothing"]
At(r, step) == request[r].step = step
Goes(r, to) == request' = [request EXCEPT ![r] = to]
Ends(r) == Goes(r, Idle)
Tell(a, what) == inbox' = inbox \union {<<apps[a].applicant, a, what>>}
NewId(table) == 1 + Max({0} \union {row.id : row \in table})

ApplicationInit ==
    /\ apps = << >>
    /\ files = {}
    /\ clients = {}
    /\ policies = {}
    /\ beneficiaries = {}
    /\ applicants = [a \in Applicants |-> None]
    /\ accounts = {}
    /\ inbox = {}
    /\ premiums = {}
    /\ request = [r \in Requests |-> Idle]
    /\ crashes = 0
    /\ quiet = TRUE
    /\ leftBehind = {}
-------------------------------------------------------------------------------
(* The applicant.                                                           *)

\* submit counts the applications there are for the number of the new one.
nextApplicationNo(r, applicant, f) ==
    /\ At(r, "idle")
    /\ Len(apps) < MaxApplications
    /\ f.product \in AppVisible
    /\ validateForm(f)
    /\ Goes(r, [Idle EXCEPT !.step = "submit", !.draft = <<applicant, f>>,
                            !.count = Len(apps)])
    /\ UNCHANGED <<apps, files, clients, policies, beneficiaries, applicants, accounts,
                   inbox, premiums, crashes>>

\* The number is unique: of two requests that counted together one fails.
Submit(r) ==
    LET no == request[r].count + 1
        form == request[r].draft[2]
    IN  /\ At(r, "submit")
        /\ IF \E i \in DOMAIN apps : apps[i].applicationNo = no
           THEN Ends(r) /\ UNCHANGED apps
           ELSE /\ apps' = Append(apps,
                     [applicationNo |-> no, applicant |-> request[r].draft[1],
                      product |-> form.product, form |-> sanitizeForm(form),
                      status |-> "Submitted", clientId |-> None, policyId |-> None])
                /\ Goes(r, [Idle EXCEPT !.step = "files", !.app = Len(apps) + 1])
        /\ UNCHANGED <<files, clients, policies, beneficiaries, applicants, accounts,
                       inbox, premiums, crashes>>

SaveFiles(r) ==
    /\ At(r, "files")
    /\ files' = files \union {request[r].app}
    /\ Tell(request[r].app, "received")
    /\ Ends(r)
    /\ UNCHANGED <<apps, clients, policies, beneficiaries, applicants, accounts, premiums, crashes>>
-------------------------------------------------------------------------------
(* Review and rejection: the status is read, then written by id.            *)

ReadForReview(r, a) ==
    /\ At(r, "idle")
    /\ apps[a].status = "Submitted"
    /\ Goes(r, [Idle EXCEPT !.step = "review", !.app = a])
    /\ UNCHANGED <<apps, files, clients, policies, beneficiaries, applicants, accounts,
                   inbox, premiums, crashes>>
ReadForRejection(r, a) ==
    /\ At(r, "idle")
    /\ apps[a].status # "Approved"
    /\ Goes(r, [Idle EXCEPT !.step = "reject", !.app = a])
    /\ UNCHANGED <<apps, files, clients, policies, beneficiaries, applicants, accounts,
                   inbox, premiums, crashes>>

WriteStatus(r, step, status) ==
    /\ At(r, step)
    /\ apps' = [apps EXCEPT ![request[r].app].status = status]
    /\ Goes(r, [Idle EXCEPT !.step = "notify", !.app = request[r].app, !.tell = status])
    /\ UNCHANGED <<files, clients, policies, beneficiaries, applicants, accounts,
                   inbox, premiums, crashes>>
markUnderReview(r) == WriteStatus(r, "review", "Under Review")
reject(r) == WriteStatus(r, "reject", "Rejected")
Notify(r) ==
    /\ At(r, "notify")
    /\ Tell(request[r].app, request[r].tell)
    /\ Ends(r)
    /\ UNCHANGED <<apps, files, clients, policies, beneficiaries, applicants, accounts,
                   premiums, crashes>>
-------------------------------------------------------------------------------
(* Conversion.                                                              *)

\* Fault: an application that was decided may be converted.
ReadAnyForConversion(r, a, no, existing, isNew) ==
    /\ At(r, "idle")
    /\ Cardinality(policies) < MaxPolicies
    /\ \A p \in policies : normalizePolicyNoForLookup(p.policyNo) # normalizePolicyNoForLookup(no)
    /\ findDuplicates(apps[a]) # {} => existing # None \/ isNew
    /\ Goes(r, [Idle EXCEPT !.step = IF existing = None THEN "client" ELSE "policy",
          !.app = a, !.no = no, !.count = Cardinality(clients), !.client = existing])
    /\ UNCHANGED <<apps, files, clients, policies, beneficiaries, applicants, accounts,
                   inbox, premiums, crashes>>

\* The application, its policy number and possible duplicates are read; the
\* officer links a client, or says ("NEW") that this is a different person.
ReadForConversion(r, a, no, existing, isNew) ==
    /\ At(r, "idle")
    /\ Cardinality(policies) < MaxPolicies
    /\ apps[a].status \notin {"Approved", "Rejected"}
    /\ \A p \in policies : normalizePolicyNoForLookup(p.policyNo) # normalizePolicyNoForLookup(no)
    /\ findDuplicates(apps[a]) # {} => existing # None \/ isNew
    /\ Goes(r, [Idle EXCEPT !.step = IF existing = None THEN "client" ELSE "policy",
          !.app = a, !.no = no, !.count = Cardinality(clients), !.client = existing])
    /\ UNCHANGED <<apps, files, clients, policies, beneficiaries, applicants, accounts,
                   inbox, premiums, crashes>>

\* The number of a client is unique and one more than the count of clients.  An id
\* is not given again while a request holds it.
CreateClient(r) ==
    LET no == request[r].count + 1
        id == NewId(clients \union {[id |-> request[s].client] : s \in Requests})
    IN  /\ At(r, "client")
        /\ IF \E c \in clients : c.clientNo = no
           THEN Ends(r) /\ UNCHANGED clients
           ELSE /\ clients' = clients \union
                     {[id |-> id, clientNo |-> no, phone |-> apps[request[r].app].form.phone]}
                /\ Goes(r, [request[r] EXCEPT !.step = "policy", !.client = id, !.own = TRUE])
        /\ UNCHANGED <<apps, files, policies, beneficiaries, applicants, accounts,
                       inbox, premiums, crashes>>

PolicyRow(r) ==
    [id |-> NewId(policies), policyNo |-> request[r].no, client |-> request[r].client,
     product |-> apps[request[r].app].product, app |-> request[r].app]
\* Without a policy the client of this conversion goes, unless a policy or a
\* payment refers to it by now.
PolicyThrows(r) ==
    /\ clients' = {c \in clients : ~ /\ c.id = request[r].client
                                     /\ request[r].own
                                     /\ \A p \in policies : p.client # c.id}
    /\ beneficiaries' = {b \in beneficiaries : \E c \in clients' : c.id = b.client}
    /\ Ends(r)
    /\ UNCHANGED <<apps, policies>>
CreatePolicyFails(r) ==
    /\ \/ \E p \in policies : p.policyNo = request[r].no
       \/ \A c \in clients : c.id # request[r].client
    /\ PolicyThrows(r)

\* Fault: approved as soon as there is a policy.
CreatePolicyAndApprove(r) ==
    /\ At(r, "policy")
    /\ \/ CreatePolicyFails(r)
       \/ /\ \A p \in policies : p.policyNo # request[r].no
          /\ \E c \in clients : c.id = request[r].client
          /\ policies' = policies \union {PolicyRow(r)}
          /\ apps' = [apps EXCEPT ![request[r].app] = [@ EXCEPT !.status = "Approved",
                        !.clientId = request[r].client, !.policyId = PolicyRow(r).id]]
          /\ Goes(r, [request[r] EXCEPT !.step = "beneficiaries", !.policy = PolicyRow(r).id,
                                        !.left = apps[request[r].app].form.shares])
          /\ UNCHANGED <<clients, beneficiaries>>
    /\ UNCHANGED <<files, applicants, accounts, inbox, premiums, crashes>>

CreatePolicy(r) ==
    /\ At(r, "policy")
    /\ \/ CreatePolicyFails(r)
       \/ /\ \A p \in policies : p.policyNo # request[r].no
          /\ \E c \in clients : c.id = request[r].client
          /\ policies' = policies \union {PolicyRow(r)}
          /\ Goes(r, [request[r] EXCEPT !.step = "beneficiaries", !.policy = PolicyRow(r).id,
                                        !.left = apps[request[r].app].form.shares])
          /\ UNCHANGED <<apps, clients, beneficiaries>>
    /\ UNCHANGED <<files, applicants, accounts, inbox, premiums, crashes>>

AddBeneficiary(r) ==
    /\ At(r, "beneficiaries")
    /\ request[r].left # << >>
    /\ beneficiaries' = beneficiaries \union
          {[id |-> NewId(beneficiaries), client |-> request[r].client,
            share |-> Head(request[r].left)]}
    /\ Goes(r, [request[r] EXCEPT !.left = Tail(@)])
    /\ UNCHANGED <<apps, files, clients, policies, applicants, accounts, inbox, premiums, crashes>>

LinkApplicant(r) ==
    /\ At(r, "beneficiaries")
    /\ request[r].left = << >>
    /\ applicants' = [applicants EXCEPT ![apps[request[r].app].applicant] = request[r].client]
    /\ Goes(r, [request[r] EXCEPT !.step = "account"])
    /\ UNCHANGED <<apps, files, clients, policies, beneficiaries, accounts, inbox, premiums, crashes>>

OpenAccount(r) ==
    /\ At(r, "account")
    /\ accounts' = accounts \union {request[r].client}
    /\ Goes(r, [request[r] EXCEPT !.step = "approve"])
    /\ UNCHANGED <<apps, files, clients, policies, beneficiaries, applicants, inbox, premiums, crashes>>

convert(r) ==
    /\ At(r, "approve")
    /\ apps' = [apps EXCEPT ![request[r].app] = [@ EXCEPT !.status = "Approved",
                  !.clientId = request[r].client, !.policyId = request[r].policy]]
    /\ Goes(r, [Idle EXCEPT !.step = "notify", !.app = request[r].app, !.tell = "Approved"])
    /\ UNCHANGED <<files, clients, policies, beneficiaries, applicants, accounts,
                   inbox, premiums, crashes>>
-------------------------------------------------------------------------------
\* The first premium is posted (PaymentsService).
FirstPremium(p) ==
    /\ premiums' = premiums \union {p.client}
    /\ premiums' # premiums
    /\ UNCHANGED <<apps, files, clients, policies, beneficiaries, applicants, accounts,
                   inbox, request, crashes>>

\* A write is refused, for a date that is none (the form's are any text) or a
\* number that is taken, or the database is lost: the request ends with an error and
\* what it wrote before stays.  Only the policy has a handler, above.
WriteFails(r) ==
    /\ ~At(r, "idle")
    /\ crashes < MaxCrashes
    /\ crashes' = crashes + 1
    /\ \/ At(r, "policy") /\ PolicyThrows(r)
       \/ /\ ~At(r, "policy")
          /\ Ends(r)
          /\ UNCHANGED <<apps, clients, policies, beneficiaries>>
    /\ UNCHANGED <<files, applicants, accounts, inbox, premiums>>

\* A restart cuts every request off.
CutOff ==
    /\ crashes < MaxCrashes
    /\ crashes' = crashes + 1
    /\ request' = [r \in Requests |-> Idle]
    /\ request' # request
    /\ UNCHANGED <<apps, files, clients, policies, beneficiaries, applicants, accounts,
                   inbox, premiums>>

ApplicationStep ==
    \/ \E r \in Requests :
         \/ \E a \in Applicants, f \in Forms : nextApplicationNo(r, a, f)
         \/ Submit(r)
         \/ SaveFiles(r)
         \/ \E a \in DOMAIN apps :
              \/ ReadForReview(r, a)
              \/ ReadForRejection(r, a)
              \/ \E no \in StaffNumbers \union suggestPolicyNo(apps[a].product) :
                   \E existing \in {None} \union {c.id : c \in clients}, isNew \in BOOLEAN :
                     ReadForConversion(r, a, no, existing, isNew)
         \/ markUnderReview(r)
         \/ reject(r)
         \/ Notify(r)
         \/ CreateClient(r)
         \/ CreatePolicy(r)
         \/ AddBeneficiary(r)
         \/ LinkApplicant(r)
         \/ OpenAccount(r)
         \/ convert(r)
         \/ WriteFails(r)
    \/ \E p \in policies : FirstPremium(p)
    \/ CutOff
ApplicationNext ==
    /\ ApplicationStep
    /\ quiet' = /\ quiet
                /\ Cardinality({r \in Requests : request'[r].step # "idle"}) <= 1
    /\ leftBehind' = leftBehind \union
          {request[r].policy : r \in {s \in Requests : request[s].policy # None
                                                    /\ request'[s].step = "idle"}}
-------------------------------------------------------------------------------
(* Properties.                                                              *)

SharesOf(client) == {b \in beneficiaries : b.client = client}
\* "Creates the client, creates the policy, adds the beneficiaries and opens
\* the client-app account": whatever overlaps with a conversion or cuts one
\* off, an applicant who reads of an approval has all of them.
ApprovalIsComplete ==
    \A a \in DOMAIN apps :
      publicStatus(apps[a]) \in {"Approved - awaiting first premium", "Active"} =>
        /\ \E p \in policies :
             p.id = apps[a].policyId /\ p.client = apps[a].clientId /\ p.app = a
        /\ \E c \in clients : c.id = apps[a].clientId
        /\ Cardinality(SharesOf(apps[a].clientId)) >= Len(apps[a].form.shares)
        /\ apps[a].clientId \in accounts
        /\ applicants[apps[a].applicant] # None

\* While calls come one after the other an application is turned into one policy
\* at most, whatever was refused or cut off on the way: when it is approved it names
\* the one policy made for it by a conversion that came to its end, and before there
\* is none.  Every other policy with its name was left behind by a conversion that
\* broke off, which nothing takes back.  (Two conversions at once both make a policy.)
OnePolicyEach ==
    quiet => \A a \in DOMAIN apps :
               (\A r \in Requests : request[r].app # a \/ request[r].step = "notify") =>
                 {p.id : p \in {q \in policies : q.app = a}} \ leftBehind =
                     IF apps[a].status = "Approved" THEN {apps[a].policyId} ELSE {}
================================================================================
