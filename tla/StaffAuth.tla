------------------------------- MODULE StaffAuth -------------------------------
(***************************************************************************)
(* AuthService and UsersService: the login of staff with a password and,   *)
(* for those who enrolled, a code of an authenticator app; enrolment;      *)
(* and what an administrator changes in an account.  A secret is a number, *)
(* drawn anew by every enrolment; a code is good when the user's app holds *)
(* the secret it is checked against.  Every await that decides a later     *)
(* write is a step boundary.                                               *)
(***************************************************************************)
EXTENDS Naturals

CONSTANTS
    Users,            \* rows of table users
    Roles,
    Workers,          \* requests the server works on at the same time
    MaxSecrets, MaxActs, MaxOutages     \* bounds

VARIABLES
    users,      \* table users
    app,        \* what the user's authenticator app holds
    tokens,     \* token pairs given out: [user, role], as they were when signed
    pendingMfa, \* users who hold an mfaToken
    worker,     \* what each request is doing
    secrets, acts, outages,
    undisturbed \* history: one request after the other, none cut off, and nobody
                \* enrolled again while enrolled

staffVars == <<users, app, tokens, pendingMfa, worker, secrets, acts, outages, undisturbed>>

NoSecret == 0
UserStatus == {"Active", "Suspended", "Disabled"}
User == [password: Nat, mfaSecret: Nat, mfaEnabled: BOOLEAN, role: Roles, status: UserStatus]

Off == [step |-> "idle", user |-> CHOOSE u \in Users : TRUE,
        role |-> CHOOSE r \in Roles : TRUE]
Doing(w, step) == worker[w].step = step
Then(w, to) == worker' = [worker EXCEPT ![w] = to]
Act == acts < MaxActs /\ acts' = acts + 1

StaffInit ==
    /\ users = [u \in Users |-> [password |-> 1, mfaSecret |-> NoSecret, mfaEnabled |-> FALSE,
                                 role |-> CHOOSE r \in Roles : TRUE, status |-> "Active"]]
    /\ app = [u \in Users |-> NoSecret]
    /\ tokens = {}
    /\ pendingMfa = {}
    /\ worker = [w \in Workers |-> Off]
    /\ secrets = 0
    /\ acts = 0
    /\ outages = 0
    /\ undisturbed = TRUE
-------------------------------------------------------------------------------
(* Login.                                                                   *)

\* login with the right password: an active account gets a token pair or, with
\* the second factor enabled, a token for the second step.
Login(w, u) ==
    /\ Doing(w, "idle") /\ Act
    /\ users[u].status = "Active"
    /\ IF users[u].mfaEnabled
       THEN pendingMfa' = pendingMfa \union {u} /\ UNCHANGED worker
       ELSE UNCHANGED pendingMfa /\ Then(w, [Off EXCEPT !.step = "issue", !.user = u,
                                                        !.role = users[u].role])
    /\ UNCHANGED <<users, app, tokens, secrets, outages>>
\* verifyMfa: reads the user again; without a secret it refuses.
VerifyMfa(w, u) ==
    /\ Doing(w, "idle") /\ Act
    /\ u \in pendingMfa
    /\ users[u].mfaSecret # NoSecret /\ app[u] = users[u].mfaSecret
    /\ Then(w, [Off EXCEPT !.step = "issue", !.user = u, !.role = users[u].role])
    /\ UNCHANGED <<users, app, tokens, pendingMfa, secrets, outages>>
\* recordLogin and issueTokenPair: the role is the one that was read.
IssueTokenPair(w) ==
    /\ Doing(w, "issue")
    /\ tokens' = tokens \union {[user |-> worker[w].user, role |-> worker[w].role]}
    /\ pendingMfa' = pendingMfa \ {worker[w].user}
    /\ Then(w, Off)
    /\ UNCHANGED <<users, app, secrets, acts, outages>>
-------------------------------------------------------------------------------
(* Enrolment.                                                               *)

\* mfa/enroll: the new secret is stored at once and shown to the user.
StartMfaEnrollment(u, captures) ==
    /\ Act
    /\ secrets < MaxSecrets
    /\ secrets' = secrets + 1
    /\ users' = [users EXCEPT ![u].mfaSecret = secrets + 1]
    /\ app' = IF captures THEN [app EXCEPT ![u] = secrets + 1] ELSE app
    /\ UNCHANGED <<tokens, pendingMfa, worker, outages>>
\* mfa/confirm-enroll: checks a code, then enables.
CheckEnrollment(w, u) ==
    /\ Doing(w, "idle") /\ Act
    /\ users[u].mfaSecret # NoSecret /\ app[u] = users[u].mfaSecret
    /\ Then(w, [Off EXCEPT !.step = "enable", !.user = u])
    /\ UNCHANGED <<users, app, tokens, pendingMfa, secrets, outages>>
EnableMfa(w) ==
    /\ Doing(w, "enable")
    /\ users' = [users EXCEPT ![worker[w].user].mfaEnabled = TRUE]
    /\ Then(w, Off)
    /\ UNCHANGED <<app, tokens, pendingMfa, secrets, acts, outages>>
\* Fault: the second factor stays enabled.
ForgetSecret(u) ==
    /\ Act
    /\ users' = [users EXCEPT ![u].mfaSecret = NoSecret]
    /\ UNCHANGED <<app, tokens, pendingMfa, worker, secrets, outages>>
DisableMfa(u) ==
    /\ Act
    /\ users' = [users EXCEPT ![u].mfaEnabled = FALSE, ![u].mfaSecret = NoSecret]
    /\ UNCHANGED <<app, tokens, pendingMfa, worker, secrets, outages>>
-------------------------------------------------------------------------------
(* Administration of accounts: each an update of the columns it names.      *)

Change(u, user) ==
    /\ Act
    /\ users' = [users EXCEPT ![u] = user]
    /\ UNCHANGED <<app, tokens, pendingMfa, worker, secrets, outages>>
\* Nobody changes the status of their own account.
SetUserStatus(u, by, status) == by # u /\ Change(u, [users[u] EXCEPT !.status = status])
ResetPassword(u) == Change(u, [users[u] EXCEPT !.password = 3 - @])
UpdateFields(u, role) == Change(u, [users[u] EXCEPT !.role = role])

\* The process restarts while a request is being worked on.
Outage ==
    /\ outages < MaxOutages
    /\ \E w \in Workers : ~Doing(w, "idle")
    /\ outages' = outages + 1
    /\ worker' = [w \in Workers |-> Off]
    /\ UNCHANGED <<users, app, tokens, pendingMfa, secrets, acts>>

StaffStep ==
    \/ \E w \in Workers, u \in Users : Login(w, u) \/ VerifyMfa(w, u) \/ CheckEnrollment(w, u)
    \/ \E w \in Workers : IssueTokenPair(w) \/ EnableMfa(w)
    \/ \E u \in Users : DisableMfa(u) \/ ResetPassword(u)
    \/ \E u \in Users, captures \in BOOLEAN : StartMfaEnrollment(u, captures)
    \/ \E u, by \in Users, status \in UserStatus : SetUserStatus(u, by, status)
    \/ \E u \in Users, role \in Roles : UpdateFields(u, role)
    \/ Outage
StaffNext ==
    /\ StaffStep
    /\ undisturbed' =
         /\ undisturbed
         /\ outages' = 0
         /\ \A v, w \in Workers : worker'[v] # Off /\ worker'[w] # Off => v = w
         /\ worker' = worker => \A w \in Workers : Doing(w, "idle")
         /\ \A u \in Users : users[u].mfaEnabled =>
                users'[u].mfaSecret \in {users[u].mfaSecret, NoSecret}
-------------------------------------------------------------------------------
(* Property.                                                                *)

\* Whoever has the second factor enabled holds the secret it is checked
\* against, so the second step of the login stays open to them: while requests
\* come one after the other and nobody enrols twice.
EnrolledCanLogin ==
    undisturbed =>
        \A u \in Users : users[u].mfaEnabled => /\ users[u].mfaSecret # NoSecret
                                                /\ app[u] = users[u].mfaSecret
===============================================================================
