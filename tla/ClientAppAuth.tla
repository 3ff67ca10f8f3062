----------------------------- MODULE ClientAppAuth -----------------------------
(***************************************************************************)
(* AppAuthService: how a client (policy number and PIN) or an applicant    *)
(* (telephone and PIN) gets an account of the app, logs in, and changes or *)
(* resets the PIN; setup codes with their limits; sessions that carry the  *)
(* version of the account.  Clients and applicants are holders; a PIN      *)
(* stands for its hash, and a code for its row.                            *)
(***************************************************************************)
EXTENDS Naturals, Sequences, FiniteSets, SequencesExt

CONSTANTS
    Calls,                \* requests the server works on at the same time
    Clients, Prospects,   \* holders of an account: clients, applicants
    Pins, NoPin,
    MaxFailedAttempts, MaxCodeAttempts, \* 5 in the code
    MaxCodesPerHour, MaxDirectFails,    \* 3 and 5 in the code
    MaxVersion,           \* bound: changes of one PIN
    MaxCodes,             \* bound: rows of app_verification_codes
    MaxTimes              \* bound: how often time passes

ASSUME AuthAssumption == NoPin \notin Pins

VARIABLES
    account,  \* client_app_accounts and app_applicants, by holder
    codes,    \* table app_verification_codes
    paid,     \* clients with a payment that is not reversed
    sessions, \* tokens that were signed: holder, version, and the PIN then
    call,     \* what each request is doing
    times,
    oneByOne  \* history: one request after the other so far

authVars == <<account, codes, paid, sessions, call, times, oneByOne>>

Holders == Clients \union Prospects
NoAccount == [pin |-> NoPin, failedAttempts |-> 0, locked |-> FALSE, tokenVersion |-> 0,
              origin |-> "none"]
ClientAppAccount ==
    [pin: Pins \union {NoPin}, failedAttempts: 0 .. MaxFailedAttempts, locked: BOOLEAN,
     tokenVersion: Nat, origin: {"none", "existing", "application", "applicant"}]
AppVerificationCode ==
    [client: Clients, source: {"sms", "staff", "direct-fail"}, expired: BOOLEAN,
     recent: BOOLEAN, attempts: Nat, used: BOOLEAN]

Exists(h) == account[h].pin # NoPin
NewAccount(pin, origin) == [NoAccount EXCEPT !.pin = pin, !.origin = origin]
\* A session is good while its account has the version it was signed with.
sign(h, acc) == [holder |-> h, tv |-> acc.tokenVersion, pin |-> acc.pin]
verifyToken(t) == Exists(t.holder) /\ account[t.holder].tokenVersion = t.tv
AppAuthGuard(h, t) == t.holder = h /\ verifyToken(t)
-------------------------------------------------------------------------------
Away == [step |-> "idle", holder |-> 0, pin |-> 0, code |-> 0, read |-> NoAccount]
CallAt(c, step) == call[c].step = step
CallTo(c, to) == call' = [call EXCEPT ![c] = to]
Returns(c) == CallTo(c, Away)
\* The next step of a request for a holder, with the account as it was read.
Reads(c, step, h, pin) ==
    CallTo(c, [step |-> step, holder |-> h, pin |-> pin, code |-> 0, read |-> account[h]])
SetPin(acc, pin) ==
    [acc EXCEPT !.pin = pin, !.tokenVersion = @ + 1, !.failedAttempts = 0]

AuthInit ==
    \* an account of a client may be there already, from an application
    /\ account \in [Holders -> {NoAccount} \union {NewAccount(p, "application") : p \in Pins}]
    /\ \A h \in Prospects : ~Exists(h)
    /\ codes = << >>
    /\ paid = {}
    /\ sessions = {}
    /\ call = [c \in Calls |-> Away]
    /\ times = 0
    /\ oneByOne = TRUE
-------------------------------------------------------------------------------
(* Codes.                                                                   *)

Recent(h, source) ==
    Cardinality({i \in DOMAIN codes :
                   codes[i].client = h /\ codes[i].source = source /\ codes[i].recent})
NewCode(h, source) ==
    [client |-> h, source |-> source, expired |-> source = "direct-fail",
     recent |-> TRUE, attempts |-> 0, used |-> FALSE]

\* The telephone given is the one on file; nothing happens when it is not.
startActivation(c, h) ==
    /\ CallAt(c, "idle")
    /\ Recent(h, "sms") < MaxCodesPerHour
    /\ Reads(c, "save code", h, 0)
    /\ UNCHANGED <<account, codes, paid, sessions, times>>
SaveCode(c) ==
    /\ CallAt(c, "save code")
    /\ Len(codes) < MaxCodes
    /\ codes' = Append(codes, NewCode(call[c].holder, "sms"))
    /\ Returns(c)
    /\ UNCHANGED <<account, paid, sessions, times>>
issueStaffCode(c, h) ==
    /\ CallAt(c, "idle")
    /\ Len(codes) < MaxCodes
    /\ codes' = Append(codes, NewCode(h, "staff"))
    /\ UNCHANGED <<account, paid, sessions, call, times>>

\* Of the five newest codes that have not expired, those that still work.
Live(h) ==
    LET unexpired == SelectSeq([i \in DOMAIN codes |-> i],
                               LAMBDA i : codes[i].client = h /\ ~codes[i].expired)
        newest == SubSeq(unexpired, IF Len(unexpired) > 5 THEN Len(unexpired) - 4 ELSE 1,
                         Len(unexpired))
    IN  {i \in ToSet(newest) : ~codes[i].used /\ codes[i].attempts < MaxCodeAttempts}
\* A code that matches none of them counts against all of them.
WrongCode(c, h) ==
    /\ CallAt(c, "idle")
    /\ Live(h) # {}
    /\ codes' = [i \in DOMAIN codes |->
                   IF i \in Live(h) THEN [codes[i] EXCEPT !.attempts = @ + 1] ELSE codes[i]]
    /\ UNCHANGED <<account, paid, sessions, call, times>>
RightCode(c, h, i, pin) ==
    /\ CallAt(c, "idle")
    /\ i \in Live(h)
    /\ account[h].tokenVersion < MaxVersion
    /\ CallTo(c, [Away EXCEPT !.step = "use code", !.holder = h, !.pin = pin, !.code = i])
    /\ UNCHANGED <<account, codes, paid, sessions, times>>
UseCode(c) ==
    /\ CallAt(c, "use code")
    /\ codes' = [codes EXCEPT ![call[c].code].used = TRUE]
    /\ Reads(c, "set pin", call[c].holder, call[c].pin)
    /\ UNCHANGED <<account, paid, sessions, times>>
-------------------------------------------------------------------------------
(* Setting a PIN.                                                           *)

\* Fault: a reset keeps the version.
CompleteQuietly(c) ==
    LET h == call[c].holder
        acc == IF call[c].read.pin # NoPin
               THEN [call[c].read EXCEPT !.pin = call[c].pin, !.failedAttempts = 0, !.locked = FALSE]
               ELSE NewAccount(call[c].pin, "existing")
    IN  /\ CallAt(c, "set pin")
        /\ account' = [account EXCEPT ![h] = acc]
        /\ sessions' = sessions \union {sign(h, acc)}
        /\ Returns(c)
        /\ UNCHANGED <<codes, paid, times>>

\* An account that was there gets the PIN, the next version and no lock; one
\* that was not is inserted, which fails when there is one by now.
completeActivation(c) ==
    LET h == call[c].holder
        was == call[c].read
        acc == IF was.pin # NoPin
               THEN [SetPin(account[h], call[c].pin) EXCEPT
                       !.tokenVersion = was.tokenVersion + 1, !.locked = FALSE]
               ELSE NewAccount(call[c].pin, "existing")
        fails == was.pin = NoPin /\ Exists(h)
    IN  /\ CallAt(c, "set pin")
        /\ account' = IF fails THEN account ELSE [account EXCEPT ![h] = acc]
        /\ sessions' = IF fails THEN sessions ELSE sessions \union {sign(h, acc)}
        /\ Returns(c)
        /\ UNCHANGED <<codes, paid, times>>

\* Without a code, while there is no account: by the telephone on file.
activateDirect(c, h, phoneMatches, pin) ==
    /\ CallAt(c, "idle")
    /\ Recent(h, "direct-fail") < MaxDirectFails
    /\ \/ /\ ~phoneMatches
          /\ Len(codes) < MaxCodes
          /\ codes' = Append(codes, NewCode(h, "direct-fail"))
          /\ UNCHANGED call
       \/ /\ phoneMatches
          /\ ~Exists(h)
          /\ Reads(c, "first pin", h, pin)
          /\ UNCHANGED codes
    /\ UNCHANGED <<account, paid, sessions, times>>
registerApplicant(c, h, pin) ==
    /\ CallAt(c, "idle")
    /\ ~Exists(h)
    /\ Reads(c, "first pin", h, pin)
    /\ UNCHANGED <<account, codes, paid, sessions, times>>
\* One account per client and per telephone number.
SaveAccount(c) ==
    LET h == call[c].holder
        acc == NewAccount(call[c].pin, IF h \in Clients THEN "existing" ELSE "applicant")
    IN  /\ CallAt(c, "first pin")
        /\ IF Exists(h) THEN UNCHANGED <<account, sessions>>
           ELSE /\ account' = [account EXCEPT ![h] = acc]
                /\ sessions' = sessions \union {sign(h, acc)}
        /\ Returns(c)
        /\ UNCHANGED <<codes, paid, times>>

ReadForChange(c, h, t, old, pin) ==
    /\ CallAt(c, "idle")
    /\ AppAuthGuard(h, t)
    /\ account[h].pin = old
    /\ account[h].tokenVersion < MaxVersion
    /\ Reads(c, "change", h, pin)
    /\ UNCHANGED <<account, codes, paid, sessions, times>>
ReadForReset(c, h, pin) ==
    /\ CallAt(c, "idle")
    /\ Exists(h)
    /\ account[h].tokenVersion < MaxVersion
    /\ Reads(c, "reset", h, pin)
    /\ UNCHANGED <<account, codes, paid, sessions, times>>
\* The version is one more than the one that was read.
WritePin(c, step, unlocks, replies) ==
    LET h == call[c].holder
        acc == [SetPin(account[h], call[c].pin) EXCEPT
                  !.tokenVersion = call[c].read.tokenVersion + 1,
                  !.locked = @ /\ ~unlocks]
    IN  /\ CallAt(c, step)
        /\ account' = [account EXCEPT ![h] = acc]
        /\ sessions' = IF replies THEN sessions \union {sign(h, acc)} ELSE sessions
        /\ Returns(c)
        /\ UNCHANGED <<codes, paid, times>>
changePin(c) == WritePin(c, "change", FALSE, TRUE)
resetApplicantPin(c) == WritePin(c, "reset", TRUE, FALSE)
-------------------------------------------------------------------------------
(* Logging in.                                                              *)

\* login and applicantLogin.
ReadForLogin(c, h, pin) ==
    /\ CallAt(c, "idle")
    /\ Exists(h)
    /\ ~account[h].locked
    /\ Reads(c, "login", h, pin)
    /\ UNCHANGED <<account, codes, paid, sessions, times>>
\* The count is one more than the one that was read; the last attempt locks.
LoginFails(c) ==
    LET failed == call[c].read.failedAttempts + 1
    IN  /\ CallAt(c, "login")
        /\ call[c].pin # call[c].read.pin
        /\ account' = [account EXCEPT ![call[c].holder] =
               IF failed >= MaxFailedAttempts
               THEN [@ EXCEPT !.failedAttempts = 0, !.locked = TRUE]
               ELSE [@ EXCEPT !.failedAttempts = failed]]
        /\ Returns(c)
        /\ UNCHANGED <<codes, paid, sessions, times>>
\* The account of an application opens with the first premium.
AwaitsPayment(c) ==
    /\ CallAt(c, "login")
    /\ call[c].pin = call[c].read.pin
    /\ call[c].read.origin = "application" /\ call[c].holder \notin paid
    /\ Returns(c)
    /\ UNCHANGED <<account, codes, paid, sessions, times>>
login(c) ==
    /\ CallAt(c, "login")
    /\ call[c].pin = call[c].read.pin
    /\ call[c].read.origin = "application" => call[c].holder \in paid
    /\ account' = [account EXCEPT ![call[c].holder] =
                     [@ EXCEPT !.failedAttempts = 0, !.locked = FALSE]]
    /\ sessions' = sessions \union {sign(call[c].holder, call[c].read)}
    /\ Returns(c)
    /\ UNCHANGED <<codes, paid, times>>
-------------------------------------------------------------------------------
\* The first premium of a client.
PremiumReceived(h) ==
    /\ paid' = paid \union {h}
    /\ paid' # paid
    /\ UNCHANGED <<account, codes, sessions, call, times>>
\* After a quarter of an hour codes sent by SMS and locks are over, after an
\* hour the limits, after a week the codes of the staff.
Elapse(span) ==
    /\ times < MaxTimes
    /\ times' = times + 1
    /\ codes' = [i \in DOMAIN codes |->
         [codes[i] EXCEPT !.expired = @ \/ codes[i].source = "sms" \/ span = "week",
                          !.recent = @ /\ span = "quarter of an hour"]]
    /\ account' = [h \in Holders |-> [account[h] EXCEPT !.locked = FALSE]]
    /\ UNCHANGED <<paid, sessions, call>>

AuthStep ==
    \/ \E c \in Calls :
         \/ \E h \in Clients :
              \/ startActivation(c, h)
              \/ issueStaffCode(c, h)
              \/ WrongCode(c, h)
              \/ \E pin \in Pins :
                   \/ \E i \in DOMAIN codes : RightCode(c, h, i, pin)
                   \/ \E matches \in BOOLEAN : activateDirect(c, h, matches, pin)
                   \/ \E t \in sessions, old \in Pins : ReadForChange(c, h, t, old, pin)
         \/ \E h \in Prospects, pin \in Pins : registerApplicant(c, h, pin) \/ ReadForReset(c, h, pin)
         \/ \E h \in Holders, pin \in Pins : ReadForLogin(c, h, pin)
         \/ SaveCode(c)
         \/ UseCode(c)
         \/ completeActivation(c)
         \/ SaveAccount(c)
         \/ changePin(c)
         \/ resetApplicantPin(c)
         \/ LoginFails(c)
         \/ AwaitsPayment(c)
         \/ login(c)
    \/ \E h \in Clients : PremiumReceived(h)
    \/ \E span \in {"quarter of an hour", "hour", "week"} : Elapse(span)
AuthNext ==
    /\ AuthStep
    /\ oneByOne' = /\ oneByOne
                   /\ \A c, d \in Calls :
                         call'[c].step # "idle" /\ call'[d].step # "idle" => c = d
-------------------------------------------------------------------------------
(* Properties.                                                              *)

\* "Bumped on every PIN change/reset so every previously-issued session token
\* stops working": while requests come one after the other, a session that is
\* accepted was opened with the PIN the account has now, whichever of the five
\* ways set it.  (Of two changes at once both sign the same version.)
SessionsFollowPin ==
    oneByOne => \A t \in sessions : verifyToken(t) => t.pin = account[t.holder].pin
================================================================================
