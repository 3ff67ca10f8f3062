----------------------------- MODULE ClientNotices -----------------------------
(***************************************************************************)
(* AppPushService and its callers: a notification goes to the inbox of a   *)
(* client or an applicant first and then to every device that subscribed.  *)
(* It is caused by an event of the office (payment, claim, loan), by a     *)
(* client's own claim, loan or request, or by a message to many clients.   *)
(* A notification is a pair of a subject and the number of its message.    *)
(* The keys of web push are set; without them no devices are looked up.    *)
(***************************************************************************)
EXTENDS Naturals, Sequences, FiniteSets, SequencesExt

CONSTANTS
    Senders,            \* calls of notify and notifyMany at the same time
    Members, Seekers,   \* subjects: clients, applicants
    Devices,            \* endpoints
    ApplicantOf,        \* the applicant a client once was, for some clients
    MaxMessages,        \* bound: messages
    MaxRequests,        \* bound: requests of clients
    MaxFailures         \* bound: failed writes, reads and pushes, and restarts

\* Finitely many clients, and some of them were applicants.
ASSUME NoticeAssumption ==
    /\ IsFiniteSet(Members)
    /\ ApplicantOf \in [DOMAIN ApplicantOf -> Seekers]
    /\ MaxMessages \in Nat

VARIABLES
    inbox,         \* table app_notifications
    unread,        \* app_notifications.readAt is null
    subscriptions, \* table app_push_subscriptions: the subject of each endpoint
    activated,     \* clients with an app account
    requests,      \* table app_requests
    sender,        \* what each call is doing
    pushed,        \* history: notifications and the devices they reached
    settled,       \* history: notifications whose call returned or threw
    unsaved,       \* history: notifications that could not be written
    broken,        \* history: notifications whose devices could not be looked up
    messages, failures

noticeVars == <<inbox, unread, subscriptions, activated, requests, sender, pushed,
                settled, unsaved, broken, messages, failures>>

NoOne == 0
Subjects == Members \union Seekers
AppNotification == Subjects \X (1 .. MaxMessages)
AppPushSubscription == [Devices -> Subjects \union {NoOne}]
AppRequest == [client: Members, status: {"Open", "Handled"}]

AtRest == [step |-> "idle", todo |-> << >>, all |-> {}, devices |-> {}]
SenderAt(s, step) == sender[s].step = step
Goes(s, to) == sender' = [sender EXCEPT ![s] = to]
\* A message to each of some subjects, one after the other.
Sends(s, subjects) ==
    /\ SenderAt(s, "idle")
    /\ messages < MaxMessages
    /\ messages' = messages + 1
    /\ Goes(s, [AtRest EXCEPT !.step = "save",
                  !.todo = [i \in DOMAIN subjects |-> <<subjects[i], messages + 1>>],
                  !.all = {<<subjects[i], messages + 1>> : i \in DOMAIN subjects}])

NoticeInit ==
    /\ inbox = {}
    /\ unread = {}
    /\ subscriptions = [d \in Devices |-> NoOne]
    /\ activated \in SUBSET Members
    /\ requests = << >>
    /\ sender = [s \in Senders |-> AtRest]
    /\ pushed = {}
    /\ settled = {}
    /\ unsaved = {}
    /\ broken = {}
    /\ messages = 0
    /\ failures = 0
-------------------------------------------------------------------------------
(* Devices and inboxes.                                                     *)

\* A device follows whoever subscribed last.
subscribe(d, x) ==
    /\ subscriptions[d] # x
    /\ subscriptions' = [subscriptions EXCEPT ![d] = x]
    /\ UNCHANGED <<inbox, unread, activated, requests, sender, pushed, settled, unsaved, broken,
                   messages, failures>>
unsubscribe(d) ==
    /\ subscriptions[d] # NoOne
    /\ subscriptions' = [subscriptions EXCEPT ![d] = NoOne]
    /\ UNCHANGED <<inbox, unread, activated, requests, sender, pushed, settled, unsaved, broken,
                   messages, failures>>
markAllRead(x) ==
    /\ unread' = {n \in unread : n[1] # x}
    /\ unread' # unread
    /\ UNCHANGED <<inbox, subscriptions, activated, requests, sender, pushed, settled,
                   unsaved, broken, messages, failures>>
-------------------------------------------------------------------------------
(* What causes a notification.                                              *)

\* onPayment: each payment is announced to a client with an account, and to the
\* applicant the client was ("your policy is active", not only the first time).
onPayment(s, c) ==
    /\ c \in activated
    /\ Sends(s, IF c \in DOMAIN ApplicantOf THEN <<c, ApplicantOf[c]>> ELSE <<c>>)
    /\ UNCHANGED <<inbox, unread, subscriptions, activated, requests, pushed, settled,
                   unsaved, broken, failures>>
\* onClaim, onLoan, and what the client asked for: createClaim, requestLoan.
onStatus(s, c) ==
    /\ Sends(s, <<c>>)
    /\ UNCHANGED <<inbox, unread, subscriptions, activated, requests, pushed, settled,
                   unsaved, broken, failures>>
createRequest(c) ==
    /\ Len(requests) < MaxRequests
    /\ requests' = Append(requests, [client |-> c, status |-> "Open"])
    /\ UNCHANGED <<inbox, unread, subscriptions, activated, sender, pushed, settled,
                   unsaved, broken, messages, failures>>
handleRequest(s, i) ==
    /\ Sends(s, <<requests[i].client>>)
    /\ requests' = [requests EXCEPT ![i].status = "Handled"]
    /\ UNCHANGED <<inbox, unread, subscriptions, activated, pushed, settled, unsaved,
                   broken, failures>>
\* Of a segment, or of the clients that were selected, those with an account, in
\* the order the database returns them.
sendBulk(s, clients) ==
    /\ clients \intersect activated # {}
    /\ \E order \in SetToSeqs(clients \intersect activated) : Sends(s, order)
    /\ UNCHANGED <<inbox, unread, subscriptions, activated, requests, pushed, settled,
                   unsaved, broken, failures>>
\* An account is opened (ClientAppAuth, ApplicationConversion).
Activate(c) ==
    /\ activated' = activated \union {c}
    /\ activated' # activated
    /\ UNCHANGED <<inbox, unread, subscriptions, requests, sender, pushed, settled, unsaved, broken,
                   messages, failures>>
-------------------------------------------------------------------------------
(* notify: the inbox, then the devices, then the next subject.              *)

Fails == failures < MaxFailures /\ failures' = failures + 1
Current(s) == Head(sender[s].todo)
\* A failed write is caught and logged.
Save(s) ==
    /\ SenderAt(s, "save")
    /\ \/ /\ inbox' = inbox \union {Current(s)}
          /\ unread' = unread \union {Current(s)}
          /\ UNCHANGED <<unsaved, failures>>
       \/ /\ Fails
          /\ unsaved' = unsaved \union {Current(s)}
          /\ UNCHANGED <<inbox, unread>>
    /\ Goes(s, [sender[s] EXCEPT !.step = "read"])
    /\ UNCHANGED <<subscriptions, activated, requests, pushed, settled, broken, messages>>

ReadDevices(s) ==
    /\ SenderAt(s, "read")
    /\ Goes(s, [sender[s] EXCEPT !.step = "push",
                  !.devices = {d \in Devices : subscriptions[d] = Current(s)[1]}])
    /\ UNCHANGED <<inbox, unread, subscriptions, activated, requests, pushed, settled,
                   unsaved, broken, messages, failures>>
\* Nothing catches this read: notify throws, and the rest of the list with it.
ReadThrows(s) ==
    /\ SenderAt(s, "read")
    /\ Fails
    /\ broken' = broken \union {Current(s)}
    /\ settled' = settled \union sender[s].all
    /\ Goes(s, AtRest)
    /\ UNCHANGED <<inbox, unread, subscriptions, activated, requests, pushed, unsaved, messages>>

Pushed(s, d) == Goes(s, [sender[s] EXCEPT !.devices = @ \ {d}])
PushArrives(s, d) ==
    /\ SenderAt(s, "push") /\ d \in sender[s].devices
    /\ pushed' = pushed \union {<<Current(s), d>>}
    /\ Pushed(s, d)
    /\ UNCHANGED <<inbox, unread, subscriptions, activated, requests, settled, unsaved, broken,
                   messages, failures>>
\* Fault: a push that fails ends the call.
PushThrows(s, d) ==
    /\ SenderAt(s, "push") /\ d \in sender[s].devices
    /\ Fails
    /\ settled' = settled \union sender[s].all
    /\ Goes(s, AtRest)
    /\ UNCHANGED <<inbox, unread, subscriptions, activated, requests, pushed, unsaved, broken,
                   messages>>
\* 404 and 410 say that the endpoint is gone: its row goes too, whoever's it
\* is by now.  Any other error is logged.
PushFails(s, d) ==
    /\ SenderAt(s, "push") /\ d \in sender[s].devices
    /\ Fails
    /\ \/ subscriptions' = [subscriptions EXCEPT ![d] = NoOne]
       \/ UNCHANGED subscriptions
    /\ Pushed(s, d)
    /\ UNCHANGED <<inbox, unread, activated, requests, pushed, settled, unsaved, broken, messages>>

NextSubject(s) ==
    /\ SenderAt(s, "push") /\ sender[s].devices = {}
    /\ IF Tail(sender[s].todo) # << >>
       THEN Goes(s, [sender[s] EXCEPT !.step = "save", !.todo = Tail(@)]) /\ UNCHANGED settled
       ELSE Goes(s, AtRest) /\ settled' = settled \union sender[s].all
    /\ UNCHANGED <<inbox, unread, subscriptions, activated, requests, pushed, unsaved, broken,
                   messages, failures>>

ServerStops ==
    /\ Fails
    /\ sender' = [s \in Senders |-> AtRest]
    /\ sender' # sender
    /\ UNCHANGED <<inbox, unread, subscriptions, activated, requests, pushed, settled,
                   unsaved, broken, messages>>

NoticeNext ==
    \/ \E d \in Devices : unsubscribe(d) \/ \E x \in Subjects : subscribe(d, x)
    \/ \E x \in Subjects : markAllRead(x)
    \/ \E c \in Members : createRequest(c) \/ Activate(c)
    \/ \E s \in Senders :
         \/ \E c \in Members : onPayment(s, c) \/ onStatus(s, c)
         \/ \E i \in DOMAIN requests : handleRequest(s, i)
         \/ \E clients \in SUBSET Members : sendBulk(s, clients)
         \/ Save(s) \/ ReadDevices(s) \/ ReadThrows(s)
         \/ \E d \in Devices : PushArrives(s, d) \/ PushFails(s, d)
         \/ NextSubject(s)
    \/ ServerStops
-------------------------------------------------------------------------------
(* Properties.                                                              *)

\* "Every notification is written to the in-app inbox first ... a failed or
\* missing push never means a lost message": whatever devices do, no device shows
\* a message that the inbox of its subject lacks, and everyone a finished call was
\* for has the message in the inbox - unless writing it failed, or looking up the
\* devices of another on the list did, which ends the call.  So what goes to one
\* client only, and the first of each list, is never lost to a device.
EveryoneTold ==
    LET told == inbox \union unsaved
    IN  /\ broken \union {p[1] : p \in pushed} \subseteq told
        /\ \A n \in settled \ told : \E b \in broken \ {n} : b[2] = n[2]
================================================================================
