----------------------------- MODULE OfficeProofs -----------------------------
(***************************************************************************)
(* Proofs about the parts of the office that MCOffice checks: the notices  *)
(* of the client app, claims, the accounts of the staff and of the client  *)
(* app, linked tasks, bank accounts, payroll and administration.  Each     *)
(* holds for every value of the constants of its part, and for any number  *)
(* of calls at the same time unless it says otherwise.                     *)
(***************************************************************************)
EXTENDS Claims, ClientNotices, ClientAppAuth, LinkedTasks, BankBooks, StaffAuth,
    HrPayroll, Administration, Sums, SequenceTheorems, FiniteSetTheorems, TLAPS
-------------------------------------------------------------------------------
(* Notices of the client app.                                               *)

NoticeSpec == NoticeInit /\ [][NoticeNext]_noticeVars

SenderState ==
    [step: {"idle", "save", "read", "push"}, todo: Seq(AppNotification),
     all: SUBSET AppNotification, devices: SUBSET Devices]
NoticeTypeOK ==
    /\ inbox \subseteq AppNotification
    /\ unread \subseteq AppNotification
    /\ activated \subseteq Members
    /\ requests \in Seq(AppRequest)
    /\ sender \in [Senders -> SenderState]
    /\ pushed \subseteq AppNotification \X Devices
    /\ settled \subseteq AppNotification
    /\ unsaved \subseteq AppNotification
    /\ broken \subseteq AppNotification
    /\ messages \in 0 .. MaxMessages

\* Whoever a call is for has been told or is still on its list, with one message;
\* while it reads devices and pushes, the first of the list has been told.
Told == inbox \union unsaved
Listed(c) ==
    c.step # "idle" =>
      /\ c.todo # << >>
      /\ \A n \in c.all : n \in Told \/ \E i \in DOMAIN c.todo : c.todo[i] = n
      /\ c.step \in {"read", "push"} => Head(c.todo) \in Told
      /\ \A m \in c.all, i \in DOMAIN c.todo : c.todo[i][2] = m[2]
NoticeInv ==
    /\ NoticeTypeOK
    /\ \A s \in Senders : Listed(sender[s])
    /\ EveryoneTold
-------------------------------------------------------------------------------
\* An order of a finite set leaves nobody out: as many places as there are
\* subjects, each with another subject.
LEMMA OrderIsComplete ==
    ASSUME NEW S, IsFiniteSet(S), NEW order \in SetToSeqs(S)
    PROVE  /\ order \in Seq(S)
           /\ \A x \in S : \E i \in DOMAIN order : order[i] = x
  <1>1. PICK n \in Nat : n = Cardinality(S)
    BY FS_CardinalityType
  <1>2. /\ order \in [1 .. n -> S]
        /\ \A i, j \in 1 .. n : i # j => order[i] # order[j]
    BY <1>1 DEF SetToSeqs
  <1>3. order \in Injection(1 .. n, S)
    BY <1>2 DEF Injection, IsInjective
  <1>4. Cardinality(1 .. n) = Cardinality(S)
    BY <1>1, FS_Interval
  <1>5. order \in Surjection(1 .. n, S)
    BY <1>3, <1>4, FS_Injection
  <1>6. QED
    BY <1>2, <1>5 DEF Surjection
\* A message that is sent is on the list for each of its subjects.
LEMMA SendsStep ==
    ASSUME NoticeInv, MaxMessages \in Nat, NEW s \in Senders, NEW order \in Seq(Subjects),
           order # << >>, Sends(s, order), UNCHANGED <<inbox, unsaved>>
    PROVE  /\ sender' \in [Senders -> SenderState]
           /\ messages' \in 0 .. MaxMessages
           /\ \A t \in Senders : Listed(sender[t])'
  <1>1. PICK n : n = messages + 1
    OBVIOUS
  <1>2. n \in 1 .. MaxMessages /\ messages' = n
    BY <1>1 DEF Sends, NoticeInv, NoticeTypeOK
  <1>3. PICK todo : todo = [i \in DOMAIN order |-> <<order[i], n>>]
    OBVIOUS
  <1>4. /\ todo \in Seq(AppNotification) /\ DOMAIN todo = DOMAIN order
        /\ \A i \in DOMAIN todo : todo[i][2] = n
    <2>1. \A i \in DOMAIN order : <<order[i], n>> \in AppNotification
      BY <1>2 DEF AppNotification
    <2>2. Len(order) \in Nat /\ DOMAIN order = 1 .. Len(order)
      OBVIOUS
    <2>3. todo \in [1 .. Len(order) -> AppNotification]
      BY <1>3, <2>1, <2>2
    <2>4. QED
      BY <1>3, <2>2, <2>3
  <1>5. todo # << >>
    BY <1>4
  <1>6. PICK all : all = {<<order[i], n>> : i \in DOMAIN order}
    OBVIOUS
  <1>7. /\ all \subseteq AppNotification
        /\ \A m \in all : m[2] = n /\ \E i \in DOMAIN todo : todo[i] = m
    BY <1>2, <1>3, <1>6 DEF AppNotification
  <1>8. PICK c : c = [AtRest EXCEPT !.step = "save", !.todo = todo, !.all = all]
    OBVIOUS
  <1>9. /\ c \in SenderState
        /\ c.step = "save" /\ c.todo = todo /\ c.all = all
    BY <1>4, <1>7, <1>8 DEF AtRest, SenderState
  <1>10. sender \in [Senders -> SenderState] /\ sender' = [sender EXCEPT ![s] = c]
    BY <1>1, <1>3, <1>6, <1>8 DEF Sends, Goes, NoticeInv, NoticeTypeOK
  <1>11. Listed(c)'
    BY <1>4, <1>5, <1>7, <1>9 DEF Listed
  <1>12. ASSUME NEW t \in Senders \ {s}
         PROVE  Listed(sender[t])'
    BY <1>10, <1>12 DEF Listed, Told, NoticeInv
  <1>13. QED
    BY <1>2, <1>9, <1>10, <1>11, <1>12

\* A call of which it is known what becomes of it, while nobody loses a message.
LEMMA OneSender ==
    ASSUME NoticeInv, Told \subseteq Told', NEW s \in Senders, NEW c \in SenderState,
           Goes(s, c), Listed(c)'
    PROVE  /\ sender' \in [Senders -> SenderState]
           /\ \A t \in Senders : Listed(sender[t])'
  <1>1. sender \in [Senders -> SenderState] /\ sender' = [sender EXCEPT ![s] = c]
    BY DEF Goes, NoticeInv, NoticeTypeOK
  <1>2. ASSUME NEW t \in Senders \ {s}, NEW d, d = sender[t]
        PROVE  Listed(d)' /\ sender'[t] = d
    <2>1. Listed(d)
      BY <1>2 DEF NoticeInv
    <2>2. QED
      BY <1>1, <1>2, <2>1 DEF Listed
  <1>3. QED
    BY <1>1, <1>2

\* An event, a request handled or a message to many: who is told is finite.
LEMMA CausesStep ==
    ASSUME NoticeInv, NEW s \in Senders,
           \/ \E c \in Members : onPayment(s, c) \/ onStatus(s, c)
           \/ \E i \in DOMAIN requests : handleRequest(s, i)
           \/ \E clients \in SUBSET Members : sendBulk(s, clients)
    PROVE  NoticeInv'
  <1>1. \E order \in Seq(Subjects) : order # << >> /\ Sends(s, order)
    <2>1. ASSUME NEW c \in Members, onPayment(s, c)
          PROVE  \E order \in Seq(Subjects) : order # << >> /\ Sends(s, order)
      <3>1. CASE c \in DOMAIN ApplicantOf
        <4>1. <<c, ApplicantOf[c]>> \in Seq(Subjects) /\ <<c, ApplicantOf[c]>> # << >>
          BY <3>1, NoticeAssumption DEF Subjects
        <4>2. Sends(s, <<c, ApplicantOf[c]>>)
          BY <2>1, <3>1 DEF onPayment
        <4>3. QED
          BY <4>1, <4>2
      <3>2. CASE c \notin DOMAIN ApplicantOf
        <4>1. <<c>> \in Seq(Subjects) /\ <<c>> # << >>
          BY DEF Subjects
        <4>2. Sends(s, <<c>>)
          BY <2>1, <3>2 DEF onPayment
        <4>3. QED
          BY <4>1, <4>2
      <3>3. QED
        BY <3>1, <3>2
    <2>2. ASSUME NEW c \in Members, Sends(s, <<c>>)
          PROVE  \E order \in Seq(Subjects) : order # << >> /\ Sends(s, order)
      <3>1. <<c>> \in Seq(Subjects) /\ <<c>> # << >>
        BY DEF Subjects
      <3>2. QED
        BY <2>2, <3>1
    <2>3. ASSUME NEW i \in DOMAIN requests, handleRequest(s, i)
          PROVE  requests[i].client \in Members /\ Sends(s, <<requests[i].client>>)
      <3>1. requests \in Seq(AppRequest)
        BY DEF NoticeInv, NoticeTypeOK
      <3>2. requests[i] \in AppRequest
        BY <3>1
      <3>3. QED
        BY <2>3, <3>2 DEF handleRequest, AppRequest
    <2>4. ASSUME NEW clients \in SUBSET Members, sendBulk(s, clients)
          PROVE  \E order \in Seq(Subjects) : order # << >> /\ Sends(s, order)
      <3>1. IsFiniteSet(clients \intersect activated) /\ clients \intersect activated # {}
        BY <2>4, FS_Subset, NoticeAssumption DEF sendBulk
      <3>2. PICK order \in SetToSeqs(clients \intersect activated) : Sends(s, order)
        BY <2>4 DEF sendBulk
      <3>3. /\ order \in Seq(clients \intersect activated)
            /\ \E x : \E i \in DOMAIN order : order[i] = x
        BY <3>1, OrderIsComplete
      <3>4. order \in Seq(Subjects) /\ order # << >>
        BY <3>3 DEF Subjects
      <3>5. QED
        BY <3>2, <3>4
    <2>5. QED
      BY <2>1, <2>2, <2>3, <2>4 DEF onStatus
  <1>2. UNCHANGED <<inbox, unread, activated, pushed, settled, unsaved, broken>>
    BY DEF onPayment, onStatus, handleRequest, sendBulk
  <1>3. requests' \in Seq(AppRequest)
    <2>1. requests \in Seq(AppRequest)
      BY DEF NoticeInv, NoticeTypeOK
    <2>2. ASSUME NEW i \in DOMAIN requests,
                 requests' = [requests EXCEPT ![i].status = "Handled"]
          PROVE  requests' \in Seq(AppRequest)
      <3>1. PICK r : r = [requests[i] EXCEPT !.status = "Handled"]
        OBVIOUS
      <3>2. requests[i] \in AppRequest
        BY <2>1
      <3>3. r \in AppRequest
        BY <3>1, <3>2 DEF AppRequest
      <3>4. requests' = [requests EXCEPT ![i] = r]
        BY <2>2, <3>1
      <3>5. QED
        BY <2>1, <3>3, <3>4
    <2>3. QED
      BY <2>1, <2>2 DEF onPayment, onStatus, handleRequest, sendBulk
  <1>4. /\ sender' \in [Senders -> SenderState]
        /\ messages' \in 0 .. MaxMessages
        /\ \A t \in Senders : Listed(sender[t])'
    BY <1>1, <1>2, SendsStep, NoticeAssumption
  <1>5. NoticeTypeOK'
    BY <1>2, <1>3, <1>4 DEF NoticeTypeOK, NoticeInv
  <1>6. EveryoneTold'
    BY <1>2 DEF EveryoneTold, NoticeInv
  <1>7. QED
    BY <1>4, <1>5, <1>6 DEF NoticeInv
\* The inbox is written first, or that it could not be is on record.
LEMMA SaveStep ==
    ASSUME NoticeInv, NEW s \in Senders, Save(s)
    PROVE  NoticeInv'
  <1>1. PICK old : old = sender[s]
    OBVIOUS
  <1>2. old \in SenderState /\ Listed(old) /\ old.step = "save" /\ old.todo # << >>
    BY <1>1 DEF NoticeInv, NoticeTypeOK, Save, SenderAt, Listed
  <1>3. PICK n : n = Head(old.todo)
    OBVIOUS
  <1>4. n \in AppNotification
    BY <1>2, <1>3 DEF SenderState
  <1>5. /\ inbox \subseteq inbox' /\ unsaved \subseteq unsaved'
        /\ n \in Told' /\ Told \subseteq Told'
        /\ inbox' \subseteq AppNotification /\ unread' \subseteq AppNotification
        /\ unsaved' \subseteq AppNotification
    BY <1>1, <1>3, <1>4 DEF Save, Current, Told, NoticeInv, NoticeTypeOK
  <1>6. Goes(s, [old EXCEPT !.step = "read"])
    BY <1>1 DEF Save
  <1>7. PICK c : c = [old EXCEPT !.step = "read"]
    OBVIOUS
  <1>8. /\ c \in SenderState /\ c.step = "read" /\ c.todo = old.todo /\ c.all = old.all
    BY <1>2, <1>7 DEF SenderState
  <1>9. Listed(c)'
    BY <1>2, <1>3, <1>5, <1>8 DEF Listed
  <1>10. /\ sender' \in [Senders -> SenderState]
         /\ \A t \in Senders : Listed(sender[t])'
    BY <1>5, <1>6, <1>7, <1>8, <1>9, OneSender
  <1>11. UNCHANGED <<activated, requests, pushed, settled, broken, messages>>
    BY DEF Save
  <1>12. NoticeTypeOK'
    BY <1>5, <1>10, <1>11 DEF NoticeInv, NoticeTypeOK
  <1>13. EveryoneTold'
    BY <1>5, <1>11 DEF NoticeInv, EveryoneTold, Told
  <1>14. QED
    BY <1>10, <1>12, <1>13 DEF NoticeInv

\* The devices are those of a subject who has been told.
LEMMA ReadDevicesStep ==
    ASSUME NoticeInv, NEW s \in Senders, ReadDevices(s)
    PROVE  NoticeInv'
  <1>1. PICK old : old = sender[s]
    OBVIOUS
  <1>2. old \in SenderState /\ Listed(old) /\ old.step = "read"
    BY <1>1 DEF NoticeInv, NoticeTypeOK, ReadDevices, SenderAt
  <1>3. PICK D \in SUBSET Devices : Goes(s, [old EXCEPT !.step = "push", !.devices = D])
    BY <1>1 DEF ReadDevices
  <1>4. PICK c : c = [old EXCEPT !.step = "push", !.devices = D]
    OBVIOUS
  <1>5. c \in SenderState /\ c.step = "push" /\ c.todo = old.todo /\ c.all = old.all
    BY <1>2, <1>4 DEF SenderState
  <1>6. UNCHANGED <<inbox, unread, activated, requests, pushed, settled, unsaved, broken, messages>>
    BY DEF ReadDevices
  <1>7. Listed(c)' /\ Told' = Told
    BY <1>2, <1>5, <1>6 DEF Listed, Told
  <1>8. /\ sender' \in [Senders -> SenderState]
        /\ \A t \in Senders : Listed(sender[t])'
    BY <1>3, <1>4, <1>5, <1>7, OneSender
  <1>9. NoticeTypeOK' /\ EveryoneTold'
    BY <1>6, <1>8 DEF NoticeInv, NoticeTypeOK, EveryoneTold
  <1>10. QED
    BY <1>8, <1>9 DEF NoticeInv

\* When the read fails, its own subject has been told: whoever has not is another,
\* of the same message.
LEMMA ReadThrowsStep ==
    ASSUME NoticeInv, NEW s \in Senders, ReadThrows(s)
    PROVE  NoticeInv'
  <1>1. PICK old : old = sender[s]
    OBVIOUS
  <1>2. /\ old \in SenderState /\ Listed(old) /\ old.step = "read"
        /\ old.todo # << >> /\ old.todo \in Seq(AppNotification)
    BY <1>1 DEF NoticeInv, NoticeTypeOK, ReadThrows, SenderAt, Listed, SenderState
  <1>3. PICK b : b = Head(old.todo)
    OBVIOUS
  <1>4. b \in AppNotification /\ b \in Told /\ \A n \in old.all : n[2] = b[2]
    <2>1. 1 \in DOMAIN old.todo /\ b = old.todo[1]
      BY <1>2, <1>3
    <2>2. QED
      BY <1>2, <1>3, <2>1 DEF Listed
  <1>5. /\ broken' = broken \union {b}
        /\ settled' = settled \union old.all
        /\ Goes(s, AtRest)
        /\ UNCHANGED <<inbox, unread, activated, requests, pushed, unsaved, messages>>
    BY <1>1, <1>3 DEF ReadThrows, Current
  <1>6. AtRest \in SenderState /\ Listed(AtRest)' /\ Told' = Told
    BY <1>5 DEF AtRest, SenderState, Listed, Told
  <1>7. /\ sender' \in [Senders -> SenderState]
        /\ \A t \in Senders : Listed(sender[t])'
    BY <1>5, <1>6, OneSender
  <1>8. NoticeTypeOK'
    BY <1>2, <1>4, <1>5, <1>7 DEF NoticeInv, NoticeTypeOK, SenderState
  <1>9. EveryoneTold'
    <2>1. broken' \union {p[1] : p \in pushed'} \subseteq Told
      BY <1>4, <1>5 DEF NoticeInv, EveryoneTold, Told
    <2>2. ASSUME NEW n \in settled' \ Told
          PROVE  \E a \in broken' \ {n} : a[2] = n[2]
      <3>1. CASE n \in old.all
        BY <1>4, <1>5, <2>2, <3>1
      <3>2. CASE n \in settled
        BY <1>5, <2>2, <3>2 DEF NoticeInv, EveryoneTold, Told
      <3>3. QED
        BY <1>5, <3>1, <3>2
    <2>3. QED
      BY <1>6, <2>1, <2>2 DEF EveryoneTold, Told
  <1>10. QED
    BY <1>7, <1>8, <1>9 DEF NoticeInv

\* A device shows what has been written; a push that fails is one device less.
LEMMA PushStep ==
    ASSUME NoticeInv, NEW s \in Senders, NEW d \in Devices, PushArrives(s, d) \/ PushFails(s, d)
    PROVE  NoticeInv'
  <1>1. PICK old : old = sender[s]
    OBVIOUS
  <1>2. old \in SenderState /\ Listed(old) /\ old.step = "push" /\ old.todo # << >>
    BY <1>1 DEF NoticeInv, NoticeTypeOK, PushArrives, PushFails, SenderAt, Listed
  <1>3. Head(old.todo) \in Told /\ Head(old.todo) \in AppNotification
    BY <1>2 DEF Listed, SenderState
  <1>4. UNCHANGED <<inbox, unread, activated, requests, settled, unsaved, broken, messages>>
    BY DEF PushArrives, PushFails
  <1>5. PICK c : c = [old EXCEPT !.devices = @ \ {d}]
    OBVIOUS
  <1>6. c \in SenderState /\ c.step = "push" /\ c.todo = old.todo /\ c.all = old.all
    BY <1>2, <1>5 DEF SenderState
  <1>7. Goes(s, c)
    BY <1>1, <1>5 DEF PushArrives, PushFails, Pushed
  <1>8. Listed(c)' /\ Told' = Told
    BY <1>2, <1>4, <1>6 DEF Listed, Told
  <1>9. /\ sender' \in [Senders -> SenderState]
        /\ \A t \in Senders : Listed(sender[t])'
    BY <1>6, <1>7, <1>8, OneSender
  <1>10. pushed' \subseteq pushed \union {<<Head(old.todo), d>>}
    BY <1>1 DEF PushArrives, PushFails, Current
  <1>11. pushed' \subseteq AppNotification \X Devices
    BY <1>3, <1>10 DEF NoticeInv, NoticeTypeOK
  <1>12. NoticeTypeOK'
    BY <1>4, <1>9, <1>11 DEF NoticeInv, NoticeTypeOK
  <1>13. EveryoneTold'
    BY <1>3, <1>4, <1>10 DEF NoticeInv, EveryoneTold, Told
  <1>14. QED
    BY <1>9, <1>12, <1>13 DEF NoticeInv

\* The next of the list; at its end everyone the call was for has been told.
LEMMA NextSubjectStep ==
    ASSUME NoticeInv, NEW s \in Senders, NextSubject(s)
    PROVE  NoticeInv'
  <1>1. PICK old : old = sender[s]
    OBVIOUS
  <1>2. /\ old \in SenderState /\ Listed(old) /\ old.step = "push"
        /\ old.todo # << >> /\ old.todo \in Seq(AppNotification)
        /\ Head(old.todo) \in Told
    BY <1>1 DEF NoticeInv, NoticeTypeOK, NextSubject, SenderAt, Listed, SenderState
  <1>3. UNCHANGED <<inbox, unread, activated, requests, pushed, unsaved, broken, messages>>
    BY DEF NextSubject
  <1>4. ASSUME NEW n \in old.all, n \notin Told
        PROVE  \E i \in DOMAIN Tail(old.todo) : Tail(old.todo)[i] = n
    <2>1. PICK i \in DOMAIN old.todo : old.todo[i] = n
      BY <1>2, <1>4 DEF Listed
    <2>2. i # 1
      BY <1>2, <1>4, <2>1
    <2>3. i - 1 \in DOMAIN Tail(old.todo) /\ Tail(old.todo)[i - 1] = n
      BY <1>2, <2>1, <2>2
    <2>4. QED
      BY <2>3
  <1>5. CASE Tail(old.todo) # << >>
    <2>1. PICK c : c = [old EXCEPT !.step = "save", !.todo = Tail(@)]
      OBVIOUS
    <2>2. Tail(old.todo) \in Seq(AppNotification)
      BY <1>2
    <2>3. c \in SenderState /\ c.step = "save" /\ c.todo = Tail(old.todo) /\ c.all = old.all
      BY <1>2, <2>1, <2>2 DEF SenderState
    <2>4. Goes(s, c) /\ UNCHANGED settled
      BY <1>1, <1>5, <2>1 DEF NextSubject
    <2>5. Listed(c)' /\ Told' = Told
      <3>1. \A i \in DOMAIN Tail(old.todo) :
              i + 1 \in DOMAIN old.todo /\ Tail(old.todo)[i] = old.todo[i + 1]
        BY <1>2
      <3>2. \A m \in c.all, i \in DOMAIN c.todo : c.todo[i][2] = m[2]
        BY <1>2, <2>3, <3>1 DEF Listed
      <3>3. Told' = Told
        BY <1>3 DEF Told
      <3>4. QED
        BY <1>4, <1>5, <2>3, <3>2, <3>3 DEF Listed
    <2>6. /\ sender' \in [Senders -> SenderState]
          /\ \A t \in Senders : Listed(sender[t])'
      BY <2>3, <2>4, <2>5, OneSender
    <2>7. NoticeTypeOK' /\ EveryoneTold'
      BY <1>3, <2>4, <2>6 DEF NoticeInv, NoticeTypeOK, EveryoneTold
    <2>8. QED
      BY <2>6, <2>7 DEF NoticeInv
  <1>6. CASE Tail(old.todo) = << >>
    <2>1. AtRest \in SenderState
      BY DEF AtRest, SenderState
    <2>2. Goes(s, AtRest) /\ settled' = settled \union old.all
      BY <1>1, <1>6 DEF NextSubject
    <2>3. Listed(AtRest)' /\ Told' = Told
      BY <1>3 DEF Listed, AtRest, Told
    <2>4. /\ sender' \in [Senders -> SenderState]
          /\ \A t \in Senders : Listed(sender[t])'
      BY <2>1, <2>2, <2>3, OneSender
    <2>5. old.all \subseteq Told
      BY <1>4, <1>6
    <2>6. EveryoneTold'
      BY <1>3, <2>2, <2>5 DEF NoticeInv, EveryoneTold, Told
    <2>7. NoticeTypeOK'
      BY <1>2, <1>3, <2>2, <2>4 DEF NoticeInv, NoticeTypeOK, SenderState
    <2>8. QED
      BY <2>4, <2>6, <2>7 DEF NoticeInv
  <1>7. QED
    BY <1>5, <1>6

\* What devices, readers and clients do themselves loses nothing, nor does a restart.
LEMMA OtherNoticeSteps ==
    ASSUME NoticeInv,
           \/ \E d \in Devices : unsubscribe(d) \/ \E x \in Subjects : subscribe(d, x)
           \/ \E x \in Subjects : markAllRead(x)
           \/ \E c \in Members : createRequest(c) \/ Activate(c)
           \/ ServerStops
           \/ UNCHANGED noticeVars
    PROVE  NoticeInv'
  <1>1. UNCHANGED <<inbox, pushed, settled, unsaved, broken, messages>>
    BY DEF unsubscribe, subscribe, markAllRead, createRequest, Activate, ServerStops, noticeVars
  <1>2. UNCHANGED sender \/ sender' = [s \in Senders |-> AtRest]
    BY DEF unsubscribe, subscribe, markAllRead, createRequest, Activate, ServerStops, noticeVars
  <1>3. Listed(AtRest)' /\ AtRest \in SenderState
    BY DEF Listed, AtRest, SenderState
  <1>4. ASSUME NEW s \in Senders, NEW c, c = sender[s]
        PROVE  Listed(c)'
    BY <1>1, <1>4 DEF NoticeInv, Listed, Told
  <1>5. /\ sender' \in [Senders -> SenderState]
        /\ \A s \in Senders : Listed(sender[s])'
    BY <1>2, <1>3, <1>4 DEF NoticeInv, NoticeTypeOK
  <1>6. /\ unread' \subseteq AppNotification
        /\ activated' \subseteq Members
        /\ requests' \in Seq(AppRequest)
    <2>1. ASSUME NEW c \in Members, createRequest(c)
          PROVE  requests' \in Seq(AppRequest)
      <3>1. [client |-> c, status |-> "Open"] \in AppRequest
        BY DEF AppRequest
      <3>2. QED
        BY <2>1, <3>1 DEF createRequest, NoticeInv, NoticeTypeOK
    <2>2. QED
      BY <2>1 DEF NoticeInv, NoticeTypeOK, unsubscribe, subscribe, markAllRead, createRequest,
         Activate, ServerStops, noticeVars
  <1>7. NoticeTypeOK' /\ EveryoneTold'
    BY <1>1, <1>5, <1>6 DEF NoticeInv, NoticeTypeOK, EveryoneTold
  <1>8. QED
    BY <1>5, <1>7 DEF NoticeInv
-------------------------------------------------------------------------------
\* Every message reaches the inbox of everyone it is for: whatever calls overlap,
\* whatever devices do and wherever the server stops, a call that has come to its
\* end has told everyone, and no device shows what the inbox of its subject lacks,
\* unless writing it failed, or looking up the devices of another on the list.
THEOREM EveryoneIsTold == NoticeSpec => []EveryoneTold
  <1>1. NoticeInit => NoticeInv
    <2>1. AtRest \in SenderState /\ Listed(AtRest)
      BY DEF AtRest, SenderState, Listed
    <2>2. NoticeInit => NoticeTypeOK
      BY <2>1, NoticeAssumption DEF NoticeInit, NoticeTypeOK
    <2>3. NoticeInit => EveryoneTold /\ \A s \in Senders : Listed(sender[s])
      BY <2>1 DEF NoticeInit, EveryoneTold
    <2>4. QED
      BY <2>2, <2>3 DEF NoticeInv
  <1>2. NoticeInv /\ [NoticeNext]_noticeVars => NoticeInv'
    BY CausesStep, SaveStep, ReadDevicesStep, ReadThrowsStep, PushStep, NextSubjectStep, OtherNoticeSteps DEF NoticeNext
  <1>3. NoticeInv => EveryoneTold
    BY DEF NoticeInv
  <1>4. QED
    BY <1>1, <1>2, <1>3, PTL DEF NoticeSpec
-------------------------------------------------------------------------------
(* Claims, worked on by one call at a time.                                 *)

\* What a call has begun and not finished yet: the step it writes next follows
\* the status the claim has; the entry it announces next has never been made.
CallAgrees(duty) ==
    /\ duty.step # "idle" => /\ duty.claim \in Claims
                             /\ claim[duty.claim] # NULL
                             /\ duty.status \in Statuses
    /\ duty.step = "update" => duty.status \in NextOf(Status(duty.claim))
    /\ duty.step = "emit" =>
          /\ Status(duty.claim) = duty.status
          /\ duty.status \in Posted =>
                journal[duty.claim][duty.status] + posting[duty.claim][duty.status] = 0
ClaimsInv ==
    /\ TypeOK
    /\ \A h \in Handlers : CallAgrees(handler[h])
    /\ EntriesOnce

\* The statuses, spelt out.
LEMMA StatusNames ==
    Statuses = {"Registered", "Under Review", "Approved", "Paid", "Rejected"}
  <1>1. DOMAIN FLOW = 1 .. 4
    BY DEF FLOW
  <1>2. FLOW[1] = "Registered" /\ FLOW[2] = "Under Review"
    BY DEF FLOW
  <1>3. FLOW[3] = "Approved" /\ FLOW[4] = "Paid"
    BY DEF FLOW
  <1>4. 1 .. 4 = {1, 2, 3, 4}
    OBVIOUS
  <1>5. ToSet(FLOW) = {FLOW[1], FLOW[2], FLOW[3], FLOW[4]}
    BY <1>1, <1>4, Zenon DEF ToSet
  <1>6. QED
    BY <1>2, <1>3, <1>5 DEF Statuses

\* The status after a status, spelt out.
LEMMA NextStatus ==
    ASSUME NEW status, NEW next \in NextOf(status)
    PROVE  /\ status \in Statuses /\ next \in Statuses
           /\ next = "Approved" => status = "Under Review"
           /\ next = "Paid" <=> status = "Approved"
           /\ status \notin {"Paid", "Rejected"}
  <1>1. PICK m \in 1 .. 3 : FLOW[m] = status /\ next = FLOW[m + 1]
    <2>1. Len(FLOW) = 4
      BY DEF FLOW
    <2>2. 1 .. Len(FLOW) - 1 = 1 .. 3
      BY <2>1
    <2>3. QED
      BY <2>2 DEF NextOf
  <1>2. FLOW[1] = "Registered" /\ FLOW[2] = "Under Review"
    BY DEF FLOW
  <1>3. FLOW[3] = "Approved" /\ FLOW[4] = "Paid"
    BY DEF FLOW
  <1>4. \/ FLOW[m] = FLOW[1] /\ FLOW[m + 1] = FLOW[2]
        \/ FLOW[m] = FLOW[2] /\ FLOW[m + 1] = FLOW[3]
        \/ FLOW[m] = FLOW[3] /\ FLOW[m + 1] = FLOW[4]
    OBVIOUS
  <1>5. QED
    BY <1>1, <1>2, <1>3, <1>4, StatusNames

\* The status of a registered claim is its row's, and no status is NULL.
LEMMA StatusOfRow ==
    ASSUME TypeOK, NEW c \in Claims, claim[c] # NULL
    PROVE  Status(c) = claim[c].status /\ Status(c) \in Statuses /\ claim[c] \in Row
  BY DEF TypeOK, Status, Row
\* A call that does as it has to, while what the other calls rest on is kept.
LEMMA OneCall ==
    ASSUME TypeOK, \A g, h \in Handlers : g = h, NEW h \in Handlers, NEW duty \in HandlerState,
           handler' = [handler EXCEPT ![h] = duty], CallAgrees(duty)'
    PROVE  handler' \in [Handlers -> HandlerState] /\ \A g \in Handlers : CallAgrees(handler[g])'
  <1>1. handler \in [Handlers -> HandlerState]
    BY DEF TypeOK
  <1>2. handler'[h] = duty
    BY <1>1
  <1>3. ASSUME NEW g \in Handlers
        PROVE  CallAgrees(handler[g])'
    BY <1>2 DEF CallAgrees
  <1>4. QED
    BY <1>1, <1>3

\* Advance and the write it leads to: the entry for the next status has not been
\* made, because the claim has not come so far.
LEMMA AdvanceSteps ==
    ASSUME ClaimsInv, \A g, h \in Handlers : g = h, NEW h \in Handlers,
           WriteAdvance(h) \/ \E c \in Claims : Advance(h, c)
    PROVE  ClaimsInv'
  <1>1. ASSUME NEW c \in Claims, Advance(h, c)
        PROVE  ClaimsInv'
    <2>1. PICK next \in NextOf(Status(c)) : Begin(h, "update", c, next)
      BY <1>1 DEF Advance
    <2>2. next \in Statuses /\ Status(c) \in Statuses
      BY <2>1, NextStatus
    <2>3. claim[c] # NULL
      BY <2>2, ClaimsAssumption DEF Status
    <2>4. PICK duty : duty = [step |-> "update", claim |-> c, status |-> next]
      OBVIOUS
    <2>5. duty \in HandlerState /\ duty.step = "update" /\ duty.claim = c /\ duty.status = next
      BY <2>2, <2>4 DEF HandlerState
    <2>6. UNCHANGED <<claim, posting, journal, audit, crashes>>
      BY <1>1 DEF Advance
    <2>7. CallAgrees(duty)'
      BY <2>1, <2>2, <2>3, <2>5, <2>6 DEF CallAgrees, Status
    <2>8. handler' \in [Handlers -> HandlerState] /\ \A g \in Handlers : CallAgrees(handler[g])'
      BY <2>1, <2>4, <2>5, <2>7, OneCall DEF Begin, ClaimsInv
    <2>9. QED
      BY <2>6, <2>8 DEF ClaimsInv, TypeOK, EntriesOnce, Status
  <1>2. ASSUME WriteAdvance(h)
        PROVE  ClaimsInv'
    <2>1. PICK c, next : c = handler[h].claim /\ next = handler[h].status
      OBVIOUS
    <2>2. /\ c \in Claims /\ claim[c] # NULL
          /\ next \in Statuses /\ next \in NextOf(Status(c))
      BY <1>2, <2>1 DEF WriteAdvance, At, ClaimsInv, CallAgrees
    <2>3. claim \in [Claims -> Row \cup {NULL}] /\ claim[c] \in Row
      BY <2>2 DEF ClaimsInv, TypeOK
    <2>4. claim' = [claim EXCEPT ![c].status = next]
      BY <1>2, <2>1 DEF WriteAdvance
    <2>5. PICK row : row = [claim[c] EXCEPT !.status = next]
      OBVIOUS
    <2>6. row \in Row /\ row.status = next /\ row # NULL
      BY <2>2, <2>3, <2>5, ClaimsAssumption DEF Row
    <2>7. claim' \in [Claims -> Row \cup {NULL}] /\ claim'[c] = row
      BY <2>2, <2>3, <2>4, <2>5, <2>6
    <2>8. \A d \in Claims : d # c => claim'[d] = claim[d]
      BY <2>3, <2>4
    <2>9. Status(c)' = next
      BY <2>6, <2>7 DEF Status
    <2>10. UNCHANGED <<posting, journal, audit, crashes>>
      BY <1>2 DEF WriteAdvance
    <2>11. PICK duty : duty = [handler[h] EXCEPT !.step = "emit"]
      OBVIOUS
    <2>12. /\ duty \in HandlerState
           /\ duty.step = "emit" /\ duty.claim = c /\ duty.status = next
      BY <2>1, <2>11 DEF ClaimsInv, TypeOK, HandlerState
    <2>13. handler' = [handler EXCEPT ![h] = duty]
      BY <1>2, <2>11 DEF WriteAdvance, Goto, ClaimsInv, TypeOK
    <2>14. \A s \in Posted : journal[c][s] \in Nat /\ posting[c][s] \in Nat
      BY <2>2 DEF ClaimsInv, TypeOK, Counts
    <2>15. next \in Posted => journal[c][next] + posting[c][next] = 0
      <3>1. \A s \in Posted :
              /\ journal[c][s] + posting[c][s] <= 1
              /\ journal[c][s] + posting[c][s] = 1 => Status(c) \in {s, "Paid", "Rejected"}
        BY <2>2 DEF ClaimsInv, EntriesOnce
      <3>2. next \in Posted => Status(c) \notin {next, "Paid", "Rejected"}
        BY <2>2, NextStatus DEF Posted
      <3>3. QED
        BY <2>14, <3>1, <3>2
    <2>16. CallAgrees(duty)'
      BY <2>2, <2>6, <2>7, <2>9, <2>10, <2>12, <2>15 DEF CallAgrees
    <2>17. handler' \in [Handlers -> HandlerState] /\ \A g \in Handlers : CallAgrees(handler[g])'
      BY <2>12, <2>13, <2>16, OneCall DEF ClaimsInv
    <2>18. EntriesOnce'
      <3>1. ASSUME NEW d \in Claims, NEW s \in Posted,
                   journal[d][s] + posting[d][s] = 1
            PROVE  Status(d)' \in {s, "Paid", "Rejected"}
        <4>1. Status(d) \in {s, "Paid", "Rejected"}
          BY <3>1 DEF ClaimsInv, EntriesOnce
        <4>2. CASE d # c
          BY <2>8, <4>1, <4>2 DEF Status
        <4>3. CASE d = c
          BY <2>2, <2>9, <4>1, <4>3, NextStatus DEF Posted
        <4>4. QED
          BY <4>2, <4>3
      <3>2. QED
        BY <2>10, <3>1 DEF ClaimsInv, EntriesOnce
    <2>19. QED
      BY <2>7, <2>10, <2>17, <2>18 DEF ClaimsInv, TypeOK
  <1>3. QED
    BY <1>1, <1>2
\* Emit: the one announcement of this status.
LEMMA EmitStep ==
    ASSUME ClaimsInv, \A g, h \in Handlers : g = h, NEW h \in Handlers, Emit(h)
    PROVE  ClaimsInv'
  <1>1. PICK c, status : c = handler[h].claim /\ status = handler[h].status
    OBVIOUS
  <1>2. /\ c \in Claims /\ claim[c] # NULL /\ status \in Statuses /\ Status(c) = status
        /\ status \in Posted => journal[c][status] + posting[c][status] = 0
    BY <1>1 DEF Emit, At, ClaimsInv, CallAgrees
  <1>3. UNCHANGED <<claim, journal, audit, crashes>>
    BY DEF Emit
  <1>4. posting \in [Claims -> [Posted -> Nat]] /\ journal \in [Claims -> [Posted -> Nat]]
    BY DEF ClaimsInv, TypeOK, Counts
  <1>5. PICK duty : duty = [handler[h] EXCEPT !.step = "audit"]
    OBVIOUS
  <1>6. /\ duty \in HandlerState
        /\ duty.step = "audit" /\ duty.claim = c /\ duty.status = status
    BY <1>1, <1>5 DEF ClaimsInv, TypeOK, HandlerState
  <1>7. handler' = [handler EXCEPT ![h] = duty]
    BY <1>5 DEF Emit, Goto, ClaimsInv, TypeOK
  <1>8. CallAgrees(duty)'
    BY <1>2, <1>3, <1>6 DEF CallAgrees
  <1>9. handler' \in [Handlers -> HandlerState] /\ \A g \in Handlers : CallAgrees(handler[g])'
    BY <1>6, <1>7, <1>8, OneCall DEF ClaimsInv
  <1>10. CASE status \notin Posted
    <2>1. UNCHANGED posting
      BY <1>1, <1>10 DEF Emit
    <2>2. QED
      BY <1>3, <1>9, <2>1 DEF ClaimsInv, TypeOK, EntriesOnce, Status
  <1>11. CASE status \in Posted
    <2>1. PICK row : row = [posting[c] EXCEPT ![status] = posting[c][status] + 1]
      OBVIOUS
    <2>2. posting' = [posting EXCEPT ![c] = row]
      BY <1>1, <1>2, <1>4, <1>11, <2>1 DEF Emit
    <2>3. row \in [Posted -> Nat] /\ row[status] = posting[c][status] + 1
      BY <1>2, <1>4, <1>11, <2>1
    <2>4. \A s \in Posted : s # status => row[s] = posting[c][s]
      BY <1>2, <1>4, <2>1
    <2>5. posting' \in Counts /\ posting'[c] = row /\ \A d \in Claims : d # c => posting'[d] = posting[d]
      BY <1>2, <1>4, <2>2, <2>3 DEF Counts
    <2>6. ASSUME NEW d \in Claims, NEW s \in Posted
          PROVE  /\ journal'[d][s] + posting'[d][s] <= 1
                 /\ journal'[d][s] + posting'[d][s] = 1 => Status(d)' \in {s, "Paid", "Rejected"}
      <3>1. CASE d = c /\ s = status
        <4>1. journal[c][status] \in Nat /\ posting[c][status] \in Nat
          BY <1>2, <1>4, <1>11
        <4>2. journal'[d][s] + posting'[d][s] = 1
          BY <1>2, <1>3, <1>11, <2>3, <2>5, <3>1, <4>1
        <4>3. Status(d)' = s
          BY <1>2, <1>3, <3>1 DEF Status
        <4>4. QED
          BY <4>2, <4>3
      <3>2. CASE ~(d = c /\ s = status)
        BY <1>3, <2>4, <2>5, <3>2 DEF ClaimsInv, EntriesOnce, Status
      <3>3. QED
        BY <3>1, <3>2
    <2>7. EntriesOnce'
      BY <2>6 DEF EntriesOnce
    <2>8. QED
      BY <1>3, <1>9, <2>5, <2>7 DEF ClaimsInv, TypeOK
  <1>12. QED
    BY <1>10, <1>11

\* A claim whose row changes without taking a step of the workflow.
LEMMA RowStep ==
    ASSUME ClaimsInv, NEW c \in Claims, NEW row \in Row,
           claim' = [claim EXCEPT ![c] = row], UNCHANGED <<posting, journal>>,
           claim[c] = NULL \/ row.status \in {Status(c), "Rejected"}
    PROVE  /\ claim' \in [Claims -> Row \cup {NULL}] /\ claim'[c] = row
           /\ EntriesOnce'
  <1>1. claim \in [Claims -> Row \cup {NULL}]
    BY DEF ClaimsInv, TypeOK
  <1>2. claim'[c] = row /\ Status(c)' = row.status
    BY <1>1, ClaimsAssumption DEF Status
  <1>3. ASSUME NEW d \in Claims, NEW s \in Posted, journal[d][s] + posting[d][s] = 1
        PROVE  Status(d)' \in {s, "Paid", "Rejected"}
    <2>1. Status(d) \in {s, "Paid", "Rejected"}
      BY <1>3 DEF ClaimsInv, EntriesOnce
    <2>2. claim[d] # NULL
      BY <2>1, StatusNames, ClaimsAssumption DEF Status, Posted
    <2>3. QED
      BY <1>1, <1>2, <2>1, <2>2 DEF Status
  <1>4. QED
    BY <1>1, <1>2, <1>3 DEF ClaimsInv, EntriesOnce
\* create, reject and setReserve.
LEMMA RowSteps ==
    ASSUME ClaimsInv, \A g, h \in Handlers : g = h, NEW c \in Claims,
           \/ Create(c) \/ \E reserve \in Reserves : SetReserve(c, reserve)
           \/ \E h \in Handlers : Reject(h, c)
    PROVE  ClaimsInv'
  <1>1. ASSUME Create(c)
        PROVE  ClaimsInv'
    <2>1. PICK row : row = [status |-> "Registered", reserve |-> 0]
      OBVIOUS
    <2>2. row \in Row
      BY <2>1, StatusNames DEF Row
    <2>3. claim' = [claim EXCEPT ![c] = row] /\ claim[c] = NULL
      BY <1>1, <2>1 DEF Create
    <2>4. UNCHANGED <<posting, journal, audit, handler, crashes>>
      BY <1>1 DEF Create
    <2>5. claim' \in [Claims -> Row \cup {NULL}] /\ EntriesOnce'
      BY <2>2, <2>3, <2>4, RowStep
    <2>6. ASSUME NEW h \in Handlers
          PROVE  CallAgrees(handler[h])'
      <3>1. CallAgrees(handler[h])
        BY DEF ClaimsInv
      <3>2. handler[h].step # "idle" => handler[h].claim # c
        BY <2>3, <3>1 DEF CallAgrees
      <3>3. claim \in [Claims -> Row \cup {NULL}]
        BY DEF ClaimsInv, TypeOK
      <3>4. \A d \in Claims : d # c => claim'[d] = claim[d]
        BY <2>3, <3>3
      <3>5. handler[h].step \in {"idle", "update", "emit", "audit"}
        BY DEF ClaimsInv, TypeOK, HandlerState
      <3>6. QED
        BY <2>4, <3>1, <3>2, <3>4, <3>5 DEF CallAgrees, Status
    <2>7. QED
      BY <2>4, <2>5, <2>6 DEF ClaimsInv, TypeOK
  <1>2. ASSUME NEW reserve \in Reserves, SetReserve(c, reserve)
        PROVE  ClaimsInv'
    <2>1. claim \in [Claims -> Row \cup {NULL}] /\ claim[c] # NULL /\ claim[c] \in Row
      BY <1>2 DEF SetReserve, ClaimsInv, TypeOK
    <2>2. PICK row : row = [claim[c] EXCEPT !.reserve = reserve]
      OBVIOUS
    <2>3. row \in Row /\ row.status = claim[c].status /\ row # NULL
      BY <2>1, <2>2, ClaimsAssumption DEF Row
    <2>4. claim' = [claim EXCEPT ![c] = row] /\ row.status = Status(c)
      BY <1>2, <2>1, <2>2, <2>3 DEF SetReserve, Status
    <2>5. UNCHANGED <<posting, journal, audit, handler, crashes>>
      BY <1>2 DEF SetReserve
    <2>6. claim' \in [Claims -> Row \cup {NULL}] /\ EntriesOnce' /\ claim'[c] = row
      BY <2>3, <2>4, <2>5, RowStep
    <2>7. \A d \in Claims : Status(d)' = Status(d) /\ (claim[d] # NULL => claim'[d] # NULL)
      BY <2>1, <2>3, <2>4, <2>6 DEF Status
    <2>8. \A h \in Handlers : CallAgrees(handler[h])'
      BY <2>5, <2>7 DEF CallAgrees, ClaimsInv
    <2>9. QED
      BY <2>5, <2>6, <2>8 DEF ClaimsInv, TypeOK
  <1>3. ASSUME NEW h \in Handlers, Reject(h, c)
        PROVE  ClaimsInv'
    <2>1. claim \in [Claims -> Row \cup {NULL}] /\ claim[c] # NULL /\ claim[c] \in Row
      BY <1>3 DEF Reject, ClaimsInv, TypeOK
    <2>2. PICK row : row = [claim[c] EXCEPT !.status = "Rejected"]
      OBVIOUS
    <2>3. row \in Row /\ row.status = "Rejected" /\ row # NULL
      BY <2>1, <2>2, StatusNames, ClaimsAssumption DEF Row
    <2>4. claim' = [claim EXCEPT ![c] = row]
      BY <1>3, <2>2 DEF Reject
    <2>5. UNCHANGED <<posting, journal, audit, crashes>>
      BY <1>3 DEF Reject
    <2>6. claim' \in [Claims -> Row \cup {NULL}] /\ EntriesOnce' /\ claim'[c] = row
      BY <2>3, <2>4, <2>5, RowStep
    <2>7. PICK duty : duty = [step |-> "audit", claim |-> c, status |-> "Rejected"]
      OBVIOUS
    <2>8. /\ duty \in HandlerState
          /\ duty.step = "audit" /\ duty.claim = c /\ duty.status = "Rejected"
      BY <2>7, StatusNames DEF HandlerState
    <2>9. CallAgrees(duty)'
      BY <2>3, <2>6, <2>8, StatusNames DEF CallAgrees
    <2>10. handler' \in [Handlers -> HandlerState] /\ \A g \in Handlers : CallAgrees(handler[g])'
      BY <1>3, <2>7, <2>8, <2>9, OneCall DEF Reject, Begin, ClaimsInv
    <2>11. QED
      BY <2>5, <2>6, <2>10 DEF ClaimsInv, TypeOK
  <1>4. QED
    BY <1>1, <1>2, <1>3

\* Counts that lose one and perhaps gain it on the other side.
LEMMA ListenStep ==
    ASSUME ClaimsInv, NEW c \in Claims, NEW status \in Posted, Listen(c, status)
    PROVE  ClaimsInv'
  <1>1. posting \in [Claims -> [Posted -> Nat]] /\ journal \in [Claims -> [Posted -> Nat]]
    BY DEF ClaimsInv, TypeOK, Counts
  <1>2. PICK p, j : p = posting[c] /\ j = journal[c]
    OBVIOUS
  <1>3. p \in [Posted -> Nat] /\ j \in [Posted -> Nat] /\ p[status] > 0
    BY <1>1, <1>2 DEF Listen
  <1>4. PICK q : q = [p EXCEPT ![status] = p[status] - 1]
    OBVIOUS
  <1>5. q \in [Posted -> Nat] /\ q[status] = p[status] - 1
    BY <1>3, <1>4
  <1>6. posting' = [posting EXCEPT ![c] = q]
    BY <1>1, <1>2, <1>4 DEF Listen
  <1>7. PICK k : journal' = [journal EXCEPT ![c] = k] /\ k \in {j, [j EXCEPT ![status] = j[status] + 1]}
    <2>1. CASE UNCHANGED journal
      BY <1>1, <1>2, <2>1
    <2>2. CASE ~UNCHANGED journal
      BY <1>1, <1>2, <2>2 DEF Listen
    <2>3. QED
      BY <2>1, <2>2
  <1>8. k \in [Posted -> Nat] /\ k[status] <= j[status] + 1
    BY <1>3, <1>7
  <1>9. posting' \in Counts /\ journal' \in Counts
    BY <1>1, <1>5, <1>6, <1>7, <1>8 DEF Counts
  <1>10. \A s \in Posted : q[s] + k[s] <= p[s] + j[s] /\ q[s] \in Nat /\ k[s] \in Nat
    BY <1>3, <1>4, <1>5, <1>7, <1>8
  <1>11. \A d \in Claims, s \in Posted :
           /\ journal'[d][s] + posting'[d][s] <= journal[d][s] + posting[d][s]
           /\ journal'[d][s] \in Nat /\ posting'[d][s] \in Nat
           /\ journal[d][s] \in Nat /\ posting[d][s] \in Nat
    BY <1>1, <1>2, <1>3, <1>6, <1>7, <1>9, <1>10 DEF Counts
  <1>12. UNCHANGED <<claim, audit, handler, crashes>>
    BY DEF Listen
  <1>13. EntriesOnce'
    BY <1>11, <1>12 DEF ClaimsInv, EntriesOnce, Status
  <1>14. \A h \in Handlers : CallAgrees(handler[h])'
    <2>1. ASSUME NEW h \in Handlers
          PROVE  CallAgrees(handler[h])'
      <3>1. CallAgrees(handler[h])
        BY DEF ClaimsInv
      <3>2. PICK duty : duty = handler[h]
        OBVIOUS
      <3>3. \A d \in Claims : Status(d)' = Status(d)
        BY <1>12 DEF Status
      <3>4. CASE duty.step = "emit" /\ duty.status \in Posted
        <4>1. journal[duty.claim][duty.status] + posting[duty.claim][duty.status] = 0
          BY <3>1, <3>2, <3>4 DEF CallAgrees
        <4>2. duty.claim \in Claims
          BY <3>1, <3>2, <3>4 DEF CallAgrees
        <4>3. journal'[duty.claim][duty.status] + posting'[duty.claim][duty.status] = 0
          BY <1>11, <3>4, <4>1, <4>2
        <4>4. QED
          BY <1>12, <3>1, <3>2, <3>3, <3>4, <4>3 DEF CallAgrees
      <3>5. CASE ~(duty.step = "emit" /\ duty.status \in Posted)
        BY <1>12, <3>1, <3>2, <3>3, <3>5 DEF CallAgrees
      <3>6. QED
        BY <3>4, <3>5
    <2>2. QED
      BY <2>1
  <1>15. QED
    BY <1>9, <1>12, <1>13, <1>14 DEF ClaimsInv, TypeOK
\* The audit row and the restart.
LEMMA AuditAndCrashSteps ==
    ASSUME ClaimsInv, Crash \/ \E h \in Handlers : WriteAudit(h)
    PROVE  ClaimsInv'
  <1>1. Idle \in HandlerState /\ Idle.step = "idle"
    BY DEF Idle, HandlerState
  <1>2. CallAgrees(Idle)'
    BY <1>1 DEF CallAgrees
  <1>3. ASSUME NEW h \in Handlers, WriteAudit(h)
        PROVE  ClaimsInv'
    <2>1. handler[h].claim \in Claims /\ handler[h].status \in Statuses
      BY <1>3 DEF WriteAudit, At, ClaimsInv, CallAgrees
    <2>2. audit' \subseteq Claims \X Statuses
      BY <1>3, <2>1 DEF WriteAudit, ClaimsInv, TypeOK
    <2>3. UNCHANGED <<claim, posting, journal, crashes>> /\ handler' = [handler EXCEPT ![h] = Idle]
      BY <1>3 DEF WriteAudit, Done
    <2>4. handler' \in [Handlers -> HandlerState]
      BY <1>1, <2>3 DEF ClaimsInv, TypeOK
    <2>5. ASSUME NEW g \in Handlers
          PROVE  CallAgrees(handler[g])'
      <3>1. CASE g = h
        BY <1>2, <2>3, <3>1 DEF ClaimsInv, TypeOK
      <3>2. CASE g # h
        BY <2>3, <3>2 DEF ClaimsInv, TypeOK, CallAgrees, Status
      <3>3. QED
        BY <3>1, <3>2
    <2>6. QED
      BY <2>2, <2>3, <2>4, <2>5 DEF ClaimsInv, TypeOK, EntriesOnce, Status
  <1>4. ASSUME Crash
        PROVE  ClaimsInv'
    <2>1. /\ UNCHANGED <<claim, journal, audit>>
          /\ handler' = [h \in Handlers |-> Idle] /\ posting' = None /\ crashes' = crashes + 1
      BY <1>4 DEF Crash
    <2>2. \A c \in Claims, s \in Posted :
            posting'[c][s] = 0 /\ posting[c][s] \in Nat /\ journal[c][s] \in Nat
      BY <2>1 DEF None, ClaimsInv, TypeOK, Counts
    <2>3. TypeOK'
      BY <1>1, <2>1 DEF None, ClaimsInv, TypeOK, Counts
    <2>4. EntriesOnce'
      BY <2>1, <2>2 DEF ClaimsInv, EntriesOnce, Status
    <2>5. \A h \in Handlers : CallAgrees(handler[h])'
      BY <1>2, <2>1
    <2>6. QED
      BY <2>3, <2>4, <2>5 DEF ClaimsInv
  <1>5. QED
    BY <1>3, <1>4
-------------------------------------------------------------------------------
\* A claim posts at most one expense and one payment, over restarts of the
\* process and whoever rejects it when, and neither before the claim has come
\* that far: while the office works on claims with one call at a time.  With two
\* calls both may advance the same claim, and each announces the status.
THEOREM EntriesPostedOnce ==
    ASSUME \A g, h \in Handlers : g = h
    PROVE  Spec => []EntriesOnce
  <1>1. Init => ClaimsInv
    <2>1. Idle \in HandlerState /\ Idle.step = "idle"
      BY DEF Idle, HandlerState
    <2>2. SUFFICES ASSUME Init PROVE ClaimsInv
      OBVIOUS
    <2>3. TypeOK
      BY <2>1, <2>2 DEF Init, TypeOK, None, Counts
    <2>4. \A c \in Claims, s \in Posted : journal[c][s] = 0 /\ posting[c][s] = 0
      BY <2>2 DEF Init, None
    <2>5. QED
      BY <2>1, <2>2, <2>3, <2>4 DEF ClaimsInv, Init, EntriesOnce, CallAgrees
  <1>2. ClaimsInv /\ [Next]_vars => ClaimsInv'
    <2>1. SUFFICES ASSUME ClaimsInv, [Next]_vars PROVE ClaimsInv'
      OBVIOUS
    <2>2. CASE UNCHANGED vars
      BY <2>1, <2>2 DEF vars, ClaimsInv, TypeOK, EntriesOnce, CallAgrees, Status
    <2>3. CASE Next
      BY <2>1, <2>3, AdvanceSteps, EmitStep, RowSteps, ListenStep, AuditAndCrashSteps DEF Next
    <2>4. QED
      BY <2>1, <2>2, <2>3
  <1>3. ClaimsInv => EntriesOnce
    BY DEF ClaimsInv
  <1>4. QED
    BY <1>1, <1>2, <1>3, PTL DEF Spec
-------------------------------------------------------------------------------
(* The accounts of the staff.                                               *)

StaffSpec == StaffInit /\ [][StaffNext]_staffVars

Account ==
    [password: {1, 2}, mfaSecret: Nat, mfaEnabled: BOOLEAN,
     role: Roles \union {Off.role}, status: UserStatus]
WorkerState ==
    [step: {"idle", "issue", "enable"}, user: Users \union {Off.user},
     role: Roles \union {Off.role}]
StaffTypeOK ==
    /\ users \in [Users -> Account]
    /\ app \in [Users -> Nat]
    /\ worker \in [Workers -> WorkerState]
    /\ secrets \in Nat /\ outages \in Nat
    /\ \A u \in Users : users[u].mfaSecret <= secrets

\* The user's app holds the secret that is checked.
Holds(u) == users[u].mfaSecret # NoSecret /\ app[u] = users[u].mfaSecret
\* Beside those who enrolled, the one whose enrolment is about to be saved.
StaffInv ==
    /\ StaffTypeOK
    /\ \A w \in Workers : worker[w].step # "idle" => worker[w].user \in Users
    /\ EnrolledCanLogin
    /\ undisturbed => \A w \in Workers : worker[w].step = "enable" => Holds(worker[w].user)

\* What a request is doing, when it goes on with a user or comes to its end.
LEMMA WorkerDoes ==
    ASSUME StaffInv, NEW w \in Workers, NEW to \in WorkerState, Then(w, to),
           to.step # "idle" => to.user \in Users
    PROVE  /\ worker' \in [Workers -> WorkerState] /\ worker'[w] = to
           /\ \A v \in Workers : v # w => worker'[v] = worker[v]
           /\ \A v \in Workers : worker'[v].step # "idle" => worker'[v].user \in Users
  <1>1. worker \in [Workers -> WorkerState] /\ worker' = [worker EXCEPT ![w] = to]
    BY DEF StaffInv, StaffTypeOK, Then
  <1>2. worker' \in [Workers -> WorkerState] /\ worker'[w] = to
    BY <1>1
  <1>3. ASSUME NEW v \in Workers, v # w
        PROVE  worker'[v] = worker[v]
    BY <1>1, <1>3
  <1>4. QED
    BY <1>2, <1>3 DEF StaffInv

\* The states of a request at rest and of an enrolment.
LEMMA WorkerStates ==
    /\ Off \in WorkerState /\ Off.step = "idle"
    /\ \A u \in Users :
          LET to == [Off EXCEPT !.step = "enable", !.user = u]
          IN  to \in WorkerState /\ to.step = "enable" /\ to.user = u
  BY DEF Off, WorkerState

\* Login, its second step, and the tokens at the end of both.
LEMMA LoginSteps ==
    ASSUME StaffInv, StaffNext, NEW w \in Workers,
           \/ IssueTokenPair(w) \/ \E u \in Users : Login(w, u) \/ VerifyMfa(w, u)
    PROVE  StaffInv'
  <1>1. UNCHANGED <<users, app, secrets, outages>>
    BY DEF IssueTokenPair, Login, VerifyMfa
  <1>2. \A u \in Users : users[u].role \in Roles \union {Off.role}
    BY DEF StaffInv, StaffTypeOK, Account
  <1>3. UNCHANGED worker \/ \E to \in WorkerState : /\ Then(w, to) /\ to.step # "enable"
                                                    /\ to.step # "idle" => to.user \in Users
    <2>1. ASSUME NEW u \in Users,
                 Then(w, [Off EXCEPT !.step = "issue", !.user = u, !.role = users[u].role])
          PROVE  \E to \in WorkerState : /\ Then(w, to) /\ to.step # "enable"
                                         /\ to.step # "idle" => to.user \in Users
      <3>1. PICK to : to = [Off EXCEPT !.step = "issue", !.user = u, !.role = users[u].role]
        OBVIOUS
      <3>2. to \in WorkerState /\ to.step = "issue" /\ to.user = u
        BY <1>2, <3>1 DEF Off, WorkerState
      <3>3. Then(w, to)
        BY <2>1, <3>1
      <3>4. QED
        BY <3>2, <3>3
    <2>2. CASE IssueTokenPair(w)
      BY <2>2, WorkerStates DEF IssueTokenPair
    <2>3. CASE \E u \in Users : Login(w, u) \/ VerifyMfa(w, u)
      BY <2>1, <2>3 DEF Login, VerifyMfa
    <2>4. QED
      BY <2>2, <2>3
  <1>4. undisturbed' => undisturbed
    BY DEF StaffNext
  <1>5. CASE UNCHANGED worker
    BY <1>1, <1>4, <1>5 DEF StaffInv, StaffTypeOK, EnrolledCanLogin, Holds
  <1>6. ASSUME NEW to \in WorkerState, Then(w, to), to.step # "enable",
               to.step # "idle" => to.user \in Users
        PROVE  StaffInv'
    <2>1. /\ worker' \in [Workers -> WorkerState] /\ worker'[w] = to
          /\ \A v \in Workers : v # w => worker'[v] = worker[v]
          /\ \A v \in Workers : worker'[v].step # "idle" => worker'[v].user \in Users
      BY <1>6, WorkerDoes
    <2>2. undisturbed' => \A v \in Workers : worker'[v].step = "enable" => Holds(worker[v].user)'
      BY <1>1, <1>4, <1>6, <2>1 DEF StaffInv, Holds
    <2>3. QED
      BY <1>1, <1>4, <2>1, <2>2 DEF StaffInv, StaffTypeOK, EnrolledCanLogin
  <1>7. QED
    BY <1>3, <1>5, <1>6

\* A code is checked, then the second factor is enabled: with the secret that
\* was checked, if nothing came between.
LEMMA EnrolSteps ==
    ASSUME StaffInv, StaffNext, NEW w \in Workers,
           EnableMfa(w) \/ \E u \in Users : CheckEnrollment(w, u)
    PROVE  StaffInv'
  <1>1. UNCHANGED <<app, secrets, outages>> /\ (undisturbed' => undisturbed)
    BY DEF EnableMfa, CheckEnrollment, StaffNext
  <1>2. ASSUME NEW u \in Users, CheckEnrollment(w, u)
        PROVE  StaffInv'
    <2>1. PICK to : to = [Off EXCEPT !.step = "enable", !.user = u]
      OBVIOUS
    <2>2. to \in WorkerState /\ to.step = "enable" /\ to.user = u
      BY <2>1, WorkerStates
    <2>3. Then(w, to) /\ UNCHANGED users /\ Holds(u)
      BY <1>2, <2>1 DEF CheckEnrollment, Holds
    <2>4. /\ worker' \in [Workers -> WorkerState] /\ worker'[w] = to
          /\ \A v \in Workers : v # w => worker'[v] = worker[v]
          /\ \A v \in Workers : worker'[v].step # "idle" => worker'[v].user \in Users
      BY <2>2, <2>3, WorkerDoes
    <2>5. undisturbed' => \A v \in Workers : worker'[v].step = "enable" => Holds(worker[v].user)'
      <3>1. \A x : Holds(x) => users'[x].mfaSecret # NoSecret /\ app'[x] = users'[x].mfaSecret
        BY <1>1, <2>3 DEF Holds
      <3>2. undisturbed' => \A v \in Workers : worker'[v].step = "enable" => Holds(worker'[v].user)
        BY <1>1, <2>2, <2>3, <2>4 DEF StaffInv
      <3>3. QED
        BY <3>1, <3>2 DEF Holds
    <2>6. QED
      BY <1>1, <2>3, <2>4, <2>5 DEF StaffInv, StaffTypeOK, EnrolledCanLogin
  <1>3. ASSUME EnableMfa(w)
        PROVE  StaffInv'
    <2>1. PICK u : u = worker[w].user
      OBVIOUS
    <2>2. u \in Users /\ (undisturbed => Holds(u))
      BY <1>3, <2>1 DEF EnableMfa, Doing, StaffInv
    <2>3. Then(w, Off) /\ users' = [users EXCEPT ![u].mfaEnabled = TRUE]
      BY <1>3, <2>1 DEF EnableMfa
    <2>4. users' \in [Users -> Account] /\ \A v \in Users : users'[v].mfaSecret = users[v].mfaSecret
      <3>1. users \in [Users -> Account]
        BY DEF StaffInv, StaffTypeOK
      <3>2. PICK a : a = [users[u] EXCEPT !.mfaEnabled = TRUE]
        OBVIOUS
      <3>3. a \in Account /\ a.mfaSecret = users[u].mfaSecret
        BY <2>2, <3>1, <3>2 DEF Account
      <3>4. users' = [users EXCEPT ![u] = a]
        BY <2>3, <3>2
      <3>5. QED
        BY <2>2, <3>1, <3>3, <3>4
    <2>5. \A v \in Users : v # u => users'[v].mfaEnabled = users[v].mfaEnabled
      BY <2>2, <2>3 DEF StaffInv, StaffTypeOK, Account
    <2>6. /\ worker' \in [Workers -> WorkerState] /\ worker'[w] = Off
          /\ \A v \in Workers : v # w => worker'[v] = worker[v]
          /\ \A v \in Workers : worker'[v].step # "idle" => worker'[v].user \in Users
      BY <2>3, WorkerDoes, WorkerStates
    <2>7. \A v \in Users : Holds(v)' <=> Holds(v)
      BY <1>1, <2>4 DEF Holds
    <2>8. undisturbed' => \A v \in Workers : worker'[v].step = "enable" => Holds(worker[v].user)'
      <3>1. \A x \in Users : Holds(x) => users'[x].mfaSecret # NoSecret
                                        /\ app'[x] = users'[x].mfaSecret
        BY <1>1, <2>4 DEF Holds
      <3>2. undisturbed' => \A v \in Workers : worker'[v].step = "enable" =>
                              Holds(worker'[v].user) /\ worker'[v].user \in Users
        BY <1>1, <2>6, WorkerStates DEF StaffInv
      <3>3. QED
        BY <3>1, <3>2 DEF Holds
    <2>9. EnrolledCanLogin'
      BY <1>1, <2>2, <2>5, <2>7 DEF StaffInv, EnrolledCanLogin, Holds
    <2>10. QED
      BY <1>1, <2>4, <2>6, <2>8, <2>9 DEF StaffInv, StaffTypeOK
  <1>4. QED
    BY <1>2, <1>3

\* What changes an account while no request is at work.
LEMMA AccountSteps ==
    ASSUME StaffInv, StaffNext, NEW u \in Users,
           \/ DisableMfa(u) \/ ResetPassword(u)
           \/ \E captures \in BOOLEAN : StartMfaEnrollment(u, captures)
           \/ \E by \in Users, status \in UserStatus : SetUserStatus(u, by, status)
           \/ \E role \in Roles : UpdateFields(u, role)
    PROVE  StaffInv'
  <1>1. /\ UNCHANGED <<worker, outages>>
        /\ undisturbed' => undisturbed /\ \A w \in Workers : worker[w].step = "idle"
    BY DEF DisableMfa, ResetPassword, StartMfaEnrollment, SetUserStatus, UpdateFields, Change,
       StaffNext, Doing
  <1>2. /\ undisturbed' => \A w \in Workers : worker'[w].step = "enable" => Holds(worker[w].user)'
        /\ worker' \in [Workers -> WorkerState] /\ outages' \in Nat
        /\ \A w \in Workers : worker'[w].step # "idle" => worker'[w].user \in Users
    BY <1>1 DEF StaffInv, StaffTypeOK
  <1>3. users \in [Users -> Account] /\ app \in [Users -> Nat] /\ secrets \in Nat
    BY DEF StaffInv, StaffTypeOK
  <1>4. users[u] \in Account /\ users[u].mfaSecret <= secrets
    BY <1>3 DEF StaffInv, StaffTypeOK
  <1>5. ASSUME NEW user \in Account, users' = [users EXCEPT ![u] = user],
               UNCHANGED <<app, secrets>>,
               \/ user.mfaEnabled = FALSE /\ user.mfaSecret = NoSecret
               \/ user.mfaEnabled = users[u].mfaEnabled /\ user.mfaSecret = users[u].mfaSecret
        PROVE  StaffInv'
    <2>1. users' \in [Users -> Account] /\ users'[u] = user
      BY <1>3, <1>5
    <2>2. \A v \in Users : v # u => users'[v] = users[v]
      BY <1>3, <1>5
    <2>3. \A v \in Users : users'[v].mfaSecret <= secrets'
      BY <1>3, <1>4, <1>5, <2>1, <2>2 DEF StaffInv, StaffTypeOK, NoSecret
    <2>4. EnrolledCanLogin'
      BY <1>1, <1>5, <2>1, <2>2 DEF StaffInv, EnrolledCanLogin
    <2>5. QED
      BY <1>2, <1>3, <1>5, <2>1, <2>3, <2>4 DEF StaffInv, StaffTypeOK
  <1>6. CASE DisableMfa(u)
    <2>1. PICK user : user = [users[u] EXCEPT !.mfaEnabled = FALSE, !.mfaSecret = NoSecret]
      OBVIOUS
    <2>2. user \in Account /\ user.mfaEnabled = FALSE /\ user.mfaSecret = NoSecret
      BY <1>4, <2>1 DEF Account, NoSecret
    <2>3. users' = [users EXCEPT ![u] = user]
      BY <1>3, <1>4, <1>6, <2>1 DEF DisableMfa, Account
    <2>4. QED
      BY <1>5, <1>6, <2>2, <2>3 DEF DisableMfa
  <1>7. CASE ~DisableMfa(u) /\ \A captures \in BOOLEAN : ~StartMfaEnrollment(u, captures)
    <2>1. PICK user : Change(u, user) /\ \/ user = [users[u] EXCEPT !.password = 3 - @]
                                         \/ \E status \in UserStatus :
                                               user = [users[u] EXCEPT !.status = status]
                                         \/ \E role \in Roles :
                                               user = [users[u] EXCEPT !.role = role]
      BY <1>7 DEF ResetPassword, SetUserStatus, UpdateFields
    <2>2. /\ user \in Account
          /\ user.mfaEnabled = users[u].mfaEnabled /\ user.mfaSecret = users[u].mfaSecret
      BY <1>4, <2>1 DEF Account
    <2>3. QED
      BY <1>5, <2>1, <2>2 DEF Change
  <1>8. ASSUME NEW captures \in BOOLEAN, StartMfaEnrollment(u, captures)
        PROVE  StaffInv'
    <2>1. PICK user : user = [users[u] EXCEPT !.mfaSecret = secrets + 1]
      OBVIOUS
    <2>2. user \in Account /\ user.mfaSecret = secrets + 1 /\ user.mfaEnabled = users[u].mfaEnabled
      BY <1>3, <1>4, <2>1 DEF Account
    <2>3. users' = [users EXCEPT ![u] = user] /\ secrets' = secrets + 1
      BY <1>3, <1>4, <1>8, <2>1 DEF StartMfaEnrollment, Account
    <2>4. users' \in [Users -> Account] /\ users'[u] = user /\ secrets' \in Nat
      BY <1>3, <2>2, <2>3
    <2>5. \A v \in Users : v # u => users'[v] = users[v]
      BY <1>3, <2>3
    <2>6. app' \in [Users -> Nat] /\ \A v \in Users : v # u => app'[v] = app[v]
      BY <1>3, <1>8 DEF StartMfaEnrollment
    <2>7. \A v \in Users : users'[v].mfaSecret <= secrets'
      <3>1. \A v \in Users : users[v].mfaSecret \in Nat /\ users[v].mfaSecret <= secrets
        BY <1>3 DEF StaffInv, StaffTypeOK, Account
      <3>2. QED
        BY <1>3, <2>2, <2>3, <2>4, <2>5, <3>1
    <2>8. undisturbed' => users[u].mfaEnabled = FALSE
      <3>1. secrets + 1 \notin {users[u].mfaSecret, NoSecret}
        BY <1>3, <1>4 DEF Account, NoSecret
      <3>2. undisturbed' => (users[u].mfaEnabled => users'[u].mfaSecret \in {users[u].mfaSecret, NoSecret})
        BY DEF StaffNext
      <3>3. users[u].mfaEnabled \in BOOLEAN
        BY <1>4 DEF Account
      <3>4. QED
        BY <2>2, <2>4, <3>1, <3>2, <3>3
    <2>9. EnrolledCanLogin'
      BY <1>1, <2>2, <2>4, <2>5, <2>6, <2>8 DEF StaffInv, EnrolledCanLogin
    <2>10. QED
      BY <1>2, <2>4, <2>6, <2>7, <2>9 DEF StaffInv, StaffTypeOK
  <1>9. QED
    BY <1>6, <1>7, <1>8
-------------------------------------------------------------------------------
\* The second step of the login stays open to everyone who enabled it: no order
\* of enrolments, logins and changes of accounts, however many, leaves an account
\* with the second factor enabled and no secret, or another secret than the app
\* of its user holds, while one request is at work at a time, none is cut off and
\* nobody enrols again while enrolled.
THEOREM EnrolledCanLoginHolds == StaffSpec => []EnrolledCanLogin
  <1>1. StaffInit => StaffInv
    <2>1. SUFFICES ASSUME StaffInit PROVE StaffInv
      OBVIOUS
    <2>2. \A u \in Users : /\ users[u].mfaEnabled = FALSE /\ users[u].mfaSecret = 0
                           /\ users[u] \in Account
      BY <2>1 DEF StaffInit, Account, UserStatus, Off, NoSecret
    <2>3. StaffTypeOK
      <3>1. users \in [Users -> Account] /\ app \in [Users -> Nat]
        BY <2>1, <2>2 DEF StaffInit, NoSecret
      <3>2. worker \in [Workers -> WorkerState] /\ secrets = 0 /\ outages = 0
        BY <2>1, WorkerStates DEF StaffInit
      <3>3. QED
        BY <2>2, <3>1, <3>2 DEF StaffTypeOK
    <2>4. \A w \in Workers : worker[w].step = "idle"
      BY <2>1, WorkerStates DEF StaffInit
    <2>5. QED
      BY <2>2, <2>3, <2>4 DEF StaffInv, EnrolledCanLogin
  <1>2. StaffInv /\ [StaffNext]_staffVars => StaffInv'
    <2>1. SUFFICES ASSUME StaffInv, [StaffNext]_staffVars PROVE StaffInv'
      OBVIOUS
    <2>2. CASE UNCHANGED staffVars
      BY <2>1, <2>2 DEF staffVars, StaffInv, StaffTypeOK, EnrolledCanLogin, Holds
    <2>3. CASE StaffNext /\ Outage
      <3>1. /\ outages' = outages + 1 /\ outages \in Nat
            /\ worker' = [w \in Workers |-> Off] /\ UNCHANGED <<users, app, secrets>>
        BY <2>1, <2>3 DEF Outage, StaffInv, StaffTypeOK
      <3>2. undisturbed' = FALSE
        <4>1. outages' # 0
          BY <3>1
        <4>2. QED
          BY <2>3, <4>1 DEF StaffNext
      <3>3. \A w \in Workers : worker'[w] = Off
        BY <3>1
      <3>4. worker' \in [Workers -> WorkerState]
        BY <3>1, WorkerStates
      <3>5. StaffTypeOK'
        BY <2>1, <3>1, <3>4 DEF StaffInv, StaffTypeOK
      <3>6. QED
        BY <3>2, <3>3, <3>5, WorkerStates DEF StaffInv, EnrolledCanLogin
    <2>4. CASE StaffNext /\ ~Outage
      BY <2>1, <2>4, LoginSteps, EnrolSteps, AccountSteps DEF StaffNext, StaffStep
    <2>5. QED
      BY <2>1, <2>2, <2>3, <2>4
  <1>3. StaffInv => EnrolledCanLogin
    BY DEF StaffInv
  <1>4. QED
    BY <1>1, <1>2, <1>3, PTL DEF StaffSpec
-------------------------------------------------------------------------------
(* The accounts of the client app.                                          *)

AuthSpec == AuthInit /\ [][AuthNext]_authVars

AppAccount ==
    [pin: Pins \union {NoPin}, failedAttempts: Nat, locked: BOOLEAN, tokenVersion: Nat,
     origin: {"none", "existing", "application", "applicant"}]
Decides == {"set pin", "first pin", "change", "reset", "login"}
\* What a call has in hand: the holder, the PIN that was given, the account read.
CallHolds(x) ==
    /\ x.step # "idle" => x.holder \in Holders
    /\ x.step \in Decides \union {"use code"} => x.pin \in Pins
    /\ x.read \in AppAccount
\* The PIN and the version that were read are those of the account now.
Fresh(x) ==
    x.step \in Decides => /\ x.read.pin = account[x.holder].pin
                          /\ x.read.tokenVersion = account[x.holder].tokenVersion
\* A session is of a version the account has had; of today's, with today's PIN.
SessionAgrees(t) ==
    /\ Exists(t.holder)
    /\ t.tv <= account[t.holder].tokenVersion
    /\ t.tv = account[t.holder].tokenVersion => t.pin = account[t.holder].pin
OneAtWork == \A c, d \in Calls : call[c].step # "idle" /\ call[d].step # "idle" => c = d
AuthTypes ==
    /\ account \in [Holders -> AppAccount]
    /\ call = [c \in Calls |-> call[c]]
    /\ \A c \in Calls : CallHolds(call[c])
    /\ \A t \in sessions : t.holder \in Holders /\ t.tv \in Nat
AuthInv ==
    /\ AuthTypes
    /\ oneByOne => /\ OneAtWork
                   /\ \A c \in Calls : Fresh(call[c])
                   /\ \A t \in sessions : SessionAgrees(t)

\* A call goes on or comes to its end: what it goes on with has to be fresh, and
\* no other call is at work.
LEMMA CallMoves ==
    ASSUME AuthInv, AuthNext, NEW c \in Calls, NEW to, CallTo(c, to), CallHolds(to),
           call[c].step # "idle" \/ to.step # "idle",
           oneByOne' => Fresh(to)'
    PROVE  /\ call' = [d \in Calls |-> call'[d]]
           /\ \A d \in Calls : CallHolds(call'[d])
           /\ oneByOne' => OneAtWork' /\ \A d \in Calls : Fresh(call[d])'
  <1>1. /\ call = [d \in Calls |-> call[d]]
        /\ \A d \in Calls : CallHolds(call[d])
        /\ call' = [call EXCEPT ![c] = to]
    BY DEF AuthInv, AuthTypes, CallTo
  <1>2. /\ call' = [d \in Calls |-> call'[d]]
        /\ call'[c] = to
        /\ \A d \in Calls : d # c => call'[d] = call[d]
    BY <1>1
  <1>3. /\ oneByOne' => OneAtWork'
        /\ oneByOne' => oneByOne /\ OneAtWork
    BY DEF AuthNext, OneAtWork, AuthInv
  <1>4. ASSUME NEW d \in Calls, oneByOne'
        PROVE  Fresh(call[d])'
    <2>1. CASE d = c
      BY <1>2, <1>4, <2>1
    <2>2. CASE d # c
      <3>1. call'[d].step = "idle"
        BY <1>2, <1>3, <1>4, <2>2 DEF OneAtWork
      <3>2. QED
        BY <3>1 DEF Fresh, Decides
    <2>3. QED
      BY <2>1, <2>2
  <1>5. QED
    BY <1>1, <1>2, <1>3, <1>4

\* Accounts that keep their PIN and version, while the calls stay as they are or
\* one of them comes to its end.
Kept == \A h \in Holders : /\ account'[h].pin = account[h].pin
                           /\ account'[h].tokenVersion = account[h].tokenVersion
LEMMA KeptSessions ==
    ASSUME AuthInv, Kept, oneByOne, NEW t \in sessions
    PROVE  SessionAgrees(t)'
  BY DEF AuthInv, AuthTypes, Kept, SessionAgrees, Exists
LEMMA KeptCalls ==
    ASSUME AuthInv, AuthNext, Kept, UNCHANGED call
    PROVE  /\ call' = [d \in Calls |-> call'[d]]
           /\ \A d \in Calls : CallHolds(call'[d])
           /\ oneByOne' => oneByOne /\ OneAtWork' /\ \A d \in Calls : Fresh(call[d])'
  <1>1. oneByOne' => oneByOne /\ OneAtWork'
    BY DEF AuthNext, OneAtWork
  <1>2. ASSUME NEW d \in Calls, oneByOne'
        PROVE  Fresh(call[d])'
    <2>1. Fresh(call[d]) /\ CallHolds(call[d]) /\ call'[d] = call[d]
      BY <1>1, <1>2 DEF AuthInv, AuthTypes
    <2>2. QED
      BY <2>1 DEF Fresh, CallHolds, Decides, Kept
  <1>3. QED
    BY <1>1, <1>2 DEF AuthInv, AuthTypes

\* A PIN that is set, with the next version or on an account that was not there,
\* ends every session but the one that is signed with it.
LEMMA NewPin ==
    ASSUME AuthInv, oneByOne, NEW h \in Holders, NEW acc \in AppAccount, acc.pin \in Pins,
           account' = [account EXCEPT ![h] = acc],
           acc.tokenVersion > account[h].tokenVersion \/ ~Exists(h),
           NEW t \in sessions \union {sign(h, acc)}
    PROVE  SessionAgrees(t)'
  <1>1. account \in [Holders -> AppAccount]
    BY DEF AuthInv, AuthTypes
  <1>2. account'[h] = acc /\ \A k \in Holders : k # h => account'[k] = account[k]
    BY <1>1
  <1>3. acc.pin # NoPin /\ acc.tokenVersion \in Nat /\ account[h].tokenVersion \in Nat
    BY <1>1, AuthAssumption DEF AppAccount
  <1>4. CASE t = sign(h, acc)
    BY <1>2, <1>3, <1>4 DEF sign, SessionAgrees, Exists
  <1>5. CASE t \in sessions
    <2>1. SessionAgrees(t) /\ t.holder \in Holders /\ t.tv \in Nat
      BY <1>5 DEF AuthInv, AuthTypes
    <2>2. CASE t.holder = h
      BY <1>2, <1>3, <2>1, <2>2 DEF SessionAgrees, Exists
    <2>3. CASE t.holder # h
      BY <1>2, <2>1, <2>3 DEF SessionAgrees, Exists
    <2>4. QED
      BY <2>2, <2>3
  <1>6. QED
    BY <1>4, <1>5
\* What a call may go on with.
Moves(c, to) ==
    /\ CallTo(c, to) /\ CallHolds(to)
    /\ call[c].step # "idle" \/ to.step # "idle"
    /\ Fresh(to)
\* A step that sets no PIN and signs no session.
LEMMA KeptStep ==
    ASSUME AuthInv, AuthNext, Kept, account' \in [Holders -> AppAccount], UNCHANGED sessions,
           UNCHANGED call \/ \E c \in Calls : \E to : Moves(c, to)
    PROVE  AuthInv'
  <1>1. oneByOne' => oneByOne
    BY DEF AuthNext
  <1>2. oneByOne' => \A t \in sessions : SessionAgrees(t)'
    BY <1>1, KeptSessions
  <1>3. ASSUME NEW c \in Calls, NEW to, Moves(c, to)
        PROVE  /\ call' = [d \in Calls |-> call'[d]]
               /\ \A d \in Calls : CallHolds(call'[d])
               /\ oneByOne' => OneAtWork' /\ \A d \in Calls : Fresh(call[d])'
    <2>1. Fresh(to)'
      BY <1>3 DEF Moves, Fresh, CallHolds, Decides, Kept
    <2>2. QED
      BY <1>3, <2>1, CallMoves DEF Moves
  <1>4. /\ call' = [d \in Calls |-> call'[d]]
        /\ \A d \in Calls : CallHolds(call'[d])
        /\ oneByOne' => OneAtWork' /\ \A d \in Calls : Fresh(call[d])'
    BY <1>3, KeptCalls
  <1>5. AuthTypes'
    BY <1>4 DEF AuthInv, AuthTypes
  <1>6. QED
    BY <1>2, <1>4, <1>5 DEF AuthInv

\* A call at rest, and a call that goes on with an account that it has just read.
LEMMA CallAtRest ==
    NoAccount \in AppAccount /\ CallHolds(Away) /\ Fresh(Away) /\ Away.step = "idle"
  BY DEF NoAccount, AppAccount, Away, CallHolds, Fresh, Decides
LEMMA ReadsMoves ==
    ASSUME AuthInv, NEW c \in Calls, NEW h \in Holders, NEW step, NEW pin, Reads(c, step, h, pin),
           step # "idle", step \in Decides => pin \in Pins, step # "use code"
    PROVE  \E to : Moves(c, to)
  <1>1. PICK to : to = [step |-> step, holder |-> h, pin |-> pin, code |-> 0, read |-> account[h]]
    OBVIOUS
  <1>2. account[h] \in AppAccount
    BY DEF AuthInv, AuthTypes
  <1>3. to.step = step /\ to.holder = h /\ to.pin = pin /\ to.read = account[h]
    BY <1>1
  <1>4. CallHolds(to) /\ Fresh(to)
    BY <1>2, <1>3 DEF CallHolds, Fresh
  <1>5. CallTo(c, to)
    BY <1>1 DEF Reads
  <1>6. QED
    BY <1>3, <1>4, <1>5 DEF Moves

\* What a call does before it decides.
LEMMA ReadingSteps ==
    ASSUME AuthInv, AuthNext, NEW c \in Calls,
           \/ \E h \in Clients :
                \/ startActivation(c, h) \/ issueStaffCode(c, h) \/ WrongCode(c, h)
                \/ \E pin \in Pins :
                     \/ \E i \in DOMAIN codes : RightCode(c, h, i, pin)
                     \/ \E matches \in BOOLEAN : activateDirect(c, h, matches, pin)
                     \/ \E t \in sessions, old \in Pins : ReadForChange(c, h, t, old, pin)
           \/ \E h \in Prospects, pin \in Pins :
                registerApplicant(c, h, pin) \/ ReadForReset(c, h, pin)
           \/ \E h \in Holders, pin \in Pins : ReadForLogin(c, h, pin)
           \/ SaveCode(c) \/ UseCode(c) \/ AwaitsPayment(c)
    PROVE  AuthInv'
  <1>1. UNCHANGED <<account, sessions>>
    BY DEF startActivation, issueStaffCode, WrongCode, RightCode, activateDirect, ReadForChange,
       registerApplicant, ReadForReset, ReadForLogin, SaveCode, UseCode, AwaitsPayment
  <1>2. Kept /\ account' \in [Holders -> AppAccount]
    BY <1>1 DEF Kept, AuthInv, AuthTypes
  <1>3. ASSUME NEW h \in Holders, NEW step \in Decides, NEW pin \in Pins, Reads(c, step, h, pin)
        PROVE  AuthInv'
    BY <1>1, <1>2, <1>3, ReadsMoves, KeptStep DEF Decides
  <1>4. ASSUME NEW h \in Clients
        PROVE  /\ startActivation(c, h) => AuthInv'
               /\ issueStaffCode(c, h) \/ WrongCode(c, h) => AuthInv'
    <2>1. CASE startActivation(c, h)
      <3>1. \E to : Moves(c, to)
        BY <2>1, ReadsMoves DEF startActivation, Decides, Holders
      <3>2. QED
        BY <1>1, <1>2, <3>1, KeptStep
    <2>2. CASE issueStaffCode(c, h) \/ WrongCode(c, h)
      BY <1>1, <1>2, <2>2, KeptStep DEF issueStaffCode, WrongCode
    <2>3. QED
      BY <2>1, <2>2
  <1>5. ASSUME NEW h \in Clients, NEW pin \in Pins
        PROVE  /\ (\E i \in DOMAIN codes : RightCode(c, h, i, pin)) => AuthInv'
               /\ (\E matches \in BOOLEAN : activateDirect(c, h, matches, pin)) => AuthInv'
               /\ (\E t \in sessions, old \in Pins : ReadForChange(c, h, t, old, pin)) => AuthInv'
    <2>1. ASSUME NEW i \in DOMAIN codes, RightCode(c, h, i, pin)
          PROVE  AuthInv'
      <3>1. PICK to : to = [Away EXCEPT !.step = "use code", !.holder = h, !.pin = pin, !.code = i]
        OBVIOUS
      <3>2. to.step = "use code" /\ to.holder = h /\ to.pin = pin /\ to.read = NoAccount
        BY <3>1 DEF Away
      <3>3. CallHolds(to) /\ Fresh(to)
        BY <3>2, CallAtRest DEF CallHolds, Fresh, Decides, Holders
      <3>4. Moves(c, to)
        BY <2>1, <3>1, <3>2, <3>3 DEF RightCode, Moves
      <3>5. QED
        BY <1>1, <1>2, <3>4, KeptStep
    <2>2. ASSUME NEW matches \in BOOLEAN, activateDirect(c, h, matches, pin)
          PROVE  AuthInv'
      <3>1. UNCHANGED call \/ Reads(c, "first pin", h, pin)
        BY <2>2 DEF activateDirect
      <3>2. QED
        BY <1>1, <1>2, <1>3, <3>1, KeptStep DEF Decides, Holders
    <2>3. ASSUME NEW t \in sessions, NEW old \in Pins, ReadForChange(c, h, t, old, pin)
          PROVE  AuthInv'
      BY <1>3, <2>3 DEF ReadForChange, Decides, Holders
    <2>4. QED
      BY <2>1, <2>2, <2>3
  <1>6. ASSUME NEW h \in Prospects, NEW pin \in Pins, registerApplicant(c, h, pin) \/ ReadForReset(c, h, pin)
        PROVE  AuthInv'
    BY <1>3, <1>6 DEF registerApplicant, ReadForReset, Decides, Holders
  <1>7. ASSUME NEW h \in Holders, NEW pin \in Pins, ReadForLogin(c, h, pin)
        PROVE  AuthInv'
    BY <1>3, <1>7 DEF ReadForLogin, Decides
  <1>8. CASE SaveCode(c) \/ AwaitsPayment(c)
    <2>1. Moves(c, Away)
      BY <1>8, CallAtRest DEF SaveCode, AwaitsPayment, CallAt, Returns, Moves
    <2>2. QED
      BY <1>1, <1>2, <2>1, KeptStep
  <1>9. CASE UseCode(c)
    <2>1. call[c].holder \in Holders /\ call[c].pin \in Pins
      BY <1>9 DEF UseCode, CallAt, AuthInv, AuthTypes, CallHolds
    <2>2. QED
      BY <1>3, <1>9, <2>1 DEF UseCode, Decides
  <1>10. QED
    BY <1>4, <1>5, <1>6, <1>7, <1>8, <1>9
\* A call that sets a PIN, with or without signing a session, or fails to.
LEMMA PinStep ==
    ASSUME AuthInv, AuthNext, NEW c \in Calls, Returns(c), call[c].step # "idle",
           NEW h \in Holders, NEW acc \in AppAccount, acc.pin \in Pins,
           account' = [account EXCEPT ![h] = acc],
           sessions' \subseteq sessions \union {sign(h, acc)},
           oneByOne' => acc.tokenVersion > account[h].tokenVersion \/ ~Exists(h)
    PROVE  AuthInv'
  <1>1. oneByOne' => oneByOne
    BY DEF AuthNext
  <1>2. account' \in [Holders -> AppAccount]
    BY DEF AuthInv, AuthTypes
  <1>3. \A t \in sessions' : t.holder \in Holders /\ t.tv \in Nat
    BY DEF AuthInv, AuthTypes, sign, AppAccount
  <1>4. /\ call' = [d \in Calls |-> call'[d]]
        /\ \A d \in Calls : CallHolds(call'[d])
        /\ oneByOne' => OneAtWork' /\ \A d \in Calls : Fresh(call[d])'
    <2>1. CallTo(c, Away) /\ Fresh(Away)'
      BY CallAtRest DEF Returns, Fresh, Decides
    <2>2. QED
      BY <2>1, CallAtRest, CallMoves
  <1>5. oneByOne' => \A t \in sessions' : SessionAgrees(t)'
    BY <1>1, NewPin
  <1>6. QED
    BY <1>2, <1>3, <1>4, <1>5 DEF AuthInv, AuthTypes

\* completeActivation, SaveAccount, changePin and resetApplicantPin.
LEMMA PinSteps ==
    ASSUME AuthInv, AuthNext, NEW c \in Calls,
           completeActivation(c) \/ SaveAccount(c) \/ changePin(c) \/ resetApplicantPin(c)
    PROVE  AuthInv'
  <1>1. PICK h, pin, was : h = call[c].holder /\ pin = call[c].pin /\ was = call[c].read
    OBVIOUS
  <1>2. /\ h \in Holders /\ pin \in Pins /\ was \in AppAccount
        /\ call[c].step \in {"set pin", "first pin", "change", "reset"}
    <2>1. call[c].step \in {"set pin", "first pin", "change", "reset"}
      BY DEF completeActivation, SaveAccount, changePin, resetApplicantPin, WritePin, CallAt
    <2>2. QED
      BY <1>1, <2>1 DEF AuthInv, AuthTypes, CallHolds, Decides
  <1>3. account \in [Holders -> AppAccount] /\ account[h] \in AppAccount
    BY <1>2 DEF AuthInv, AuthTypes
  <1>4. oneByOne' => was.pin = account[h].pin /\ was.tokenVersion = account[h].tokenVersion
    BY <1>1, <1>2 DEF AuthNext, AuthInv, Fresh, Decides
  <1>5. Returns(c)
    BY DEF completeActivation, SaveAccount, changePin, resetApplicantPin, WritePin
  <1>6. \A origin \in {"existing", "applicant"} :
          /\ NewAccount(pin, origin) \in AppAccount
          /\ NewAccount(pin, origin).pin = pin
    BY <1>2 DEF NewAccount, NoAccount, AppAccount
  <1>7. ASSUME UNCHANGED <<account, sessions>>
        PROVE  AuthInv'
    <2>1. Kept /\ account' \in [Holders -> AppAccount]
      BY <1>7 DEF Kept, AuthInv, AuthTypes
    <2>2. Moves(c, Away)
      BY <1>2, <1>5, CallAtRest DEF Moves, Returns
    <2>3. QED
      BY <1>7, <2>1, <2>2, KeptStep
  <1>8. ASSUME NEW unlocks \in BOOLEAN, NEW acc,
               acc = [SetPin(account[h], pin) EXCEPT
                        !.tokenVersion = was.tokenVersion + 1, !.locked = @ /\ ~unlocks]
        PROVE  /\ acc \in AppAccount /\ acc.pin = pin
               /\ oneByOne' => acc.tokenVersion > account[h].tokenVersion
    <2>1. was.tokenVersion \in Nat /\ account[h].tokenVersion \in Nat
      BY <1>2, <1>3 DEF AppAccount
    <2>2. acc \in AppAccount /\ acc.pin = pin /\ acc.tokenVersion = was.tokenVersion + 1
      <3>1. PICK n \in Nat : n = was.tokenVersion + 1
        BY <2>1
      <3>2. PICK locked \in BOOLEAN : locked = (account[h].locked /\ ~unlocks)
        BY <1>3 DEF AppAccount
      <3>3. acc = [account[h] EXCEPT !.pin = pin, !.tokenVersion = n, !.failedAttempts = 0,
                                     !.locked = locked]
        BY <1>3, <1>8, <3>1, <3>2 DEF SetPin, AppAccount
      <3>4. QED
        BY <1>2, <1>3, <3>1, <3>3 DEF AppAccount
    <2>3. QED
      BY <1>4, <2>1, <2>2
  <1>9. ASSUME NEW step, NEW unlocks \in BOOLEAN, NEW replies, WritePin(c, step, unlocks, replies)
        PROVE  AuthInv'
    <2>1. PICK acc : acc = [SetPin(account[h], pin) EXCEPT
                              !.tokenVersion = was.tokenVersion + 1, !.locked = @ /\ ~unlocks]
      OBVIOUS
    <2>2. /\ account' = [account EXCEPT ![h] = acc]
          /\ sessions' \subseteq sessions \union {sign(h, acc)}
      BY <1>1, <1>9, <2>1 DEF WritePin
    <2>3. QED
      BY <1>2, <1>5, <1>8, <2>1, <2>2, PinStep
  <1>10. CASE changePin(c) \/ resetApplicantPin(c)
    BY <1>9, <1>10 DEF changePin, resetApplicantPin
  <1>11. CASE SaveAccount(c)
    <2>1. PICK origin \in {"existing", "applicant"} :
            origin = IF h \in Clients THEN "existing" ELSE "applicant"
      OBVIOUS
    <2>2. CASE Exists(h)
      BY <1>1, <1>7, <1>11, <2>2 DEF SaveAccount
    <2>3. CASE ~Exists(h)
      <3>1. /\ account' = [account EXCEPT ![h] = NewAccount(pin, origin)]
            /\ sessions' = sessions \union {sign(h, NewAccount(pin, origin))}
        BY <1>1, <1>11, <2>1, <2>3 DEF SaveAccount
      <3>2. QED
        BY <1>2, <1>5, <1>6, <2>3, <3>1, PinStep
    <2>4. QED
      BY <2>2, <2>3
  <1>12. CASE completeActivation(c)
    <2>1. CASE was.pin = NoPin /\ Exists(h)
      BY <1>1, <1>7, <1>12, <2>1 DEF completeActivation
    <2>2. CASE was.pin = NoPin /\ ~Exists(h)
      <3>1. /\ account' = [account EXCEPT ![h] = NewAccount(pin, "existing")]
            /\ sessions' = sessions \union {sign(h, NewAccount(pin, "existing"))}
        BY <1>1, <1>12, <2>2 DEF completeActivation
      <3>2. QED
        BY <1>2, <1>5, <1>6, <2>2, <3>1, PinStep
    <2>3. CASE was.pin # NoPin
      <3>1. PICK acc : acc = [SetPin(account[h], pin) EXCEPT
                                !.tokenVersion = was.tokenVersion + 1, !.locked = FALSE]
        OBVIOUS
      <3>2. /\ account' = [account EXCEPT ![h] = acc]
            /\ sessions' = sessions \union {sign(h, acc)}
        BY <1>1, <1>12, <2>3, <3>1 DEF completeActivation
      <3>3. acc = [SetPin(account[h], pin) EXCEPT
                     !.tokenVersion = was.tokenVersion + 1, !.locked = @ /\ ~TRUE]
        BY <1>3, <3>1 DEF SetPin, AppAccount
      <3>4. /\ acc \in AppAccount /\ acc.pin = pin
            /\ oneByOne' => acc.tokenVersion > account[h].tokenVersion
        BY <1>8, <3>3
      <3>5. QED
        BY <1>2, <1>5, <3>2, <3>4, PinStep
    <2>4. QED
      BY <2>1, <2>2, <2>3
  <1>13. QED
    BY <1>10, <1>11, <1>12

\* A login that fails or succeeds, and what time does to locks.
LEMMA LoginAndElapseSteps ==
    ASSUME AuthInv, AuthNext,
           \/ \E c \in Calls : LoginFails(c) \/ login(c)
           \/ \E h \in Clients : PremiumReceived(h)
           \/ \E span : Elapse(span)
    PROVE  AuthInv'
  <1>1. account \in [Holders -> AppAccount]
    BY DEF AuthInv, AuthTypes
  <1>2. ASSUME NEW c \in Calls, LoginFails(c) \/ login(c)
        PROVE  AuthInv'
    <2>1. PICK h, was : h = call[c].holder /\ was = call[c].read
      OBVIOUS
    <2>2. call[c].step = "login" /\ h \in Holders /\ was \in AppAccount /\ call[c].pin \in Pins
      BY <1>2, <2>1 DEF LoginFails, login, CallAt, AuthInv, AuthTypes, CallHolds, Decides
    <2>3. was.failedAttempts + 1 \in Nat /\ account[h] \in AppAccount
      <3>1. was.failedAttempts \in Nat
        BY <2>2 DEF AppAccount
      <3>2. QED
        BY <1>1, <2>2, <3>1
    <2>4. PICK acc : /\ account' = [account EXCEPT ![h] = acc]
                     /\ acc \in AppAccount
                     /\ acc.pin = account[h].pin /\ acc.tokenVersion = account[h].tokenVersion
      <3>1. ASSUME NEW n \in Nat, NEW b \in BOOLEAN, NEW acc,
                   acc = [account[h] EXCEPT !.failedAttempts = n, !.locked = b]
            PROVE  /\ acc \in AppAccount
                   /\ acc.pin = account[h].pin /\ acc.tokenVersion = account[h].tokenVersion
        BY <2>3, <3>1 DEF AppAccount
      <3>2. PICK n \in Nat, b \in BOOLEAN :
              account' = [account EXCEPT ![h] =
                            [account[h] EXCEPT !.failedAttempts = n, !.locked = b]]
        <4>1. CASE login(c)
          BY <1>1, <2>1, <2>2, <4>1 DEF login
        <4>2. CASE LoginFails(c)
          <5>1. PICK n \in Nat : n = was.failedAttempts + 1
            BY <2>3
          <5>2. \/ account' = [account EXCEPT ![h] =
                                 [account[h] EXCEPT !.failedAttempts = 0, !.locked = TRUE]]
                \/ account' = [account EXCEPT ![h] = [account[h] EXCEPT !.failedAttempts = n]]
            BY <1>1, <2>1, <2>2, <4>2, <5>1 DEF LoginFails
          <5>3. account[h].locked \in BOOLEAN
            BY <2>3 DEF AppAccount
          <5>4. [account[h] EXCEPT !.failedAttempts = n] =
                  [account[h] EXCEPT !.failedAttempts = n, !.locked = account[h].locked]
            BY <2>3 DEF AppAccount
          <5>5. QED
            BY <5>2, <5>3, <5>4
        <4>3. QED
          BY <1>2, <4>1, <4>2
      <3>3. QED
        BY <3>1, <3>2
    <2>5. Kept /\ account' \in [Holders -> AppAccount]
      BY <1>1, <2>2, <2>4 DEF Kept
    <2>6. Moves(c, Away)
      BY <1>2, <2>2, CallAtRest DEF LoginFails, login, Returns, Moves
    <2>7. CASE LoginFails(c)
      <3>1. UNCHANGED sessions
        BY <2>7 DEF LoginFails
      <3>2. QED
        BY <2>5, <2>6, <3>1, KeptStep
    <2>8. CASE login(c)
      <3>1. PICK t : t = sign(h, was)
        OBVIOUS
      <3>2. sessions' = sessions \union {t} /\ was.pin \in Pins
        BY <2>1, <2>2, <2>8, <3>1 DEF login
      <3>3. t.holder = h /\ t.tv = was.tokenVersion /\ t.pin = was.pin /\ t.tv \in Nat
        BY <2>2, <3>1 DEF sign, AppAccount
      <3>4. oneByOne' => oneByOne
        BY DEF AuthNext
      <3>5. oneByOne' => SessionAgrees(t)'
        <4>1. oneByOne' => was.pin = account'[h].pin /\ was.tokenVersion = account'[h].tokenVersion
          BY <2>1, <2>2, <2>5, <3>4 DEF AuthInv, Fresh, Decides, Kept
        <4>2. account'[h].tokenVersion \in Nat /\ was.pin # NoPin
          BY <2>2, <2>5, <3>2, AuthAssumption DEF AppAccount
        <4>3. QED
          BY <3>3, <4>1, <4>2 DEF SessionAgrees, Exists
      <3>6. oneByOne' => \A s \in sessions' : SessionAgrees(s)'
        BY <2>5, <3>2, <3>4, <3>5, KeptSessions
      <3>7. /\ call' = [d \in Calls |-> call'[d]]
            /\ \A d \in Calls : CallHolds(call'[d])
            /\ oneByOne' => OneAtWork' /\ \A d \in Calls : Fresh(call[d])'
        <4>1. Fresh(Away)'
          BY CallAtRest DEF Fresh, Decides
        <4>2. QED
          BY <2>6, <4>1, CallMoves DEF Moves
      <3>8. \A s \in sessions' : s.holder \in Holders /\ s.tv \in Nat
        BY <2>2, <3>2, <3>3 DEF AuthInv, AuthTypes
      <3>9. QED
        BY <2>5, <3>6, <3>7, <3>8 DEF AuthInv, AuthTypes
    <2>9. QED
      BY <1>2, <2>7, <2>8
  <1>3. ASSUME NEW span, Elapse(span)
        PROVE  AuthInv'
    <2>1. account' = [h \in Holders |-> [account[h] EXCEPT !.locked = FALSE]]
      BY <1>3 DEF Elapse
    <2>2. Kept /\ account' \in [Holders -> AppAccount]
      <3>1. ASSUME NEW h \in Holders
            PROVE  /\ account'[h] \in AppAccount /\ account'[h].pin = account[h].pin
                   /\ account'[h].tokenVersion = account[h].tokenVersion
        <4>1. account[h] \in AppAccount
          BY <1>1
        <4>2. account'[h] = [account[h] EXCEPT !.locked = FALSE]
          BY <2>1
        <4>3. QED
          BY <4>1, <4>2 DEF AppAccount
      <3>2. QED
        BY <2>1, <3>1 DEF Kept
    <2>3. QED
      BY <1>3, <2>2, KeptStep DEF Elapse
  <1>4. ASSUME NEW h, PremiumReceived(h)
        PROVE  AuthInv'
    <2>1. Kept /\ account' \in [Holders -> AppAccount]
      BY <1>1, <1>4 DEF PremiumReceived, Kept
    <2>2. QED
      BY <1>4, <2>1, KeptStep DEF PremiumReceived
  <1>5. QED
    BY <1>2, <1>3, <1>4
-------------------------------------------------------------------------------
\* A new PIN ends the sessions of the old one: whatever order accounts are opened,
\* activated, locked, changed and reset in, a session that is still accepted was
\* opened with the PIN of today, while requests come one after the other.
THEOREM SessionsFollowPinHolds == AuthSpec => []SessionsFollowPin
  <1>1. AuthInit => AuthInv
    <2>1. SUFFICES ASSUME AuthInit PROVE AuthInv
      OBVIOUS
    <2>2. \A p \in Pins : NewAccount(p, "application") \in AppAccount
      BY DEF NewAccount, NoAccount, AppAccount
    <2>3. account \in [Holders -> AppAccount]
      BY <2>1, <2>2, CallAtRest DEF AuthInit
    <2>4. /\ call = [c \in Calls |-> call[c]] /\ \A c \in Calls : call[c] = Away
          /\ sessions = {}
      BY <2>1 DEF AuthInit
    <2>5. QED
      BY <2>3, <2>4, CallAtRest DEF AuthInv, AuthTypes, OneAtWork
  <1>2. AuthInv /\ [AuthNext]_authVars => AuthInv'
    <2>1. SUFFICES ASSUME AuthInv, [AuthNext]_authVars PROVE AuthInv'
      OBVIOUS
    <2>2. CASE UNCHANGED authVars
      BY <2>1, <2>2 DEF authVars, AuthInv, AuthTypes, OneAtWork, Fresh, SessionAgrees, Exists
    <2>3. CASE AuthNext
      BY <2>1, <2>3, ReadingSteps, PinSteps, LoginAndElapseSteps DEF AuthNext, AuthStep
    <2>4. QED
      BY <2>1, <2>2, <2>3
  <1>3. AuthInv => SessionsFollowPin
    BY DEF AuthInv, AuthTypes, SessionsFollowPin, SessionAgrees, verifyToken
  <1>4. QED
    BY <1>1, <1>2, <1>3, PTL DEF AuthSpec
-------------------------------------------------------------------------------
(* Tables whose rows are numbered in order of creation.                     *)

\* A new row is the last one, and the others stay.
LEMMA AppendRow ==
    ASSUME NEW S, NEW s \in Seq(S), NEW r \in S, NEW t, t = Append(s, r)
    PROVE  /\ t \in Seq(S)
           /\ DOMAIN s = 1 .. Len(s) /\ Len(s) \in Nat /\ Len(s) + 1 \notin DOMAIN s
           /\ DOMAIN t = DOMAIN s \union {Len(s) + 1}
           /\ t[Len(s) + 1] = r
           /\ \A i \in DOMAIN s : t[i] = s[i]
  OBVIOUS
\* A row that is written is the only one to change.
LEMMA WriteRow ==
    ASSUME NEW S, NEW s \in Seq(S), NEW i \in DOMAIN s, NEW r \in S, NEW t,
           t = [s EXCEPT ![i] = r]
    PROVE  /\ t \in Seq(S)
           /\ DOMAIN t = DOMAIN s
           /\ t[i] = r
           /\ \A j \in DOMAIN s : j # i => t[j] = s[j]
  OBVIOUS
\* The numbers of rows start at one.
LEMMA RowNumbers ==
    ASSUME NEW S, NEW s \in Seq(S), NEW i \in DOMAIN s
    PROVE  s[i] \in S /\ i \in Nat /\ i # 0
  OBVIOUS
-------------------------------------------------------------------------------
(* Action items and the calendar events that remind of them.                *)

TaskSpec == TaskInit /\ [][TaskNext]_taskVars

DeskState ==
    [step: {"idle", "remind", "link", "complete", "check", "status", "sync"},
     by: Staff \union {Free.by}, item: Nat, event: Nat, to: CalendarEventStatus, related: Nat]
\* The rows a request refers to are there.
Refers(x) ==
    /\ x.step = "idle" => x = Free
    /\ x.item \in {NoId} \union DOMAIN items
    /\ x.event \in {NoId} \union DOMAIN events
    /\ x.related \in {NoId} \union DOMAIN items
    /\ x.step \in {"remind", "link", "complete"} => x.item # NoId
    /\ x.step \in {"link", "check", "status", "sync"} => x.event # NoId
    /\ x.step = "sync" => x.related # NoId
    /\ x.step \in {"status", "sync"} => x.related = events[x.event].relatedId
TaskTypes ==
    /\ items \in Seq(ActionItem) /\ events \in Seq(CalendarEvent) /\ halts \in Nat
    /\ desk \in [Desks -> DeskState]
    /\ \A d \in Desks : Refers(desk[d])
    /\ \A i \in DOMAIN items : items[i].calendarEventId \in {NoId} \union DOMAIN events
    /\ \A e \in DOMAIN events : events[e].relatedId \in {NoId} \union DOMAIN items

\* The event reminds the assignee of the item, when it was made to.
RemindsOf(e, i) ==
    /\ events[e].relatedId = i /\ events[e].there /\ events[e].startAt = 1
    /\ events[e].assignedTo = items[i].assignedTo
LinkedTo(i, e) == items[i].calendarEventId = e /\ e \in DOMAIN events /\ RemindsOf(e, i)
Alike(i) ==
    (items[i].status = "Completed") <=> Ended(events[items[i].calendarEventId].status)
May(a, i) == a = items[i].assignedTo \/ a \in Admins

\* What the two tables say while one request x is at work, or none when x is Free:
\* the item it creates has no reminder yet; one it completes may be ahead of its
\* event, and an event it ends ahead of its item.
Creating(x, i) == x.step \in {"remind", "link"} /\ x.item = i
Between(x, i) ==
    \/ x.step \in {"check", "status"} /\ x.item = i /\ items[i].status = "Completed"
    \/ x.step = "sync" /\ x.related = i
ItemSteady(x, i) ==
    IF Creating(x, i) THEN items[i].calendarEventId = NoId /\ items[i].status = "Open"
    ELSE /\ \E e \in DOMAIN events : LinkedTo(i, e)
         /\ Alike(i) \/ Between(x, i)
Duty(x) ==
    /\ x.step = "link" => RemindsOf(x.event, x.item) /\ events[x.event].status = "Scheduled"
    /\ x.step = "complete" \/ (x.step = "check" /\ x.item # NoId) =>
          x.event = items[x.item].calendarEventId /\ x.to = "Completed" /\ May(x.by, x.item)
    /\ x.step = "status" =>
          /\ x.related # NoId => (Ended(x.to) <=> items[x.related].calendarEventId = x.event)
          /\ x.item # NoId => x.item = x.related /\ x.to = "Completed"
    /\ x.step = "sync" => /\ items[x.related].calendarEventId = x.event
                          /\ Ended(events[x.event].status)
Steady(x) ==
    /\ \A i \in DOMAIN items : ItemSteady(x, i)
    /\ Duty(x)
AtWork(x) ==
    /\ \A d \in Desks : desk[d] # Free => desk[d] = x
    /\ x = Free \/ \E d \in Desks : desk[d] = x
OneDesk == \A c, d \in Desks : desk[c] # Free /\ desk[d] # Free => c = d
\* An end reaches the item that the event names.
EndsReach == \A e \in DOMAIN events : Ended(events[e].status) => Reached(events[e].relatedId)
TaskInv ==
    /\ TaskTypes
    /\ EndsReach
    /\ inStep => OneDesk /\ \E x : AtWork(x) /\ Steady(x)

\* The step of a request that is or becomes the only one at work.
LEMMA DeskMoves ==
    ASSUME TaskInv, TaskNext, NEW d \in Desks, NEW to, Turns(d, to), to \in DeskState,
           desk[d] # Free \/ to # Free, inStep'
    PROVE  Steady(desk[d]) /\ OneDesk' /\ AtWork(to)'
  <1>1. inStep /\ ~ApartNow /\ OneDesk
    BY DEF TaskNext, TaskInv
  <1>2. PICK x : AtWork(x) /\ Steady(x)
    BY <1>1 DEF TaskInv
  <1>3. desk \in [Desks -> DeskState] /\ desk' = [desk EXCEPT ![d] = to]
    BY DEF Turns, TaskInv, TaskTypes
  <1>4. desk'[d] = to /\ \A c \in Desks : c # d => desk'[c] = desk[c]
    BY <1>3
  <1>5. ASSUME NEW c \in Desks, c # d
        PROVE  desk[c] = Free /\ desk'[c] = Free
    <2>1. CASE desk[d] # Free
      BY <1>1, <1>4, <1>5, <2>1 DEF OneDesk
    <2>2. CASE to # Free
      BY <1>1, <1>4, <1>5, <2>2 DEF ApartNow
    <2>3. QED
      BY <2>1, <2>2
  <1>6. x = desk[d]
    BY <1>2, <1>5 DEF AtWork
  <1>7. OneDesk' /\ AtWork(to)'
    BY <1>4, <1>5 DEF OneDesk, AtWork
  <1>8. QED
    BY <1>2, <1>6, <1>7
\* An end goes on reaching its item: no item is opened again, and a request that
\* was about to complete one has, still is, or has lost it.
LEMMA EndsKeep ==
    ASSUME EndsReach, lost \subseteq lost', DOMAIN items \subseteq DOMAIN items',
           \A e \in DOMAIN events : events[e].relatedId \in {NoId} \union DOMAIN items,
           \A i \in DOMAIN items : items[i].status = "Completed" => items'[i].status = "Completed",
           \A d \in Syncing : LET i == desk[d].related
                              IN  \/ i \in lost' \/ items'[i].status = "Completed"
                                  \/ desk'[d] = desk[d],
           \A e \in DOMAIN events' : Ended(events'[e].status) =>
                \/ /\ e \in DOMAIN events /\ Ended(events[e].status)
                   /\ events'[e].relatedId = events[e].relatedId
                \/ events'[e].relatedId = NoId
                \/ \E d \in Desks : desk'[d].step = "sync" /\ desk'[d].related = events'[e].relatedId
    PROVE  EndsReach'
  <1>1. ASSUME NEW e \in DOMAIN events', Ended(events'[e].status), NEW i,
               i = events'[e].relatedId
        PROVE  Reached(i)'
    <2>1. CASE i = NoId
      BY <2>1 DEF Reached
    <2>2. CASE \E d \in Desks : desk'[d].step = "sync" /\ desk'[d].related = i
      BY <2>2 DEF Reached, Syncing, StepOf
    <2>3. CASE /\ e \in DOMAIN events /\ Ended(events[e].status) /\ i = events[e].relatedId
               /\ i # NoId
      <3>1. Reached(i) /\ i \in DOMAIN items
        BY <2>3 DEF EndsReach
      <3>2. CASE i \in lost \/ items[i].status = "Completed"
        BY <3>1, <3>2 DEF Reached
      <3>3. ASSUME NEW d \in Syncing, desk[d].related = i
            PROVE  Reached(i)'
        <4>1. i \in lost' \/ items'[i].status = "Completed" \/ desk'[d] = desk[d]
          BY <3>3
        <4>2. CASE desk'[d] = desk[d]
          BY <3>3, <4>2 DEF Reached, Syncing, StepOf
        <4>3. QED
          BY <4>1, <4>2 DEF Reached
      <3>4. QED
        BY <2>3, <3>1, <3>2, <3>3 DEF Reached
    <2>4. QED
      BY <1>1, <2>1, <2>2, <2>3
  <1>2. QED
    BY <1>1 DEF EndsReach

\* What is left to show of a request's step: the rows it writes and what it goes
\* on with.
LEMMA DeskStep ==
    ASSUME TaskInv, TaskNext, NEW d \in Desks, NEW to \in DeskState, Turns(d, to),
           desk[d] # Free \/ to # Free,
           items' \in Seq(ActionItem), events' \in Seq(CalendarEvent), UNCHANGED <<halts, lost>>,
           DOMAIN items \subseteq DOMAIN items', DOMAIN events \subseteq DOMAIN events',
           \A i \in DOMAIN items : items[i].status = "Completed" => items'[i].status = "Completed",
           desk[d].step = "sync" => items'[desk[d].related].status = "Completed",
           \A e \in DOMAIN events : events'[e].relatedId = events[e].relatedId,
           \A e \in DOMAIN events' : Ended(events'[e].status) =>
                \/ e \in DOMAIN events /\ Ended(events[e].status)
                \/ events'[e].relatedId = NoId
                \/ to.step = "sync" /\ to.related = events'[e].relatedId,
           \A i \in DOMAIN items' : items'[i].calendarEventId \in {NoId} \union DOMAIN events',
           \A e \in DOMAIN events' : events'[e].relatedId \in {NoId} \union DOMAIN items',
           Refers(to)',
           inStep' /\ Steady(desk[d]) => Steady(to)'
    PROVE  TaskInv'
  <1>1. desk \in [Desks -> DeskState] /\ desk' = [desk EXCEPT ![d] = to]
    BY DEF Turns, TaskInv, TaskTypes
  <1>2. desk' \in [Desks -> DeskState] /\ desk'[d] = to
    BY <1>1
  <1>3. ASSUME NEW c \in Desks
        PROVE  Refers(desk[c])'
    <2>1. CASE c = d
      BY <1>2, <2>1
    <2>2. CASE c # d
      <3>1. desk'[c] = desk[c] /\ Refers(desk[c])
        BY <1>1, <2>2 DEF TaskInv, TaskTypes
      <3>2. PICK x : x = desk[c]
        OBVIOUS
      <3>3. x.event # NoId => events'[x.event].relatedId = events[x.event].relatedId
        BY <3>1, <3>2 DEF Refers
      <3>4. Refers(x)'
        BY <3>1, <3>2, <3>3 DEF Refers
      <3>5. QED
        BY <3>1, <3>2, <3>4
    <2>3. QED
      BY <2>1, <2>2
  <1>4. halts' \in Nat
    BY DEF TaskInv, TaskTypes
  <1>5. TaskTypes'
    BY <1>2, <1>3, <1>4 DEF TaskTypes
  <1>6. inStep' => OneDesk' /\ AtWork(to)' /\ Steady(to)'
    BY DeskMoves
  <1>7. EndsReach'
    <2>1. ASSUME NEW c \in Syncing
          PROVE  items'[desk[c].related].status = "Completed" \/ desk'[c] = desk[c]
      BY <1>1, <2>1 DEF Syncing, StepOf
    <2>2. ASSUME NEW e \in DOMAIN events', Ended(events'[e].status)
          PROVE  \/ /\ e \in DOMAIN events /\ Ended(events[e].status)
                    /\ events'[e].relatedId = events[e].relatedId
                 \/ events'[e].relatedId = NoId
                 \/ \E c \in Desks : /\ desk'[c].step = "sync"
                                      /\ desk'[c].related = events'[e].relatedId
      BY <1>2, <2>2
    <2>3. /\ EndsReach /\ lost \subseteq lost'
          /\ \A e \in DOMAIN events : events[e].relatedId \in {NoId} \union DOMAIN items
      BY DEF TaskInv, TaskTypes
    <2>4. QED
      BY <2>1, <2>2, <2>3, EndsKeep
  <1>8. QED
    BY <1>5, <1>6, <1>7 DEF TaskInv

\* create: the item, its event and the link between them.
LEMMA CreateItemStep ==
    ASSUME TaskInv, TaskNext, NEW d \in Desks, NEW a, NEW u \in Staff, NEW timed \in BOOLEAN,
           CreateItem(d, a, u, timed)
    PROVE  TaskInv'
  <1>1. PICK n, item : n = Len(items) + 1 /\ item = [assignedTo |-> u, timed |-> timed,
                                                    status |-> "Open", calendarEventId |-> NoId]
    OBVIOUS
  <1>2. item \in ActionItem /\ item.calendarEventId = NoId /\ item.status = "Open"
    BY <1>1 DEF ActionItem, NoId
  <1>3. items \in Seq(ActionItem) /\ items' = Append(items, item)
    BY <1>1 DEF CreateItem, TaskInv, TaskTypes
  <1>4. /\ items' \in Seq(ActionItem) /\ n \notin DOMAIN items
        /\ DOMAIN items' = DOMAIN items \union {n} /\ items'[n] = item
        /\ \A i \in DOMAIN items : items'[i] = items[i]
    BY <1>1, <1>2, <1>3, AppendRow
  <1>5. n \in Nat /\ n # NoId
    BY <1>4, RowNumbers DEF NoId
  <1>6. UNCHANGED <<events, halts, lost>> /\ desk[d] = Free
    BY DEF CreateItem, StepOf, TaskInv, TaskTypes, Refers
  <1>7. PICK to : to = [Free EXCEPT !.step = "remind", !.item = n]
    OBVIOUS
  <1>8. /\ to.step = "remind" /\ to.item = n
        /\ to.event = NoId /\ to.related = NoId
        /\ to \in DeskState /\ to # Free
    BY <1>5, <1>7 DEF Free, DeskState, CalendarEventStatus, NoId
  <1>9. Turns(d, to)
    BY <1>1, <1>7 DEF CreateItem
  <1>10. Refers(to)'
    BY <1>4, <1>5, <1>8 DEF Refers
  <1>11. /\ \A i \in DOMAIN items' : items'[i].calendarEventId \in {NoId} \union DOMAIN events'
         /\ \A e \in DOMAIN events' : events'[e].relatedId \in {NoId} \union DOMAIN items'
         /\ events' \in Seq(CalendarEvent)
    BY <1>2, <1>4, <1>6 DEF TaskInv, TaskTypes
  <1>12. ASSUME Steady(desk[d])
         PROVE  Steady(to)'
    <2>1. Steady(Free)
      BY <1>6, <1>12
    <2>2. ASSUME NEW i \in DOMAIN items
          PROVE  ItemSteady(to, i)'
      <3>1. ItemSteady(Free, i) /\ items'[i] = items[i] /\ i # n
        BY <1>4, <2>1 DEF Steady
      <3>2. QED
        BY <1>6, <1>8, <3>1 DEF ItemSteady, Creating, Between, LinkedTo, RemindsOf, Alike, Free
    <2>3. ItemSteady(to, n)'
      BY <1>2, <1>4, <1>8 DEF ItemSteady, Creating
    <2>4. Duty(to)'
      BY <1>8 DEF Duty
    <2>5. QED
      BY <1>4, <2>2, <2>3, <2>4 DEF Steady
  <1>13. QED
    BY <1>4, <1>6, <1>8, <1>9, <1>10, <1>11, <1>12, DeskStep DEF Free

LEMMA CreateReminderStep ==
    ASSUME TaskInv, TaskNext, NEW d \in Desks, CreateReminder(d)
    PROVE  TaskInv'
  <1>1. PICK x, n, i : x = desk[d] /\ n = Len(events) + 1 /\ i = desk[d].item
    OBVIOUS
  <1>2. /\ x \in DeskState /\ x.step = "remind" /\ x.item = i /\ Refers(x)
        /\ i \in DOMAIN items
    BY <1>1 DEF CreateReminder, StepOf, TaskInv, TaskTypes, Refers
  <1>3. items \in Seq(ActionItem) /\ events \in Seq(CalendarEvent)
    BY DEF TaskInv, TaskTypes
  <1>4. items[i] \in ActionItem /\ i \in Nat /\ i # NoId
    BY <1>2, <1>3, RowNumbers DEF NoId
  <1>5. PICK event : event = [assignedTo |-> items[i].assignedTo, startAt |-> 1,
                              status |-> "Scheduled", relatedId |-> i, there |-> TRUE]
    OBVIOUS
  <1>6. /\ event \in CalendarEvent
        /\ event.assignedTo = items[i].assignedTo /\ event.startAt = 1
        /\ event.status = "Scheduled" /\ event.relatedId = i /\ event.there
    BY <1>4, <1>5 DEF CalendarEvent, ActionItem, CalendarEventStatus
  <1>7. events' = Append(events, event) /\ UNCHANGED <<items, halts, lost>>
    BY <1>1, <1>5 DEF CreateReminder
  <1>8. /\ events' \in Seq(CalendarEvent) /\ n \notin DOMAIN events
        /\ DOMAIN events' = DOMAIN events \union {n} /\ events'[n] = event
        /\ \A e \in DOMAIN events : events'[e] = events[e]
    BY <1>1, <1>3, <1>6, <1>7, AppendRow
  <1>9. n \in Nat /\ n # NoId
    BY <1>8, RowNumbers DEF NoId
  <1>10. PICK to : to = [x EXCEPT !.step = "link", !.event = n]
    OBVIOUS
  <1>11. /\ to.step = "link" /\ to.item = i /\ to.event = n /\ to.related = x.related
         /\ to \in DeskState
    BY <1>2, <1>9, <1>10 DEF DeskState
  <1>12. Turns(d, to) /\ desk[d] # Free
    BY <1>1, <1>2, <1>10 DEF CreateReminder, Free
  <1>13. Refers(to)'
    BY <1>2, <1>4, <1>7, <1>8, <1>9, <1>11 DEF Refers
  <1>14. /\ \A j \in DOMAIN items' : items'[j].calendarEventId \in {NoId} \union DOMAIN events'
         /\ \A e \in DOMAIN events' : events'[e].relatedId \in {NoId} \union DOMAIN items'
    BY <1>2, <1>6, <1>7, <1>8 DEF TaskInv, TaskTypes
  <1>15. ASSUME Steady(x)
         PROVE  Steady(to)'
    <2>1. ASSUME NEW j \in DOMAIN items
          PROVE  ItemSteady(to, j)'
      <3>1. ItemSteady(x, j)
        BY <1>15 DEF Steady
      <3>2. CASE j = i
        BY <1>2, <1>7, <1>11, <3>1, <3>2 DEF ItemSteady, Creating
      <3>3. CASE j # i
        <4>1. PICK e \in DOMAIN events : LinkedTo(j, e) /\ Alike(j)
          BY <1>2, <3>1, <3>3 DEF ItemSteady, Creating, Between
        <4>2. LinkedTo(j, e)' /\ Alike(j)' /\ e \in DOMAIN events'
          BY <1>7, <1>8, <4>1 DEF LinkedTo, RemindsOf, Alike
        <4>3. QED
          BY <1>11, <3>3, <4>2 DEF ItemSteady, Creating
      <3>4. QED
        BY <3>2, <3>3
    <2>2. Duty(to)'
      BY <1>6, <1>7, <1>8, <1>11 DEF Duty, RemindsOf
    <2>3. QED
      BY <1>7, <2>1, <2>2 DEF Steady
  <1>16. \A e \in DOMAIN events' : Ended(events'[e].status) =>
            e \in DOMAIN events /\ Ended(events[e].status)
    BY <1>6, <1>8 DEF Ended
  <1>17. QED
    BY <1>1, <1>2, <1>3, <1>7, <1>8, <1>11, <1>12, <1>13, <1>14, <1>15, <1>16, DeskStep
\* While nobody creates an item, every item has its event; and a request at rest
\* keeps nothing waiting.
LEMMA SteadyAtRest ==
    ASSUME Steady(Free), TaskTypes, NEW i \in DOMAIN items
    PROVE  i # NoId /\ Alike(i) /\ \E e \in DOMAIN events : LinkedTo(i, e)
  <1>1. ItemSteady(Free, i)
    BY DEF Steady
  <1>2. ~Creating(Free, i) /\ ~Between(Free, i)
    BY DEF Creating, Between, Free
  <1>3. i # NoId
    BY RowNumbers DEF NoId, TaskTypes
  <1>4. QED
    BY <1>1, <1>2, <1>3 DEF ItemSteady

LEMMA LinkReminderStep ==
    ASSUME TaskInv, TaskNext, NEW d \in Desks, LinkReminder(d)
    PROVE  TaskInv'
  <1>1. PICK x, e, i : x = desk[d] /\ e = desk[d].event /\ i = desk[d].item
    OBVIOUS
  <1>2. /\ x \in DeskState /\ x.step = "link" /\ x.item = i /\ x.event = e /\ Refers(x)
        /\ i \in DOMAIN items /\ e \in DOMAIN events
    BY <1>1 DEF LinkReminder, StepOf, TaskInv, TaskTypes, Refers
  <1>3. items \in Seq(ActionItem) /\ events \in Seq(CalendarEvent)
    BY DEF TaskInv, TaskTypes
  <1>4. items[i] \in ActionItem /\ i # NoId /\ e \in Nat /\ e # NoId
    BY <1>2, <1>3, RowNumbers DEF NoId
  <1>5. PICK item : item = [items[i] EXCEPT !.calendarEventId = e]
    OBVIOUS
  <1>6. /\ item \in ActionItem /\ item.calendarEventId = e /\ item.status = items[i].status
        /\ item.assignedTo = items[i].assignedTo
    BY <1>4, <1>5 DEF ActionItem
  <1>7. items' = [items EXCEPT ![i] = item] /\ UNCHANGED <<events, halts, lost>>
    BY <1>1, <1>5 DEF LinkReminder
  <1>8. /\ items' \in Seq(ActionItem) /\ DOMAIN items' = DOMAIN items /\ items'[i] = item
        /\ \A j \in DOMAIN items : j # i => items'[j] = items[j]
    BY <1>2, <1>3, <1>6, <1>7, WriteRow
  <1>9. Free \in DeskState /\ Refers(Free)' /\ Turns(d, Free) /\ desk[d] # Free
    BY <1>1, <1>2 DEF LinkReminder, Free, DeskState, Refers, CalendarEventStatus, NoId
  <1>10. /\ \A j \in DOMAIN items' : items'[j].calendarEventId \in {NoId} \union DOMAIN events'
         /\ \A f \in DOMAIN events' : events'[f].relatedId \in {NoId} \union DOMAIN items'
    BY <1>2, <1>6, <1>7, <1>8 DEF TaskInv, TaskTypes
  <1>11. ASSUME Steady(x)
         PROVE  Steady(Free)'
    <2>1. RemindsOf(e, i) /\ events[e].status = "Scheduled"
      BY <1>2, <1>11 DEF Steady, Duty
    <2>2. items[i].status = "Open" /\ items[i].calendarEventId = NoId
      BY <1>2, <1>11 DEF Steady, ItemSteady, Creating
    <2>3. ASSUME NEW j \in DOMAIN items
          PROVE  ItemSteady(Free, j)'
      <3>1. CASE j = i
        <4>1. LinkedTo(i, e)' /\ Alike(i)' /\ e \in DOMAIN events'
          BY <1>2, <1>6, <1>7, <1>8, <2>1, <2>2 DEF LinkedTo, RemindsOf, Alike, Ended
        <4>2. QED
          BY <3>1, <4>1 DEF ItemSteady, Creating, Free
      <3>2. CASE j # i
        <4>1. PICK f \in DOMAIN events : LinkedTo(j, f) /\ Alike(j)
          BY <1>2, <1>11, <3>2 DEF Steady, ItemSteady, Creating, Between
        <4>2. LinkedTo(j, f)' /\ Alike(j)' /\ f \in DOMAIN events'
          BY <1>7, <1>8, <3>2, <4>1 DEF LinkedTo, RemindsOf, Alike
        <4>3. QED
          BY <4>2 DEF ItemSteady, Creating, Free
      <3>3. QED
        BY <3>1, <3>2
    <2>4. Duty(Free)'
      BY DEF Duty, Free
    <2>5. QED
      BY <1>7, <1>8, <2>3, <2>4 DEF Steady
  <1>12. \A j \in DOMAIN items : items[j].status = "Completed" => items'[j].status = "Completed"
    BY <1>6, <1>8
  <1>13. QED
    BY <1>1, <1>2, <1>3, <1>7, <1>8, <1>9, <1>10, <1>11, <1>12, DeskStep

\* A step that only changes what the request is doing.
LEMMA DeskOnlyStep ==
    ASSUME TaskInv, TaskNext, NEW d \in Desks, NEW to \in DeskState, Turns(d, to),
           desk[d] # Free \/ to # Free, Refers(to), UNCHANGED <<items, events, halts, lost>>,
           desk[d].step # "sync", inStep' /\ Steady(desk[d]) => Steady(to)
    PROVE  TaskInv'
  <1>1. Refers(to)'
    BY DEF Refers
  <1>2. Steady(to) => Steady(to)'
    BY DEF Steady, ItemSteady, Creating, Between, LinkedTo, RemindsOf, Alike,
       Duty, May
  <1>3. /\ items' \in Seq(ActionItem) /\ events' \in Seq(CalendarEvent)
        /\ DOMAIN items \subseteq DOMAIN items' /\ DOMAIN events \subseteq DOMAIN events'
        /\ \A i \in DOMAIN items' : items'[i].calendarEventId \in {NoId} \union DOMAIN events'
        /\ \A e \in DOMAIN events' : events'[e].relatedId \in {NoId} \union DOMAIN items'
    BY DEF TaskInv, TaskTypes
  <1>4. QED
    BY <1>1, <1>2, <1>3, DeskStep
\* complete and setStatus before they write: nothing else is at work, and what
\* was read of the event is what it says.
LEMMA BeginSteps ==
    ASSUME TaskInv, TaskNext, NEW d \in Desks, NEW a \in Staff,
           \/ \E i \in DOMAIN items : ReadItem(d, a, i)
           \/ \E e \in DOMAIN events, to \in CalendarEventStatus : CallSetStatus(d, a, e, to)
    PROVE  TaskInv'
  <1>1. UNCHANGED <<items, events, halts, lost>> /\ desk[d] = Free /\ desk[d].step # "sync"
    BY DEF Free, ReadItem, CallSetStatus, StepOf, TaskInv, TaskTypes, Refers
  <1>2. TaskTypes
    BY DEF TaskInv
  <1>3. ASSUME NEW i \in DOMAIN items, ReadItem(d, a, i)
        PROVE  TaskInv'
    <2>1. PICK e : e = items[i].calendarEventId
      OBVIOUS
    <2>2. PICK x : x = [Free EXCEPT !.step = "complete", !.by = a, !.item = i,
                                    !.event = e, !.to = "Completed"]
      OBVIOUS
    <2>3. i \in Nat /\ i # NoId /\ e \in {NoId} \union DOMAIN events /\ e \in Nat
      <3>1. i \in Nat /\ i # NoId /\ e \in {NoId} \union DOMAIN events
        BY <1>2, <2>1, RowNumbers DEF NoId, TaskTypes
      <3>2. \A f \in DOMAIN events : f \in Nat
        BY <1>2, RowNumbers DEF TaskTypes
      <3>3. QED
        BY <3>1, <3>2 DEF NoId
    <2>4. /\ x.step = "complete" /\ x.by = a /\ x.item = i /\ x.event = e /\ x.to = "Completed"
          /\ x.related = NoId /\ x \in DeskState /\ x # Free
      BY <2>2, <2>3 DEF Free, DeskState, CalendarEventStatus, NoId
    <2>5. Refers(x) /\ Turns(d, x)
      BY <1>3, <2>1, <2>2, <2>3, <2>4 DEF Refers, ReadItem
    <2>6. May(a, i)
      BY <1>3 DEF ReadItem, May
    <2>7. ASSUME Steady(Free)
          PROVE  Steady(x)
      <3>1. \A j \in DOMAIN items : ItemSteady(x, j)
        BY <1>2, <2>4, <2>7, SteadyAtRest DEF ItemSteady, Creating
      <3>2. Duty(x)
        BY <2>1, <2>4, <2>6 DEF Duty
      <3>3. QED
        BY <3>1, <3>2 DEF Steady
    <2>8. QED
      BY <1>1, <2>4, <2>5, <2>7, DeskOnlyStep
  <1>4. ASSUME NEW e \in DOMAIN events, NEW to \in CalendarEventStatus, CallSetStatus(d, a, e, to)
        PROVE  TaskInv'
    <2>1. PICK x : x = [Free EXCEPT !.step = "check", !.by = a, !.event = e, !.to = to]
      OBVIOUS
    <2>2. e \in Nat /\ e # NoId
      BY <1>2, RowNumbers DEF NoId, TaskTypes
    <2>3. /\ x.step = "check" /\ x.item = NoId /\ x.event = e /\ x.related = NoId
          /\ x \in DeskState /\ x # Free
      BY <2>1, <2>2 DEF Free, DeskState, CalendarEventStatus, NoId
    <2>4. Refers(x) /\ Turns(d, x)
      BY <1>4, <2>1, <2>2, <2>3 DEF Refers, CallSetStatus
    <2>5. ASSUME Steady(Free)
          PROVE  Steady(x)
      <3>1. \A j \in DOMAIN items : ItemSteady(x, j)
        BY <1>2, <2>3, <2>5, SteadyAtRest DEF ItemSteady, Creating
      <3>2. Duty(x)
        BY <2>3 DEF Duty
      <3>3. QED
        BY <3>1, <3>2 DEF Steady
    <2>6. QED
      BY <1>1, <2>3, <2>4, <2>5, DeskOnlyStep
  <1>5. QED
    BY <1>3, <1>4

LEMMA ReadEventStep ==
    ASSUME TaskInv, TaskNext, NEW d \in Desks, ReadEvent(d)
    PROVE  TaskInv'
  <1>1. PICK x, e : x = desk[d] /\ e = desk[d].event
    OBVIOUS
  <1>2. /\ x \in DeskState /\ x.step = "check" /\ x.event = e /\ Refers(x)
        /\ e \in DOMAIN events /\ x # Free /\ x.item \in {NoId} \union DOMAIN items
    BY <1>1 DEF ReadEvent, StepOf, TaskInv, TaskTypes, Refers, Free
  <1>3. TaskTypes /\ UNCHANGED <<items, events, halts, lost>>
    BY DEF TaskInv, ReadEvent
  <1>4. ASSUME Steady(x), NEW j \in DOMAIN items
        PROVE  /\ j # NoId /\ \E f \in DOMAIN events : LinkedTo(j, f)
               /\ Alike(j) \/ (x.item = j /\ items[j].status = "Completed")
    <2>1. j # NoId
      BY <1>3, RowNumbers DEF NoId, TaskTypes
    <2>2. QED
      BY <1>2, <1>4, <2>1 DEF Steady, ItemSteady, Creating, Between
  <1>5. ASSUME Steady(x), x.item # NoId
        PROVE  /\ LinkedTo(x.item, e) /\ x.to = "Completed"
               /\ events[e].there /\ canModify(x.by, e) /\ events[e].relatedId = x.item
    <2>1. x.item \in DOMAIN items
      BY <1>2, <1>5
    <2>2. PICK f \in DOMAIN events : LinkedTo(x.item, f)
      BY <1>4, <1>5, <2>1
    <2>3. e = items[x.item].calendarEventId /\ x.to = "Completed" /\ May(x.by, x.item)
      BY <1>2, <1>5 DEF Steady, Duty
    <2>4. QED
      BY <2>2, <2>3 DEF LinkedTo, RemindsOf, May, canModify
  <1>7. CASE events[e].there /\ canModify(x.by, e)
    <2>1. PICK r : r = events[e].relatedId
      OBVIOUS
    <2>2. r \in {NoId} \union DOMAIN items /\ r \in Nat
      <3>1. \A i \in DOMAIN items : i \in Nat
        BY <1>3, RowNumbers DEF TaskTypes
      <3>2. QED
        BY <1>2, <1>3, <2>1, <3>1 DEF TaskTypes, NoId
    <2>3. PICK to : to = [x EXCEPT !.step = "status", !.related = r]
      OBVIOUS
    <2>4. /\ to.step = "status" /\ to.item = x.item /\ to.event = e /\ to.related = r
          /\ to.to = x.to /\ to \in DeskState
      BY <1>2, <2>2, <2>3 DEF DeskState
    <2>5. Refers(to) /\ Turns(d, to)
      BY <1>1, <1>2, <1>7, <2>1, <2>2, <2>3, <2>4 DEF Refers, ReadEvent
    <2>6. ASSUME inStep', Steady(x)
          PROVE  Steady(to)
      <3>1. \A j \in DOMAIN items : ItemSteady(to, j)
        BY <1>4, <2>4, <2>6 DEF ItemSteady, Creating, Between
      <3>2. r # NoId => (Ended(to.to) <=> items[r].calendarEventId = e)
        <4>1. desk'[d] = to
          BY <2>5 DEF Turns, TaskInv, TaskTypes
        <4>2. ~ApartNow
          BY <2>6 DEF TaskNext
        <4>3. QED
          BY <2>4, <4>1, <4>2 DEF ApartNow
      <3>3. Duty(to)
        BY <1>5, <2>1, <2>4, <2>6, <3>2 DEF Duty
      <3>4. QED
        BY <3>1, <3>3 DEF Steady
    <2>7. QED
      BY <1>1, <1>2, <1>3, <2>4, <2>5, <2>6, DeskOnlyStep
  <1>8. CASE ~(events[e].there /\ canModify(x.by, e))
    <2>1. Free \in DeskState /\ Refers(Free) /\ Turns(d, Free)
      BY <1>1, <1>8 DEF ReadEvent, Free, DeskState, Refers, CalendarEventStatus, NoId
    <2>2. ASSUME Steady(x)
          PROVE  Steady(Free)
      <3>1. x.item = NoId
        BY <1>5, <1>8, <2>2
      <3>2. \A j \in DOMAIN items : ItemSteady(Free, j)
        BY <1>4, <2>2, <3>1 DEF ItemSteady, Creating, Free
      <3>3. Duty(Free)
        BY DEF Duty, Free
      <3>4. QED
        BY <3>2, <3>3 DEF Steady
    <2>3. QED
      BY <1>1, <1>2, <1>3, <2>1, <2>2, DeskOnlyStep
  <1>9. QED
    BY <1>7, <1>8
LEMMA CompleteItemStep ==
    ASSUME TaskInv, TaskNext, NEW d \in Desks, CompleteItem(d)
    PROVE  TaskInv'
  <1>1. PICK x, i : x = desk[d] /\ i = desk[d].item
    OBVIOUS
  <1>2. /\ x \in DeskState /\ x.step = "complete" /\ x.item = i /\ Refers(x)
        /\ i \in DOMAIN items /\ x # Free
    BY <1>1 DEF CompleteItem, StepOf, TaskInv, TaskTypes, Refers, Free
  <1>3. items \in Seq(ActionItem) /\ events \in Seq(CalendarEvent)
    BY DEF TaskInv, TaskTypes
  <1>4. items[i] \in ActionItem
    BY <1>2, <1>3, RowNumbers
  <1>5. PICK item : item = [items[i] EXCEPT !.status = "Completed"]
    OBVIOUS
  <1>6. /\ item \in ActionItem /\ item.status = "Completed"
        /\ item.calendarEventId = items[i].calendarEventId
        /\ item.assignedTo = items[i].assignedTo
    BY <1>4, <1>5 DEF ActionItem
  <1>7. items' = [items EXCEPT ![i] = item] /\ UNCHANGED <<events, halts, lost>>
    BY <1>1, <1>5 DEF CompleteItem
  <1>8. /\ items' \in Seq(ActionItem) /\ DOMAIN items' = DOMAIN items /\ items'[i] = item
        /\ \A j \in DOMAIN items : j # i => items'[j] = items[j]
    BY <1>2, <1>3, <1>6, <1>7, WriteRow
  <1>9. PICK to : to = IF x.event = NoId THEN Free ELSE [x EXCEPT !.step = "check"]
    OBVIOUS
  <1>10. /\ to \in DeskState
         /\ x.event # NoId => /\ to.step = "check" /\ to.item = i /\ to.event = x.event
                              /\ to.to = x.to /\ to.by = x.by /\ to.related = x.related
    BY <1>2, <1>9 DEF DeskState, Free, CalendarEventStatus, NoId
  <1>11. Turns(d, to)
    BY <1>1, <1>9 DEF CompleteItem
  <1>12. Refers(to)'
    BY <1>2, <1>7, <1>8, <1>9, <1>10 DEF Refers, Free, NoId
  <1>13. /\ \A j \in DOMAIN items' : items'[j].calendarEventId \in {NoId} \union DOMAIN events'
         /\ \A f \in DOMAIN events' : events'[f].relatedId \in {NoId} \union DOMAIN items'
    BY <1>2, <1>6, <1>7, <1>8 DEF TaskInv, TaskTypes
  <1>14. \A j \in DOMAIN items : /\ items'[j].calendarEventId = items[j].calendarEventId
                                 /\ items'[j].assignedTo = items[j].assignedTo
    BY <1>6, <1>8
  <1>15. ASSUME Steady(x)
         PROVE  Steady(to)'
    <2>1. ASSUME NEW j \in DOMAIN items
          PROVE  \E f \in DOMAIN events : LinkedTo(j, f)
      BY <1>2, <1>15 DEF Steady, ItemSteady, Creating
    <2>2. x.event = items[i].calendarEventId /\ x.to = "Completed" /\ May(x.by, i)
      BY <1>2, <1>15 DEF Steady, Duty
    <2>3. x.event # NoId
      <3>1. PICK f \in DOMAIN events : LinkedTo(i, f)
        BY <1>2, <2>1
      <3>2. f # NoId
        BY <1>3, RowNumbers DEF NoId
      <3>3. QED
        BY <2>2, <3>1, <3>2 DEF LinkedTo
    <2>4. ASSUME NEW j \in DOMAIN items
          PROVE  ItemSteady(to, j)'
      <3>1. PICK f \in DOMAIN events : LinkedTo(j, f)
        BY <2>1
      <3>2. LinkedTo(j, f)' /\ f \in DOMAIN events'
        BY <1>7, <1>14, <3>1 DEF LinkedTo, RemindsOf
      <3>3. Alike(j)' \/ Between(to, j)'
        <4>1. CASE j = i
          BY <1>6, <1>8, <1>10, <2>3, <4>1 DEF Between
        <4>2. CASE j # i
          <5>1. Alike(j)
            BY <1>2, <1>15 DEF Steady, ItemSteady, Creating, Between
          <5>2. QED
            BY <1>7, <1>8, <4>2, <5>1 DEF Alike
        <4>3. QED
          BY <4>1, <4>2
      <3>4. QED
        BY <1>10, <2>3, <3>2, <3>3 DEF ItemSteady, Creating
    <2>5. Duty(to)'
      BY <1>2, <1>10, <1>14, <2>2, <2>3 DEF Duty, May
    <2>6. QED
      BY <1>7, <1>8, <2>4, <2>5 DEF Steady
  <1>16. \A j \in DOMAIN items : items[j].status = "Completed" => items'[j].status = "Completed"
    BY <1>6, <1>8
  <1>17. QED
    BY <1>1, <1>2, <1>3, <1>7, <1>8, <1>10, <1>11, <1>12, <1>13, <1>15, <1>16, DeskStep

LEMMA SetStatusStep ==
    ASSUME TaskInv, TaskNext, NEW d \in Desks, SetStatus(d)
    PROVE  TaskInv'
  <1>1. PICK x, e, r : x = desk[d] /\ e = desk[d].event /\ r = desk[d].related
    OBVIOUS
  <1>2. /\ x \in DeskState /\ x.step = "status" /\ x.event = e /\ x.related = r /\ Refers(x)
        /\ e \in DOMAIN events /\ r \in {NoId} \union DOMAIN items /\ x # Free
    BY <1>1 DEF SetStatus, StepOf, TaskInv, TaskTypes, Refers, Free
  <1>3. items \in Seq(ActionItem) /\ events \in Seq(CalendarEvent)
    BY DEF TaskInv, TaskTypes
  <1>4. events[e] \in CalendarEvent /\ x.to \in CalendarEventStatus
    BY <1>2, <1>3, RowNumbers DEF DeskState
  <1>5. PICK event : event = [events[e] EXCEPT !.status = x.to]
    OBVIOUS
  <1>6. /\ event \in CalendarEvent /\ event.status = x.to
        /\ event.relatedId = events[e].relatedId /\ event.there = events[e].there
        /\ event.startAt = events[e].startAt /\ event.assignedTo = events[e].assignedTo
    BY <1>4, <1>5 DEF CalendarEvent
  <1>7. events' = [events EXCEPT ![e] = event] /\ UNCHANGED <<items, halts, lost>>
    BY <1>1, <1>5 DEF SetStatus
  <1>8. /\ events' \in Seq(CalendarEvent) /\ DOMAIN events' = DOMAIN events
        /\ events'[e] = event /\ \A f \in DOMAIN events : f # e => events'[f] = events[f]
    BY <1>2, <1>3, <1>6, <1>7, WriteRow
  <1>9. \A f \in DOMAIN events :
          /\ events'[f].relatedId = events[f].relatedId /\ events'[f].there = events[f].there
          /\ events'[f].startAt = events[f].startAt
          /\ events'[f].assignedTo = events[f].assignedTo
    BY <1>6, <1>8
  <1>10. PICK to : to = IF r # NoId /\ Ended(x.to) THEN [x EXCEPT !.step = "sync"] ELSE Free
    OBVIOUS
  <1>11. /\ to \in DeskState
         /\ r # NoId /\ Ended(x.to) => /\ to.step = "sync" /\ to.item = x.item /\ to.event = e
                                       /\ to.to = x.to /\ to.related = r
         /\ ~(r # NoId /\ Ended(x.to)) => to = Free
    BY <1>2, <1>10 DEF DeskState, Free, CalendarEventStatus, NoId
  <1>12. Turns(d, to)
    BY <1>1, <1>10 DEF SetStatus
  <1>13. Refers(to)'
    <2>1. CASE r # NoId /\ Ended(x.to)
      <3>1. /\ to.step = "sync" /\ to.item = x.item /\ to.event = e /\ to.related = r
            /\ e # NoId /\ r = events'[e].relatedId
        BY <1>2, <1>9, <1>11, <2>1 DEF Refers
      <3>2. QED
        BY <1>2, <1>7, <1>8, <2>1, <3>1 DEF Refers
    <2>2. CASE ~(r # NoId /\ Ended(x.to))
      BY <1>11, <2>2 DEF Refers, Free, NoId
    <2>3. QED
      BY <2>1, <2>2
  <1>14. /\ \A j \in DOMAIN items' : items'[j].calendarEventId \in {NoId} \union DOMAIN events'
         /\ \A f \in DOMAIN events' : events'[f].relatedId \in {NoId} \union DOMAIN items'
    BY <1>7, <1>8, <1>9 DEF TaskInv, TaskTypes
  <1>15. ASSUME Steady(x)
         PROVE  Steady(to)'
    <2>1. /\ r = events[e].relatedId
          /\ r # NoId => (Ended(x.to) <=> items[r].calendarEventId = e)
          /\ x.item # NoId => x.item = r /\ Ended(x.to)
      BY <1>2, <1>15 DEF Steady, Duty, Refers, Ended
    <2>2. to.step \in {"sync", "idle"}
      BY <1>11 DEF Free
    <2>3. ASSUME NEW j \in DOMAIN items
          PROVE  ItemSteady(to, j)'
      <3>1. PICK f \in DOMAIN events : LinkedTo(j, f)
        BY <1>2, <1>15 DEF Steady, ItemSteady, Creating
      <3>2. LinkedTo(j, f)' /\ f \in DOMAIN events'
        BY <1>7, <1>8, <1>9, <3>1 DEF LinkedTo, RemindsOf
      <3>3. j # NoId
        BY <1>3, RowNumbers DEF NoId
      <3>4. Alike(j)' \/ Between(to, j)'
        <4>1. CASE j = r /\ Ended(x.to)
          BY <1>6, <1>8, <1>11, <3>3, <4>1 DEF Between
        <4>2. CASE ~(j = r /\ Ended(x.to))
          <5>1. Alike(j)
            BY <1>2, <1>15, <2>1, <3>3, <4>2 DEF Steady, ItemSteady, Creating, Between
          <5>2. f # e
            BY <2>1, <3>1, <3>3, <4>2 DEF LinkedTo, RemindsOf
          <5>3. QED
            BY <1>7, <1>8, <3>1, <5>1, <5>2 DEF Alike, LinkedTo
        <4>3. QED
          BY <4>1, <4>2
      <3>5. QED
        BY <2>2, <3>2, <3>4 DEF ItemSteady, Creating
    <2>4. Duty(to)'
      <3>1. CASE r # NoId /\ Ended(x.to)
        <4>1. /\ to.step = "sync" /\ to.event = e /\ to.related = r
              /\ items'[r].calendarEventId = e /\ Ended(events'[e].status)
          BY <1>6, <1>7, <1>8, <1>11, <2>1, <3>1
        <4>2. QED
          BY <4>1 DEF Duty
      <3>2. CASE ~(r # NoId /\ Ended(x.to))
        BY <1>11, <3>2 DEF Duty, Free
      <3>3. QED
        BY <3>1, <3>2
    <2>5. QED
      BY <1>7, <1>8, <2>3, <2>4 DEF Steady
  <1>16. ASSUME NEW f \in DOMAIN events', Ended(events'[f].status)
         PROVE  \/ f \in DOMAIN events /\ Ended(events[f].status)
                \/ events'[f].relatedId = NoId
                \/ to.step = "sync" /\ to.related = events'[f].relatedId
    <2>1. CASE f = e
      <3>1. Ended(x.to) /\ events'[e].relatedId = r
        BY <1>2, <1>6, <1>8, <1>16, <2>1 DEF Refers
      <3>2. QED
        BY <1>11, <2>1, <3>1
    <2>2. CASE f # e
      BY <1>8, <1>16, <2>2
    <2>3. QED
      BY <2>1, <2>2
  <1>17. QED
    BY <1>1, <1>2, <1>3, <1>7, <1>8, <1>9, <1>11, <1>12, <1>13, <1>14, <1>15, <1>16, DeskStep

LEMMA SyncItemStep ==
    ASSUME TaskInv, TaskNext, NEW d \in Desks, SyncItem(d)
    PROVE  TaskInv'
  <1>1. PICK x, e, r : x = desk[d] /\ e = desk[d].event /\ r = desk[d].related
    OBVIOUS
  <1>2. /\ x \in DeskState /\ x.step = "sync" /\ x.event = e /\ x.related = r /\ Refers(x)
        /\ e \in DOMAIN events /\ r \in DOMAIN items /\ x # Free
    BY <1>1 DEF SyncItem, StepOf, TaskInv, TaskTypes, Refers, Free
  <1>3. items \in Seq(ActionItem) /\ events \in Seq(CalendarEvent)
    BY DEF TaskInv, TaskTypes
  <1>4. items[r] \in ActionItem /\ r # NoId
    BY <1>2, <1>3, RowNumbers DEF NoId
  <1>5. PICK item : item = [items[r] EXCEPT !.status = "Completed"]
    OBVIOUS
  <1>6. /\ item \in ActionItem /\ item.status = "Completed"
        /\ item.calendarEventId = items[r].calendarEventId
        /\ item.assignedTo = items[r].assignedTo
    BY <1>4, <1>5 DEF ActionItem
  <1>7. /\ items' = [items EXCEPT ![r] = item]
        /\ UNCHANGED <<events, halts, lost>> /\ Turns(d, Free)
    BY <1>1, <1>5 DEF SyncItem
  <1>8. /\ items' \in Seq(ActionItem) /\ DOMAIN items' = DOMAIN items /\ items'[r] = item
        /\ \A j \in DOMAIN items : j # r => items'[j] = items[j]
    BY <1>2, <1>3, <1>6, <1>7, WriteRow
  <1>9. \A j \in DOMAIN items : /\ items'[j].calendarEventId = items[j].calendarEventId
                                /\ items'[j].assignedTo = items[j].assignedTo
    BY <1>6, <1>8
  <1>10. Free \in DeskState /\ Refers(Free)'
    BY DEF Free, DeskState, Refers, CalendarEventStatus, NoId
  <1>11. /\ \A j \in DOMAIN items' : items'[j].calendarEventId \in {NoId} \union DOMAIN events'
         /\ \A f \in DOMAIN events' : events'[f].relatedId \in {NoId} \union DOMAIN items'
    BY <1>7, <1>8, <1>9 DEF TaskInv, TaskTypes
  <1>12. ASSUME Steady(x)
         PROVE  Steady(Free)'
    <2>1. items[r].calendarEventId = e /\ Ended(events[e].status)
      BY <1>2, <1>12 DEF Steady, Duty
    <2>2. ASSUME NEW j \in DOMAIN items
          PROVE  ItemSteady(Free, j)'
      <3>1. PICK f \in DOMAIN events : LinkedTo(j, f)
        BY <1>2, <1>12 DEF Steady, ItemSteady, Creating
      <3>2. LinkedTo(j, f)' /\ f \in DOMAIN events'
        BY <1>7, <1>9, <3>1 DEF LinkedTo, RemindsOf
      <3>3. Alike(j)'
        <4>1. CASE j = r
          <5>1. items'[r].calendarEventId = e /\ events' = events
            BY <1>2, <1>7, <1>9, <2>1
          <5>2. QED
            BY <1>6, <1>8, <2>1, <4>1, <5>1 DEF Alike
        <4>2. CASE j # r
          <5>1. Alike(j)
            BY <1>2, <1>12, <4>2 DEF Steady, ItemSteady, Creating, Between
          <5>2. QED
            BY <1>7, <1>8, <4>2, <5>1 DEF Alike
        <4>3. QED
          BY <4>1, <4>2
      <3>4. QED
        BY <3>2, <3>3 DEF ItemSteady, Creating, Free
    <2>3. Duty(Free)'
      BY DEF Duty, Free
    <2>4. QED
      BY <1>7, <1>8, <2>2, <2>3 DEF Steady
  <1>13. \A j \in DOMAIN items : items[j].status = "Completed" => items'[j].status = "Completed"
    BY <1>6, <1>8
  <1>14. items'[r].status = "Completed"
    BY <1>6, <1>8
  <1>15. QED
    BY <1>1, <1>2, <1>3, <1>7, <1>8, <1>10, <1>11, <1>12, <1>13, <1>14, DeskStep
\* The steps of nobody at work.
LEMMA CreateEventStep ==
    ASSUME TaskInv, TaskNext, NEW u \in Staff, NEW about \in {NoId} \union DOMAIN items,
           CreateEvent(u, about)
    PROVE  TaskInv'
  <1>1. PICK n, event : n = Len(events) + 1 /\
              event = [assignedTo |-> u, startAt |-> 1, status |-> "Scheduled",
                       relatedId |-> about, there |-> TRUE]
    OBVIOUS
  <1>2. items \in Seq(ActionItem) /\ events \in Seq(CalendarEvent)
    BY DEF TaskInv, TaskTypes
  <1>3. about \in Nat
    BY <1>2, RowNumbers DEF NoId
  <1>4. event \in CalendarEvent /\ event.relatedId = about /\ event.status = "Scheduled"
    BY <1>1, <1>3 DEF CalendarEvent, CalendarEventStatus
  <1>5. events' = Append(events, event) /\ UNCHANGED <<items, desk, halts, lost>>
    BY <1>1 DEF CreateEvent
  <1>6. /\ events' \in Seq(CalendarEvent) /\ n \notin DOMAIN events
        /\ DOMAIN events' = DOMAIN events \union {n} /\ events'[n] = event
        /\ \A e \in DOMAIN events : events'[e] = events[e]
    BY <1>1, <1>2, <1>4, <1>5, AppendRow
  <1>7. TaskTypes'
    <2>1. ASSUME NEW d \in Desks
          PROVE  Refers(desk[d])'
      <3>1. PICK x : x = desk[d]
        OBVIOUS
      <3>2. Refers(x)
        BY <3>1 DEF TaskInv, TaskTypes
      <3>3. x.event # NoId => events'[x.event] = events[x.event]
        BY <1>6, <3>2 DEF Refers
      <3>4. Refers(x)'
        BY <1>5, <1>6, <3>2, <3>3 DEF Refers
      <3>5. QED
        BY <1>5, <3>1, <3>4
    <2>2. /\ \A j \in DOMAIN items' : items'[j].calendarEventId \in {NoId} \union DOMAIN events'
          /\ \A f \in DOMAIN events' : events'[f].relatedId \in {NoId} \union DOMAIN items'
      BY <1>4, <1>5, <1>6 DEF TaskInv, TaskTypes
    <2>3. QED
      BY <1>2, <1>5, <1>6, <2>1, <2>2 DEF TaskInv, TaskTypes
  <1>8. EndsReach'
    <2>1. \A e \in DOMAIN events' : Ended(events'[e].status) =>
            /\ e \in DOMAIN events /\ Ended(events[e].status)
            /\ events'[e].relatedId = events[e].relatedId
      BY <1>4, <1>6 DEF Ended
    <2>2. /\ EndsReach
          /\ \A e \in DOMAIN events : events[e].relatedId \in {NoId} \union DOMAIN items
      BY DEF TaskInv, TaskTypes
    <2>3. QED
      BY <1>5, <2>1, <2>2, EndsKeep
  <1>9. ASSUME inStep'
        PROVE  OneDesk' /\ \E x : AtWork(x)' /\ Steady(x)'
    <2>1. inStep
      BY <1>9 DEF TaskNext
    <2>2. PICK x : AtWork(x) /\ Steady(x)
      BY <2>1 DEF TaskInv
    <2>3. OneDesk' /\ AtWork(x)'
      BY <1>5, <2>1, <2>2 DEF TaskInv, OneDesk, AtWork
    <2>4. Refers(x)
      BY <2>2 DEF AtWork, TaskInv, TaskTypes, Refers, Free
    <2>5. ASSUME NEW j \in DOMAIN items
          PROVE  ItemSteady(x, j)'
      <3>1. ItemSteady(x, j)
        BY <2>2 DEF Steady
      <3>2. CASE Creating(x, j)
        BY <1>5, <3>1, <3>2 DEF ItemSteady, Creating
      <3>3. CASE ~Creating(x, j)
        <4>1. PICK e \in DOMAIN events : LinkedTo(j, e) /\ (Alike(j) \/ Between(x, j))
          BY <3>1, <3>3 DEF ItemSteady
        <4>2. LinkedTo(j, e)' /\ e \in DOMAIN events' /\ (Alike(j)' \/ Between(x, j)')
          BY <1>5, <1>6, <4>1 DEF LinkedTo, RemindsOf, Alike, Between
        <4>3. QED
          BY <3>3, <4>2 DEF ItemSteady, Creating
      <3>4. QED
        BY <3>2, <3>3
    <2>6. Duty(x)'
      <3>1. CASE x.step \in {"link", "sync", "status"}
        <4>1. x.event \in DOMAIN events /\ events'[x.event] = events[x.event]
          BY <1>6, <2>4, <3>1 DEF Refers
        <4>2. QED
          BY <1>5, <2>2, <3>1, <4>1 DEF Steady, Duty, RemindsOf
      <3>2. CASE x.step \notin {"link", "sync", "status"}
        BY <1>5, <2>2, <3>2 DEF Steady, Duty, May
      <3>3. QED
        BY <3>1, <3>2
    <2>7. QED
      BY <1>5, <2>3, <2>5, <2>6 DEF Steady
  <1>10. QED
    BY <1>7, <1>8, <1>9 DEF TaskInv

\* An event that is edited keeps its status and what it is about; while the two
\* tables are in step one that is about an item is the same as before.
LEMMA EditEventStep ==
    ASSUME TaskInv, TaskNext, NEW a, NEW e \in DOMAIN events, NEW event \in CalendarEvent,
           EditEvent(a, e, event), event.status = events[e].status,
           event.relatedId = events[e].relatedId
    PROVE  TaskInv'
  <1>1. /\ items \in Seq(ActionItem) /\ events \in Seq(CalendarEvent)
        /\ events' = [events EXCEPT ![e] = event] /\ UNCHANGED <<items, desk, halts, lost>>
    BY DEF TaskInv, TaskTypes, EditEvent
  <1>2. /\ events' \in Seq(CalendarEvent) /\ DOMAIN events' = DOMAIN events
        /\ events'[e] = event /\ \A f \in DOMAIN events : f # e => events'[f] = events[f]
    BY <1>1, WriteRow
  <1>3. \A f \in DOMAIN events : /\ events'[f].relatedId = events[f].relatedId
                                 /\ events'[f].status = events[f].status
    BY <1>2
  <1>4. TaskTypes'
    <2>1. ASSUME NEW d \in Desks
          PROVE  Refers(desk[d])'
      <3>1. PICK x : x = desk[d]
        OBVIOUS
      <3>2. Refers(x)
        BY <3>1 DEF TaskInv, TaskTypes
      <3>3. x.event # NoId => events'[x.event].relatedId = events[x.event].relatedId
        BY <1>3, <3>2 DEF Refers
      <3>4. Refers(x)'
        BY <1>1, <1>2, <3>2, <3>3 DEF Refers
      <3>5. QED
        BY <1>1, <3>1, <3>4
    <2>2. QED
      BY <1>1, <1>2, <1>3, <2>1 DEF TaskInv, TaskTypes
  <1>5. EndsReach'
    <2>1. /\ EndsReach
          /\ \A f \in DOMAIN events : events[f].relatedId \in {NoId} \union DOMAIN items
      BY DEF TaskInv, TaskTypes
    <2>2. QED
      BY <1>1, <1>2, <1>3, <2>1, EndsKeep
  <1>6. ASSUME inStep'
        PROVE  OneDesk' /\ \E x : AtWork(x)' /\ Steady(x)'
    <2>1. ~ApartNow /\ inStep
      BY <1>6 DEF TaskNext
    <2>2. ASSUME events[e].relatedId # NoId
          PROVE  event = events[e]
      <3>1. /\ event.assignedTo = events[e].assignedTo /\ event.startAt = events[e].startAt
            /\ event.there = events[e].there
        BY <1>2, <2>1, <2>2 DEF ApartNow
      <3>2. events[e] \in CalendarEvent
        BY <1>1, RowNumbers
      <3>3. QED
        BY <3>1, <3>2 DEF CalendarEvent
    <2>3. ASSUME NEW f \in DOMAIN events, events[f].relatedId # NoId
          PROVE  events'[f] = events[f]
      BY <1>2, <2>2, <2>3
    <2>4. PICK x : AtWork(x) /\ Steady(x)
      BY <2>1 DEF TaskInv
    <2>5. OneDesk' /\ AtWork(x)' /\ Refers(x)
      BY <1>1, <2>1, <2>4 DEF TaskInv, TaskTypes, OneDesk, AtWork, Refers, Free
    <2>6. ASSUME NEW j \in DOMAIN items
          PROVE  ItemSteady(x, j)'
      <3>1. ItemSteady(x, j)
        BY <2>4 DEF Steady
      <3>2. CASE Creating(x, j)
        BY <1>1, <3>1, <3>2 DEF ItemSteady, Creating
      <3>3. CASE ~Creating(x, j)
        <4>1. PICK f \in DOMAIN events : LinkedTo(j, f) /\ (Alike(j) \/ Between(x, j))
          BY <3>1, <3>3 DEF ItemSteady
        <4>2. j # NoId
          BY <1>1, RowNumbers DEF NoId
        <4>3. events'[f] = events[f]
          BY <2>3, <4>1, <4>2 DEF LinkedTo, RemindsOf
        <4>4. LinkedTo(j, f)' /\ f \in DOMAIN events' /\ (Alike(j)' \/ Between(x, j)')
          BY <1>1, <1>2, <4>1, <4>3 DEF LinkedTo, RemindsOf, Alike, Between
        <4>5. QED
          BY <3>3, <4>4 DEF ItemSteady, Creating
      <3>4. QED
        BY <3>2, <3>3
    <2>7. Duty(x)'
      <3>1. CASE x.step = "link"
        <4>1. RemindsOf(x.event, x.item) /\ x.item # NoId /\ x.event \in DOMAIN events
          BY <2>4, <2>5, <3>1 DEF Steady, Duty, Refers
        <4>2. events'[x.event] = events[x.event]
          BY <2>3, <4>1 DEF RemindsOf
        <4>3. QED
          BY <1>1, <2>4, <3>1, <4>2 DEF Steady, Duty, RemindsOf
      <3>2. CASE x.step = "sync"
        <4>1. events'[x.event].status = events[x.event].status
          BY <1>3, <2>5, <3>2 DEF Refers
        <4>2. QED
          BY <1>1, <2>4, <3>2, <4>1 DEF Steady, Duty
      <3>3. CASE x.step \notin {"link", "sync"}
        BY <1>1, <2>4, <3>3 DEF Steady, Duty, May
      <3>4. QED
        BY <3>1, <3>2, <3>3
    <2>8. QED
      BY <1>1, <2>5, <2>6, <2>7 DEF Steady
  <1>7. QED
    BY <1>4, <1>5, <1>6 DEF TaskInv
LEMMA UpdateAndDeleteSteps ==
    ASSUME TaskInv, TaskNext, NEW a \in Staff, NEW e \in DOMAIN events,
           UpdateEvent(a, e) \/ DeleteEvent(a, e)
    PROVE  TaskInv'
  <1>1. events[e] \in CalendarEvent
    BY RowNumbers DEF TaskInv, TaskTypes
  <1>2. PICK event : /\ EditEvent(a, e, event)
                     /\ \/ event = [events[e] EXCEPT !.startAt = 2]
                        \/ \E u \in Staff : event = [events[e] EXCEPT !.assignedTo = u]
                        \/ event = [events[e] EXCEPT !.there = FALSE]
    BY DEF UpdateEvent, DeleteEvent
  <1>3. /\ event \in CalendarEvent
        /\ event.status = events[e].status /\ event.relatedId = events[e].relatedId
    <2>1. CASE event = [events[e] EXCEPT !.startAt = 2]
      BY <1>1, <2>1 DEF CalendarEvent
    <2>2. CASE \E u \in Staff : event = [events[e] EXCEPT !.assignedTo = u]
      BY <1>1, <2>2 DEF CalendarEvent
    <2>3. CASE event = [events[e] EXCEPT !.there = FALSE]
      BY <1>1, <2>3 DEF CalendarEvent
    <2>4. QED
      BY <1>2, <2>1, <2>2, <2>3
  <1>4. QED
    BY <1>2, <1>3, EditEventStep

\* A restart or a failure puts an end to being in step; what a request was about to
\* complete is lost.
LEMMA HaltAndHoursSteps ==
    ASSUME TaskInv, TaskNext, Halt \/ Hours \/ \E d \in Desks : CallFails(d)
    PROVE  TaskInv'
  <1>1. UNCHANGED <<items, events>>
    BY DEF Halt, Hours, CallFails
  <1>2. CASE Halt \/ \E d \in Desks : CallFails(d)
    <2>1. /\ \A d \in Desks : desk'[d] = Free \/ desk'[d] = desk[d]
          /\ desk' \in [Desks -> DeskState] /\ halts' \in Nat /\ halts' # halts
          /\ lost \subseteq lost'
          /\ \A d \in Syncing : desk'[d] = desk[d] \/ desk[d].related \in lost'
      <3>1. desk \in [Desks -> DeskState] /\ halts \in Nat
        BY DEF TaskInv, TaskTypes
      <3>2. Free \in DeskState
        BY DEF Free, DeskState, CalendarEventStatus, NoId
      <3>3. CASE Halt
        BY <3>1, <3>2, <3>3 DEF Halt, Syncing
      <3>4. ASSUME NEW d \in Desks, CallFails(d)
            PROVE  /\ \A c \in Desks : desk'[c] = Free \/ desk'[c] = desk[c]
                   /\ desk' \in [Desks -> DeskState] /\ halts' \in Nat /\ halts' # halts
                   /\ lost \subseteq lost'
                   /\ \A c \in Syncing : desk'[c] = desk[c] \/ desk[c].related \in lost'
        BY <3>1, <3>2, <3>4 DEF CallFails, Turns, Syncing
      <3>5. QED
        BY <1>2, <3>3, <3>4
    <2>2. ~inStep'
      BY <2>1 DEF TaskNext, ApartNow
    <2>3. ASSUME NEW d \in Desks
          PROVE  Refers(desk[d])'
      <3>1. Refers(Free) /\ Refers(desk[d])
        BY DEF Free, Refers, NoId, TaskInv, TaskTypes
      <3>2. PICK x : x = desk'[d] /\ Refers(x)
        BY <2>1, <3>1
      <3>3. Refers(x)'
        BY <1>1, <3>2 DEF Refers
      <3>4. QED
        BY <3>2, <3>3
    <2>4. EndsReach'
      <3>1. /\ EndsReach
            /\ \A e \in DOMAIN events : events[e].relatedId \in {NoId} \union DOMAIN items
        BY DEF TaskInv, TaskTypes
      <3>2. QED
        BY <1>1, <2>1, <3>1, EndsKeep
    <2>5. QED
      BY <1>1, <2>1, <2>2, <2>3, <2>4 DEF TaskInv, TaskTypes
  <1>3. CASE Hours
    <2>1. UNCHANGED <<items, events, desk, halts, lost>> /\ (inStep' => inStep)
      BY <1>3 DEF Hours, TaskNext
    <2>2. TaskTypes' /\ EndsReach'
      BY <2>1 DEF TaskInv, TaskTypes, Refers, EndsReach, Reached, Syncing, StepOf
    <2>3. ASSUME inStep'
          PROVE  OneDesk' /\ \E x : AtWork(x)' /\ Steady(x)'
      <3>1. PICK x : AtWork(x) /\ Steady(x)
        BY <2>1, <2>3 DEF TaskInv
      <3>2. QED
        BY <2>1, <2>3, <3>1 DEF TaskInv, OneDesk, AtWork, Steady, ItemSteady, Duty, Creating,
                          Between, LinkedTo, RemindsOf, Alike, May
    <2>4. QED
      BY <2>2, <2>3 DEF TaskInv
  <1>4. QED
    BY <1>2, <1>3

\* The clock only counts half days.
LEMMA ClockCounts ==
    ASSUME clock \in Nat, TaskNext
    PROVE  clock' \in Nat
  <1>1. TaskStep
    BY DEF TaskNext
  <1>2. CASE Hours
    BY <1>2 DEF Hours
  <1>3. CASE \E a \in Staff, e \in DOMAIN events : UpdateEvent(a, e) \/ DeleteEvent(a, e)
    BY <1>3 DEF UpdateEvent, DeleteEvent, EditEvent
  <1>4. CASE \E d \in Desks :
                \/ CreateReminder(d) \/ LinkReminder(d) \/ CompleteItem(d)
                \/ ReadEvent(d) \/ SetStatus(d) \/ SyncItem(d) \/ CallFails(d)
    BY <1>4 DEF CallFails, CreateReminder, LinkReminder, CompleteItem, ReadEvent, SetStatus, SyncItem
  <1>5. CASE ~Hours /\ ~\E a \in Staff, e \in DOMAIN events : \/ UpdateEvent(a, e)
                                                               \/ DeleteEvent(a, e)
    BY <1>1, <1>4, <1>5 DEF TaskStep, CreateItem, ReadItem, CallSetStatus, CreateEvent, Halt
  <1>6. QED
    BY <1>2, <1>3, <1>5

\* Whatever requests overlap, fail or set, an event that ended has completed the
\* item it names, is about to, or failed to.  While requests come one after the other,
\* do not fail and only end an item's event, an item is completed exactly when its
\* event has ended, and a missed item has a missed reminder: for any number of
\* users, requests, items and events.
THEOREM TasksAgreeHolds == TaskSpec => []TasksAgree
  <1>1. TaskInit => TaskInv /\ clock \in Nat
    <2>1. SUFFICES ASSUME TaskInit PROVE TaskInv /\ clock \in Nat
      OBVIOUS
    <2>2. /\ items = << >> /\ events = << >> /\ halts = 0 /\ clock = 0
          /\ desk = [d \in Desks |-> Free]
      BY <2>1 DEF TaskInit
    <2>3. Free \in DeskState /\ Refers(Free)
      BY DEF Free, DeskState, Refers, CalendarEventStatus, NoId
    <2>4. items \in Seq(ActionItem) /\ events \in Seq(CalendarEvent)
      BY <2>2
    <2>5. DOMAIN items = {} /\ DOMAIN events = {}
      BY <2>2
    <2>6. TaskTypes
      BY <2>2, <2>3, <2>4, <2>5 DEF TaskTypes
    <2>7. OneDesk /\ AtWork(Free)
      BY <2>2 DEF OneDesk, AtWork
    <2>8. Steady(Free)
      BY <2>5 DEF Steady, Duty, Free
    <2>9. EndsReach
      BY <2>5 DEF EndsReach
    <2>10. QED
      BY <2>2, <2>6, <2>7, <2>8, <2>9 DEF TaskInv
  <1>2. TaskInv /\ clock \in Nat /\ [TaskNext]_taskVars => (TaskInv /\ clock \in Nat)'
    <2>1. SUFFICES ASSUME TaskInv, clock \in Nat, [TaskNext]_taskVars
                   PROVE  (TaskInv /\ clock \in Nat)'
      OBVIOUS
    <2>2. CASE UNCHANGED taskVars
      BY <2>1, <2>2 DEF taskVars, TaskInv, TaskTypes, Refers, EndsReach, Reached, Syncing, StepOf,
         OneDesk, AtWork, Steady, ItemSteady, Duty, Creating, Between, LinkedTo, RemindsOf, Alike, May
    <2>3. CASE TaskNext
      <3>1. clock' \in Nat
        BY <2>1, <2>3, ClockCounts
      <3>2. TaskStep
        BY <2>3 DEF TaskNext
      <3>3. CASE \E a, u \in Staff, d \in Desks, timed \in BOOLEAN : CreateItem(d, a, u, timed)
        BY <2>1, <2>3, <3>1, <3>3, CreateItemStep
      <3>4. CASE \E d \in Desks :
                    \/ CreateReminder(d) \/ LinkReminder(d) \/ CompleteItem(d)
                    \/ ReadEvent(d) \/ SetStatus(d) \/ SyncItem(d)
        BY <2>1, <2>3, <3>1, <3>4, CreateReminderStep, LinkReminderStep, CompleteItemStep,
           ReadEventStep, SetStatusStep, SyncItemStep
      <3>5. CASE \E d \in Desks :
                    \/ \E a \in Staff, i \in DOMAIN items : ReadItem(d, a, i)
                    \/ \E a \in Staff, e \in DOMAIN events, to \in CalendarEventStatus :
                          CallSetStatus(d, a, e, to)
        BY <2>1, <2>3, <3>1, <3>5, BeginSteps
      <3>6. CASE \E a \in Staff : \/ \E i \in {NoId} \union DOMAIN items : CreateEvent(a, i)
                                  \/ \E e \in DOMAIN events :
                                        UpdateEvent(a, e) \/ DeleteEvent(a, e)
        BY <2>1, <2>3, <3>1, <3>6, CreateEventStep, UpdateAndDeleteSteps
      <3>7. CASE Halt \/ Hours \/ \E d \in Desks : CallFails(d)
        BY <2>1, <2>3, <3>1, <3>7, HaltAndHoursSteps
      <3>8. QED
        BY <3>2, <3>3, <3>4, <3>5, <3>6, <3>7 DEF TaskStep
    <2>4. QED
      BY <2>1, <2>2, <2>3
  <1>3. TaskInv /\ clock \in Nat => TasksAgree
    <2>1. SUFFICES ASSUME TaskInv, clock \in Nat, inStep, \A d \in Desks : StepOf(d, "idle"),
                          NEW i \in DOMAIN items
                   PROVE  LET e == items[i].calendarEventId
                          IN  /\ e # NoId
                              /\ (items[i].status = "Completed") <=> Ended(events[e].status)
                              /\ ItemShown(i) = "Missed" => EventShown(e) = "Missed"
      BY DEF TasksAgree, TaskInv, EndsReach
    <2>2. PICK x : AtWork(x) /\ Steady(x)
      BY <2>1 DEF TaskInv
    <2>3. x = Free
      BY <2>1, <2>2 DEF AtWork, StepOf, TaskInv, TaskTypes, Refers
    <2>4. Alike(i) /\ \E f \in DOMAIN events : LinkedTo(i, f)
      BY <2>1, <2>2, <2>3, SteadyAtRest DEF TaskInv
    <2>5. PICK e : e \in DOMAIN events /\ LinkedTo(i, e)
      BY <2>4
    <2>6. /\ e = items[i].calendarEventId /\ e # NoId /\ events[e] \in CalendarEvent
          /\ events[e].startAt = 1 /\ items[i] \in ActionItem
      BY <2>1, <2>5, RowNumbers DEF LinkedTo, RemindsOf, TaskInv, TaskTypes, NoId
    <2>7. (items[i].status = "Completed") <=> Ended(events[e].status)
      BY <2>4, <2>6 DEF Alike
    <2>8. ASSUME ItemShown(i) = "Missed"
          PROVE  EventShown(e) = "Missed"
      <3>1. items[i].status = "Open" /\ isPastDeadline(items[i])
        BY <2>6, <2>8 DEF ItemShown, ActionItem
      <3>2. 1 <= clock
        BY <2>1, <3>1 DEF isPastDeadline
      <3>3. events[e].status \in {"Scheduled", "Missed"}
        BY <2>6, <2>7, <3>1 DEF Ended, CalendarEvent, CalendarEventStatus
      <3>4. QED
        BY <2>6, <3>2, <3>3 DEF EventShown
    <2>9. QED
      BY <2>6, <2>7, <2>8
  <1>4. QED
    BY <1>1, <1>2, <1>3, PTL DEF TaskSpec
-------------------------------------------------------------------------------
(* Bank accounts: deletions and reconciliation.                             *)

BankSpec == BankInit /\ [][BankNext]_bankVars

TellerState ==
    [step: {"idle", "row", "edit", "request", "decide", "save"}, account: Nat, request: Nat,
     known: SUBSET Codes, rows: SUBSET Codes, decision: {"Pending", "Approved", "Rejected"}]
StatementRow == [bankAccount: Nat, matchedJournalLineId: {NoRow} \union LedgerLines]
BankTypes ==
    /\ chart \in SUBSET Codes
    /\ bankAccounts \in Seq(BOOLEAN) /\ statement \in Seq(StatementRow)
    /\ deletions \in Seq(DeletionRequest)
    /\ teller \in [Tellers -> TellerState]
    /\ \A t \in Tellers : teller[t].step = "idle" => teller[t] = Waiting

\* A request names its account, and refers to it for as long as it is there.
Named(r) ==
    LET a == deletions[r].bankAccountName
    IN  /\ a \in DOMAIN bankAccounts
        /\ deletions[r].bankAccount = IF bankAccounts[a] THEN a ELSE NoRow
\* The call x has deleted the account and has yet to save its decision.
Signing(x, r) == x.step = "save" /\ x.request = r /\ x.decision = "Approved"
Signs(x, r, a) ==
    /\ deletions[r].bankAccountName = a
    /\ deletions[r].status = "Approved" \/ Signing(x, r)
GoneSigned(x, a) ==
    ~bankAccounts[a] => a \in direct \/ \E r \in DOMAIN deletions : Signs(x, r, a)
RequestTrue(x, r) ==
    LET a == deletions[r].bankAccountName
    IN  /\ deletions[r].status = "Approved" => ~bankAccounts[a]
        /\ deletions[r].status = "Pending" => bankAccounts[a] \/ a \in direct \/ Signing(x, r)
\* An account is asked to be deleted once at a time.
AskedOnce ==
    \A r, q \in DOMAIN deletions :
        /\ deletions[r].status = "Pending" /\ deletions[q].status = "Pending"
        /\ deletions[r].bankAccountName = deletions[q].bankAccountName
        => r = q
\* What a call has read is still so.
StillSo(x) ==
    /\ x.step \in {"edit", "request"} => x.account \in DOMAIN bankAccounts /\ bankAccounts[x.account]
    /\ x.step = "request" =>
          \A r \in DOMAIN deletions :
              deletions[r].bankAccountName = x.account => deletions[r].status # "Pending"
    /\ x.step \in {"decide", "save"} => /\ x.request \in DOMAIN deletions
                                        /\ deletions[x.request].status = "Pending"
                                        /\ x.account = deletions[x.request].bankAccount
                                        /\ x.decision # "Pending"
    /\ x.step = "save" /\ x.decision = "Approved" => x.account = NoRow
DeletionsSound(x) ==
    /\ \A r \in DOMAIN deletions : Named(r) /\ RequestTrue(x, r)
    /\ \A a \in DOMAIN bankAccounts : GoneSigned(x, a)
    /\ AskedOnce
    /\ StillSo(x)
\* No two lines of one account's statement are matched with the same ledger line.
MatchedOnce ==
    \A s, z \in DOMAIN statement :
        /\ statement[s].bankAccount = statement[z].bankAccount
        /\ statement[s].matchedJournalLineId = statement[z].matchedJournalLineId
        /\ statement[s].matchedJournalLineId # NoRow
        => s = z

OneTeller == \A s, t \in Tellers : teller[s] # Waiting /\ teller[t] # Waiting => s = t
Serving(x) ==
    /\ \A t \in Tellers : teller[t] # Waiting => teller[t] = x
    /\ x = Waiting \/ \E t \in Tellers : teller[t] = x
BankInv ==
    orderly => /\ BankTypes /\ breaks = 0 /\ OneTeller /\ MatchedOnce
               /\ \E x : Serving(x) /\ DeletionsSound(x)

\* The step of a call that is or becomes the only one at work.
LEMMA TellerMoves ==
    ASSUME BankInv, BankNext, orderly', NEW t \in Tellers, NEW to \in TellerState,
           Proceeds(t, to), teller[t] # Waiting \/ to # Waiting
    PROVE  DeletionsSound(teller[t]) /\ OneTeller' /\ Serving(to)'
  <1>1. orderly /\ BankTypes /\ OneTeller /\ OneTeller'
    BY DEF BankNext, BankInv, OneTeller
  <1>2. PICK x : Serving(x) /\ DeletionsSound(x)
    BY <1>1 DEF BankInv
  <1>3. teller \in [Tellers -> TellerState] /\ teller' = [teller EXCEPT ![t] = to]
    BY <1>1 DEF Proceeds, BankTypes
  <1>4. teller'[t] = to /\ \A c \in Tellers : c # t => teller'[c] = teller[c]
    BY <1>3
  <1>5. ASSUME NEW c \in Tellers, c # t
        PROVE  teller[c] = Waiting /\ teller'[c] = Waiting
    <2>1. CASE teller[t] # Waiting
      BY <1>1, <1>4, <1>5, <2>1 DEF OneTeller
    <2>2. CASE to # Waiting
      BY <1>1, <1>4, <1>5, <2>2 DEF OneTeller
    <2>3. QED
      BY <2>1, <2>2
  <1>6. x = teller[t]
    BY <1>2, <1>5 DEF Serving
  <1>7. Serving(to)'
    BY <1>4, <1>5 DEF Serving
  <1>8. QED
    BY <1>1, <1>2, <1>6, <1>7
\* What is left to show of a call's step.
LEMMA TellerStep ==
    ASSUME BankInv, BankNext, orderly', NEW t \in Tellers, NEW to \in TellerState,
           Proceeds(t, to), teller[t] # Waiting \/ to # Waiting,
           to.step = "idle" => to = Waiting,
           chart' \in SUBSET Codes, bankAccounts' \in Seq(BOOLEAN),
           deletions' \in Seq(DeletionRequest), UNCHANGED statement,
           DeletionsSound(teller[t]) => DeletionsSound(to)'
    PROVE  BankInv'
  <1>1. orderly /\ BankTypes /\ MatchedOnce /\ breaks' = 0
    BY DEF BankNext, BankInv
  <1>2. teller' \in [Tellers -> TellerState]
        /\ \A c \in Tellers : teller'[c].step = "idle" => teller'[c] = Waiting
    <2>1. teller \in [Tellers -> TellerState] /\ teller' = [teller EXCEPT ![t] = to]
      BY <1>1 DEF Proceeds, BankTypes
    <2>2. teller' \in [Tellers -> TellerState] /\ teller'[t] = to
          /\ \A c \in Tellers : c # t => teller'[c] = teller[c]
      BY <2>1
    <2>3. QED
      BY <1>1, <2>2 DEF BankTypes
  <1>3. BankTypes' /\ MatchedOnce'
    BY <1>1, <1>2 DEF BankTypes, MatchedOnce
  <1>4. DeletionsSound(to)' /\ OneTeller' /\ Serving(to)'
    BY TellerMoves
  <1>5. QED
    BY <1>1, <1>3, <1>4 DEF BankInv
\* What is left to show of a step of nobody at work.
LEMMA AtRestStep ==
    ASSUME BankInv, BankNext, orderly', UNCHANGED <<chart, teller>>,
           bankAccounts' \in Seq(BOOLEAN), deletions' \in Seq(DeletionRequest),
           statement' \in Seq(StatementRow), MatchedOnce',
           DeletionsSound(Waiting) => DeletionsSound(Waiting)'
    PROVE  BankInv'
  <1>1. /\ orderly /\ BankTypes /\ OneTeller /\ breaks' = 0
        /\ \A t \in Tellers : Serves(t, "idle")
    BY DEF BankNext, BankInv
  <1>2. \A t \in Tellers : teller[t] = Waiting
    BY <1>1 DEF BankTypes, Serves
  <1>3. PICK x : Serving(x) /\ DeletionsSound(x)
    BY <1>1 DEF BankInv
  <1>4. x = Waiting
    BY <1>2, <1>3 DEF Serving
  <1>5. BankTypes' /\ OneTeller' /\ Serving(Waiting)'
    BY <1>1, <1>2 DEF BankTypes, OneTeller, Serving
  <1>6. QED
    BY <1>1, <1>3, <1>4, <1>5 DEF BankInv

\* Nothing is signed until it is saved.
LEMMA UnsignedMoves ==
    ASSUME NEW x, NEW to, DeletionsSound(x), x.step # "save", StillSo(to)
    PROVE  DeletionsSound(to)
  <1>1. \A r \in DOMAIN deletions : RequestTrue(to, r)
    BY DEF DeletionsSound, RequestTrue, Signing
  <1>2. \A a \in DOMAIN bankAccounts : GoneSigned(to, a)
    BY DEF DeletionsSound, GoneSigned, Signs, Signing
  <1>3. QED
    BY <1>1, <1>2 DEF DeletionsSound
LEMMA WaitingIsAtRest ==
    Waiting \in TellerState /\ Waiting.step = "idle" /\ StillSo(Waiting) /\ Waiting.step # "save"
  BY DEF Waiting, TellerState, StillSo, NoRow
\* A call that goes on without writing anything but the chart.
LEMMA TellerReads ==
    ASSUME BankInv, BankNext, orderly', NEW t \in Tellers, NEW to \in TellerState,
           Proceeds(t, to), teller[t] # Waiting \/ to # Waiting,
           to.step = "idle" => to = Waiting, chart' \in SUBSET Codes,
           UNCHANGED <<bankAccounts, statement, deletions, direct>>,
           DeletionsSound(teller[t]) => DeletionsSound(to)
    PROVE  BankInv'
  <1>1. orderly /\ BankTypes
    BY DEF BankNext, BankInv
  <1>2. DeletionsSound(to) => DeletionsSound(to)'
    BY DEF DeletionsSound, Named, RequestTrue, GoneSigned, Signs, Signing, AskedOnce, StillSo
  <1>3. QED
    BY <1>1, <1>2, TellerStep DEF BankTypes
LEMMA ChartSteps ==
    ASSUME BankInv, BankNext, orderly', NEW t \in Tellers,
           \/ \E rows \in SUBSET Codes \ {{}} : ReadChart(t, rows)
           \/ \E code \in Codes : ImportAccount(t, code)
    PROVE  BankInv'
  <1>1. orderly /\ BankTypes
    BY DEF BankNext, BankInv
  <1>2. PICK x : x = teller[t]
    OBVIOUS
  <1>3. x \in TellerState /\ (x.step = "idle" => x = Waiting)
    BY <1>1, <1>2 DEF BankTypes
  <1>4. ASSUME NEW rows \in SUBSET Codes \ {{}}, ReadChart(t, rows)
        PROVE  BankInv'
    <2>1. PICK to : to = [Waiting EXCEPT !.step = "row", !.known = chart, !.rows = rows]
      OBVIOUS
    <2>2. to \in TellerState /\ to.step = "row"
      BY <1>1, <2>1 DEF Waiting, TellerState, BankTypes, NoRow
    <2>3. StillSo(to) /\ to # Waiting /\ x = Waiting
      BY <1>2, <1>3, <1>4, <2>2 DEF StillSo, Waiting, ReadChart, Serves
    <2>4. /\ Proceeds(t, to) /\ chart' \in SUBSET Codes
          /\ UNCHANGED <<bankAccounts, statement, deletions, direct>>
      BY <1>1, <1>4, <2>1 DEF ReadChart, BankTypes
    <2>5. DeletionsSound(x) => DeletionsSound(to)
      BY <2>3, UnsignedMoves, WaitingIsAtRest
    <2>6. QED
      BY <1>2, <2>2, <2>3, <2>4, <2>5, TellerReads
  <1>5. ASSUME NEW code \in Codes, ImportAccount(t, code)
        PROVE  BankInv'
    <2>1. PICK rest : rest = [x EXCEPT !.rows = @ \ {code}]
      OBVIOUS
    <2>2. x.step = "row"
      BY <1>2, <1>5 DEF ImportAccount, Serves
    <2>3. rest \in TellerState /\ rest.step = "row" /\ StillSo(rest)
      BY <1>3, <2>1, <2>2 DEF TellerState, StillSo
    <2>4. PICK to : to = IF rest.rows = {} \/ code \in chart \ x.known THEN Waiting ELSE rest
      OBVIOUS
    <2>5. /\ to \in TellerState /\ StillSo(to) /\ (to.step = "idle" => to = Waiting)
          /\ x # Waiting
      BY <2>2, <2>3, <2>4, WaitingIsAtRest
    <2>6. /\ Proceeds(t, to) /\ chart' \in SUBSET Codes
          /\ UNCHANGED <<bankAccounts, statement, deletions, direct>>
      BY <1>1, <1>2, <1>5, <2>1, <2>4 DEF ImportAccount, BankTypes
    <2>7. DeletionsSound(x) => DeletionsSound(to)
      BY <2>2, <2>5, UnsignedMoves
    <2>8. QED
      BY <1>2, <2>5, <2>6, <2>7, TellerReads
  <1>6. QED
    BY <1>4, <1>5
LEMMA ReadAccountSteps ==
    ASSUME BankInv, BankNext, orderly', NEW t \in Tellers, NEW a \in DOMAIN bankAccounts,
           ReadAccount(t, a) \/ ReadPending(t, a)
    PROVE  BankInv'
  <1>1. orderly /\ BankTypes
    BY DEF BankNext, BankInv
  <1>2. teller[t] = Waiting /\ bankAccounts[a] /\ a \in Nat
    BY <1>1, RowNumbers DEF ReadAccount, ReadPending, Serves, BankTypes
  <1>3. PICK to : /\ Proceeds(t, to)
                  /\ \/ to = [Waiting EXCEPT !.step = "edit", !.account = a]
                     \/ /\ to = [Waiting EXCEPT !.step = "request", !.account = a]
                        /\ \A r \in DOMAIN deletions :
                              deletions[r].bankAccount = a => deletions[r].status # "Pending"
    BY DEF ReadAccount, ReadPending
  <1>4. /\ to \in TellerState /\ to.step \in {"edit", "request"} /\ to.account = a
        /\ to.step = "request" => \A r \in DOMAIN deletions :
              deletions[r].bankAccount = a => deletions[r].status # "Pending"
    <2>1. CASE to = [Waiting EXCEPT !.step = "edit", !.account = a]
      BY <1>2, <2>1 DEF Waiting, TellerState, NoRow
    <2>2. CASE to # [Waiting EXCEPT !.step = "edit", !.account = a]
      <3>1. to = [Waiting EXCEPT !.step = "request", !.account = a]
        BY <1>3, <2>2
      <3>2. to \in TellerState /\ to.step = "request" /\ to.account = a
        BY <1>2, <3>1 DEF Waiting, TellerState, NoRow
      <3>3. QED
        BY <1>3, <2>2, <3>2
    <2>3. QED
      BY <2>1, <2>2
  <1>5. to # Waiting
    BY <1>4 DEF Waiting
  <1>6. ASSUME DeletionsSound(Waiting)
        PROVE  DeletionsSound(to)
    <2>1. \A r \in DOMAIN deletions :
             deletions[r].bankAccountName = a => deletions[r].bankAccount = a
      BY <1>2, <1>6 DEF DeletionsSound, Named
    <2>2. StillSo(to)
      BY <1>2, <1>4, <2>1 DEF StillSo
    <2>3. QED
      BY <1>6, <2>2, UnsignedMoves, WaitingIsAtRest
  <1>7. chart' \in SUBSET Codes /\ UNCHANGED <<bankAccounts, statement, deletions, direct>>
    BY <1>1 DEF ReadAccount, ReadPending, BankTypes
  <1>8. QED
    BY <1>2, <1>3, <1>4, <1>5, <1>6, <1>7, TellerReads
LEMMA EditBankAccountStep ==
    ASSUME BankInv, BankNext, orderly', NEW t \in Tellers, EditBankAccount(t)
    PROVE  BankInv'
  <1>1. orderly /\ BankTypes
    BY DEF BankNext, BankInv
  <1>2. PICK x : x = teller[t]
    OBVIOUS
  <1>3. x.step = "edit" /\ x # Waiting /\ Proceeds(t, Waiting)
    BY <1>2 DEF EditBankAccount, Serves, Waiting
  <1>4. DeletionsSound(x)
    BY <1>2, <1>3, TellerMoves, WaitingIsAtRest
  <1>5. x.account \in DOMAIN bankAccounts /\ bankAccounts[x.account]
    BY <1>3, <1>4 DEF DeletionsSound, StillSo
  <1>6. bankAccounts' = bankAccounts
    <2>1. bankAccounts' = [bankAccounts EXCEPT ![x.account] = TRUE]
      BY <1>2 DEF EditBankAccount
    <2>2. bankAccounts[x.account] = TRUE
      BY <1>1, <1>5 DEF BankTypes
    <2>3. QED
      BY <1>1, <1>5, <2>1, <2>2 DEF BankTypes
  <1>7. chart' \in SUBSET Codes /\ UNCHANGED <<bankAccounts, statement, deletions, direct>>
    BY <1>1, <1>6 DEF EditBankAccount, BankTypes
  <1>8. DeletionsSound(x) => DeletionsSound(Waiting)
    BY <1>3, UnsignedMoves, WaitingIsAtRest
  <1>9. QED
    BY <1>2, <1>3, <1>7, <1>8, WaitingIsAtRest, TellerReads
LEMMA ReadRequestStep ==
    ASSUME BankInv, BankNext, orderly', NEW t \in Tellers, NEW r \in DOMAIN deletions,
           NEW decision \in {"Approved", "Rejected"}, ReadRequest(t, r, decision)
    PROVE  BankInv'
  <1>1. orderly /\ BankTypes
    BY DEF BankNext, BankInv
  <1>2. /\ teller[t] = Waiting /\ r \in Nat
        /\ deletions[r].status = "Pending" /\ deletions[r].bankAccount \in Nat
    <2>1. r \in Nat /\ deletions[r] \in DeletionRequest
      BY <1>1, RowNumbers DEF BankTypes
    <2>2. QED
      BY <1>1, <2>1 DEF ReadRequest, Serves, BankTypes, DeletionRequest
  <1>3. PICK to : to = [Waiting EXCEPT !.step = "decide", !.request = r, !.decision = decision,
                                       !.account = deletions[r].bankAccount]
    OBVIOUS
  <1>4. /\ to \in TellerState /\ to.step = "decide" /\ to.request = r /\ to.decision = decision
        /\ to.account = deletions[r].bankAccount
    BY <1>2, <1>3 DEF Waiting, TellerState, NoRow
  <1>5. StillSo(to) /\ to # Waiting
    BY <1>2, <1>4 DEF StillSo, Waiting
  <1>6. DeletionsSound(Waiting) => DeletionsSound(to)
    BY <1>5, UnsignedMoves, WaitingIsAtRest
  <1>7. /\ Proceeds(t, to) /\ chart' \in SUBSET Codes
        /\ UNCHANGED <<bankAccounts, statement, deletions, direct>>
    BY <1>1, <1>3 DEF ReadRequest, BankTypes
  <1>8. QED
    BY <1>2, <1>4, <1>5, <1>6, <1>7, TellerReads
\* A deleted account is gone, and its requests forget it.
LEMMA DeleteRows ==
    ASSUME BankTypes, NEW a \in DOMAIN bankAccounts, Delete(a)
    PROVE  /\ bankAccounts' \in Seq(BOOLEAN) /\ DOMAIN bankAccounts' = DOMAIN bankAccounts
           /\ ~bankAccounts'[a]
           /\ \A b \in DOMAIN bankAccounts : b # a => bankAccounts'[b] = bankAccounts[b]
           /\ deletions' \in Seq(DeletionRequest) /\ DOMAIN deletions' = DOMAIN deletions
           /\ \A r \in DOMAIN deletions :
                 /\ deletions'[r].bankAccountName = deletions[r].bankAccountName
                 /\ deletions'[r].status = deletions[r].status
                 /\ deletions'[r].bankAccount = IF deletions[r].bankAccount = a THEN NoRow
                                               ELSE deletions[r].bankAccount
  <1>1. bankAccounts \in Seq(BOOLEAN) /\ bankAccounts' = [bankAccounts EXCEPT ![a] = FALSE]
    BY DEF BankTypes, Delete
  <1>2. /\ bankAccounts' \in Seq(BOOLEAN) /\ DOMAIN bankAccounts' = DOMAIN bankAccounts
        /\ bankAccounts'[a] = FALSE
        /\ \A b \in DOMAIN bankAccounts : b # a => bankAccounts'[b] = bankAccounts[b]
    BY <1>1, WriteRow
  <1>3. DEFINE Forgets(r) == IF deletions[r].bankAccount = a
                             THEN [deletions[r] EXCEPT !.bankAccount = NoRow] ELSE deletions[r]
  <1>4. deletions \in Seq(DeletionRequest) /\ deletions' = [r \in DOMAIN deletions |-> Forgets(r)]
    BY DEF BankTypes, Delete
  <1>5. ASSUME NEW r \in DOMAIN deletions
        PROVE  /\ Forgets(r) \in DeletionRequest
               /\ Forgets(r).bankAccountName = deletions[r].bankAccountName
               /\ Forgets(r).status = deletions[r].status
               /\ Forgets(r).bankAccount = IF deletions[r].bankAccount = a THEN NoRow
                                           ELSE deletions[r].bankAccount
    <2>1. deletions[r] \in DeletionRequest
      BY <1>4, RowNumbers
    <2>2. QED
      BY <2>1 DEF DeletionRequest, NoRow
  <1>6. DOMAIN deletions' = DOMAIN deletions /\ \A r \in DOMAIN deletions : deletions'[r] = Forgets(r)
    BY <1>4
  <1>7. deletions' \in Seq(DeletionRequest)
    <2>1. \A r \in DOMAIN deletions : Forgets(r) \in DeletionRequest
      BY <1>5
    <2>2. DOMAIN deletions = 1 .. Len(deletions) /\ Len(deletions) \in Nat
      BY <1>4
    <2>3. deletions' \in [1 .. Len(deletions) -> DeletionRequest]
      BY <1>4, <2>1, <2>2
    <2>4. QED
      BY <2>2, <2>3
  <1>8. QED
    BY <1>2, <1>5, <1>6, <1>7
LEMMA StillNamed ==
    ASSUME BankTypes, NEW a \in DOMAIN bankAccounts, Delete(a), NEW r \in DOMAIN deletions,
           Named(r)
    PROVE  Named(r)'
  <1>1. PICK n : n = deletions[r].bankAccountName
    OBVIOUS
  <1>2. n \in DOMAIN bankAccounts /\ deletions[r].bankAccount = IF bankAccounts[n] THEN n ELSE NoRow
    BY <1>1 DEF Named
  <1>3. a # NoRow
    BY RowNumbers DEF BankTypes, NoRow
  <1>4. /\ DOMAIN bankAccounts' = DOMAIN bankAccounts /\ ~bankAccounts'[a]
        /\ \A b \in DOMAIN bankAccounts : b # a => bankAccounts'[b] = bankAccounts[b]
        /\ deletions'[r].bankAccountName = n
        /\ deletions'[r].bankAccount = IF deletions[r].bankAccount = a THEN NoRow
                                       ELSE deletions[r].bankAccount
    BY <1>1, DeleteRows
  <1>5. deletions'[r].bankAccount = IF bankAccounts'[n] THEN n ELSE NoRow
    BY <1>2, <1>3, <1>4
  <1>6. QED
    BY <1>2, <1>4, <1>5 DEF Named

\* A Supreme Admin deletes an account without a request.
LEMMA DeleteDirectlyStep ==
    ASSUME BankInv, BankNext, orderly', NEW a \in DOMAIN bankAccounts, DeleteDirectly(a)
    PROVE  BankInv'
  <1>1. orderly /\ BankTypes /\ MatchedOnce
    BY DEF BankNext, BankInv
  <1>2. Delete(a) /\ direct' = direct \union {a} /\ UNCHANGED <<chart, statement, teller>>
    BY DEF DeleteDirectly
  <1>3. /\ bankAccounts' \in Seq(BOOLEAN) /\ DOMAIN bankAccounts' = DOMAIN bankAccounts
        /\ ~bankAccounts'[a]
        /\ \A b \in DOMAIN bankAccounts : b # a => bankAccounts'[b] = bankAccounts[b]
        /\ deletions' \in Seq(DeletionRequest) /\ DOMAIN deletions' = DOMAIN deletions
        /\ \A r \in DOMAIN deletions :
              /\ deletions'[r].bankAccountName = deletions[r].bankAccountName
              /\ deletions'[r].status = deletions[r].status
    BY <1>1, <1>2, DeleteRows
  <1>4. ASSUME DeletionsSound(Waiting)
        PROVE  DeletionsSound(Waiting)'
    <2>1. ASSUME NEW r \in DOMAIN deletions
          PROVE  Named(r)' /\ RequestTrue(Waiting, r)'
      <3>1. Named(r)'
        BY <1>1, <1>2, <1>4, StillNamed DEF DeletionsSound
      <3>2. PICK n : n = deletions[r].bankAccountName
        OBVIOUS
      <3>3. /\ n \in DOMAIN bankAccounts
            /\ deletions[r].status = "Approved" => ~bankAccounts[n]
            /\ deletions[r].status = "Pending" => bankAccounts[n] \/ n \in direct
        BY <1>4, <3>2, WaitingIsAtRest DEF DeletionsSound, Named, RequestTrue, Signing
      <3>4. /\ deletions'[r].bankAccountName = n
            /\ deletions'[r].status = "Approved" => ~bankAccounts'[n]
            /\ deletions'[r].status = "Pending" => bankAccounts'[n] \/ n \in direct'
        BY <1>2, <1>3, <3>2, <3>3
      <3>5. QED
        BY <3>1, <3>4 DEF RequestTrue
    <2>2. ASSUME NEW b \in DOMAIN bankAccounts
          PROVE  GoneSigned(Waiting, b)'
      <3>1. GoneSigned(Waiting, b)
        BY <1>4 DEF DeletionsSound
      <3>2. ASSUME NEW r \in DOMAIN deletions, Signs(Waiting, r, b)
            PROVE  Signs(Waiting, r, b)'
        BY <1>3, <3>2, WaitingIsAtRest DEF Signs, Signing
      <3>3. QED
        BY <1>2, <1>3, <3>1, <3>2 DEF GoneSigned
    <2>3. AskedOnce'
      BY <1>3, <1>4 DEF DeletionsSound, AskedOnce
    <2>4. StillSo(Waiting)'
      BY DEF StillSo, Waiting
    <2>5. QED
      BY <1>3, <2>1, <2>2, <2>3, <2>4 DEF DeletionsSound
  <1>5. statement' \in Seq(StatementRow) /\ MatchedOnce'
    BY <1>1, <1>2 DEF BankTypes, MatchedOnce
  <1>6. QED
    BY <1>2, <1>3, <1>4, <1>5, AtRestStep
LEMMA CreateBankAccountStep ==
    ASSUME BankInv, BankNext, orderly', NEW code, CreateBankAccount(code)
    PROVE  BankInv'
  <1>1. orderly /\ BankTypes /\ MatchedOnce
    BY DEF BankNext, BankInv
  <1>2. /\ bankAccounts' = Append(bankAccounts, TRUE)
        /\ UNCHANGED <<chart, statement, deletions, teller, direct>>
    BY DEF CreateBankAccount
  <1>3. PICK n : n = Len(bankAccounts) + 1
    OBVIOUS
  <1>4. /\ bankAccounts' \in Seq(BOOLEAN) /\ DOMAIN bankAccounts' = DOMAIN bankAccounts \union {n}
        /\ bankAccounts'[n] = TRUE
        /\ \A b \in DOMAIN bankAccounts : bankAccounts'[b] = bankAccounts[b]
    <2>1. bankAccounts \in Seq(BOOLEAN) /\ TRUE \in BOOLEAN
      BY <1>1 DEF BankTypes
    <2>2. PICK row : row = TRUE
      OBVIOUS
    <2>3. row \in BOOLEAN /\ bankAccounts' = Append(bankAccounts, row)
      BY <1>2, <2>2
    <2>4. /\ bankAccounts' \in Seq(BOOLEAN)
          /\ DOMAIN bankAccounts' = DOMAIN bankAccounts \union {n}
          /\ \A b \in DOMAIN bankAccounts : bankAccounts'[b] = bankAccounts[b]
      BY <1>3, <2>1, <2>3, AppendRow
    <2>5. bankAccounts'[n] = row
      BY <1>3, <2>1, <2>3, AppendRow
    <2>6. QED
      BY <2>2, <2>4, <2>5
  <1>5. ASSUME DeletionsSound(Waiting)
        PROVE  DeletionsSound(Waiting)'
    <2>1. ASSUME NEW r \in DOMAIN deletions
          PROVE  Named(r)' /\ RequestTrue(Waiting, r)'
      <3>1. Named(r) /\ RequestTrue(Waiting, r)
        BY <1>5 DEF DeletionsSound
      <3>2. PICK m : m = deletions[r].bankAccountName
        OBVIOUS
      <3>3. m \in DOMAIN bankAccounts /\ bankAccounts'[m] = bankAccounts[m]
        BY <1>4, <3>1, <3>2 DEF Named
      <3>4. QED
        BY <1>2, <1>4, <3>1, <3>2, <3>3 DEF Named, RequestTrue, Signing
    <2>2. ASSUME NEW b \in DOMAIN bankAccounts'
          PROVE  GoneSigned(Waiting, b)'
      <3>1. CASE b = n
        BY <1>4, <3>1 DEF GoneSigned
      <3>2. CASE b # n
        BY <1>2, <1>4, <1>5, <3>2 DEF DeletionsSound, GoneSigned, Signs, Signing
      <3>3. QED
        BY <3>1, <3>2
    <2>3. AskedOnce' /\ StillSo(Waiting)'
      BY <1>2, <1>5 DEF DeletionsSound, AskedOnce, StillSo, Waiting
    <2>4. QED
      BY <1>2, <2>1, <2>2, <2>3 DEF DeletionsSound
  <1>6. /\ statement' \in Seq(StatementRow) /\ deletions' \in Seq(DeletionRequest)
        /\ MatchedOnce'
    BY <1>1, <1>2 DEF BankTypes, MatchedOnce
  <1>7. QED
    BY <1>2, <1>4, <1>5, <1>6, AtRestStep

\* Lines of a statement are imported unmatched, and matched as the view shows.
LEMMA StatementSteps ==
    ASSUME BankInv, BankNext, orderly',
           \/ \E a \in DOMAIN bankAccounts : ImportStatementLine(a)
           \/ \E s \in DOMAIN statement :
                 UnmatchLine(s) \/ \E line \in LedgerLines : MatchLines(s, line)
    PROVE  BankInv'
  <1>1. orderly /\ BankTypes /\ MatchedOnce /\ ~MatchedUnseen
    BY DEF BankNext, BankInv
  <1>2. UNCHANGED <<chart, bankAccounts, deletions, teller, direct>>
    BY DEF ImportStatementLine, UnmatchLine, MatchLines, SetMatch
  <1>3. statement \in Seq(StatementRow)
    BY <1>1 DEF BankTypes
  <1>4. ASSUME NEW a \in DOMAIN bankAccounts, ImportStatementLine(a)
        PROVE  statement' \in Seq(StatementRow) /\ MatchedOnce'
    <2>1. PICK n, row : /\ n = Len(statement) + 1
                        /\ row = [bankAccount |-> a, matchedJournalLineId |-> NoRow]
      OBVIOUS
    <2>2. row \in StatementRow /\ row.matchedJournalLineId = NoRow
      <3>1. a \in Nat
        BY <1>1, RowNumbers DEF BankTypes
      <3>2. QED
        BY <2>1, <3>1 DEF StatementRow
    <2>3. statement' = Append(statement, row)
      BY <1>4, <2>1 DEF ImportStatementLine
    <2>4. /\ statement' \in Seq(StatementRow)
          /\ DOMAIN statement' = DOMAIN statement \union {n} /\ statement'[n] = row
          /\ \A s \in DOMAIN statement : statement'[s] = statement[s]
      BY <1>3, <2>1, <2>2, <2>3, AppendRow
    <2>5. MatchedOnce'
      BY <1>1, <2>2, <2>4 DEF MatchedOnce
    <2>6. QED
      BY <2>4, <2>5
  <1>5. ASSUME NEW s \in DOMAIN statement, NEW line \in {NoRow} \union LedgerLines,
               SetMatch(s, line)
        PROVE  statement' \in Seq(StatementRow) /\ MatchedOnce'
    <2>1. PICK row : row = [statement[s] EXCEPT !.matchedJournalLineId = line]
      OBVIOUS
    <2>2. statement[s] \in StatementRow
      BY <1>3, RowNumbers
    <2>3. /\ row \in StatementRow /\ row.bankAccount = statement[s].bankAccount
          /\ row.matchedJournalLineId = line
      BY <2>1, <2>2 DEF StatementRow
    <2>4. statement' = [statement EXCEPT ![s] = row]
      BY <1>5, <2>1 DEF SetMatch
    <2>5. /\ statement' \in Seq(StatementRow) /\ DOMAIN statement' = DOMAIN statement
          /\ statement'[s] = row
          /\ \A z \in DOMAIN statement : z # s => statement'[z] = statement[z]
      BY <1>3, <2>3, <2>4, WriteRow
    <2>6. PICK a : a = statement[s].bankAccount
      OBVIOUS
    <2>7. \/ line = NoRow \/ line = statement[s].matchedJournalLineId
          \/ line \in UnmatchedLedger(a)
      BY <1>1, <2>3, <2>5, <2>6 DEF MatchedUnseen
    <2>8. ASSUME NEW z \in DOMAIN statement, z # s, statement[z].bankAccount = a, line # NoRow
          PROVE  statement[z].matchedJournalLineId # line
      <3>1. CASE line = statement[s].matchedJournalLineId
        BY <1>1, <2>6, <2>8, <3>1 DEF MatchedOnce
      <3>2. CASE line \in UnmatchedLedger(a)
        BY <2>8, <3>2 DEF UnmatchedLedger, MatchedStatement, UnmatchedStatement
      <3>3. QED
        BY <2>7, <2>8, <3>1, <3>2
    <2>9. MatchedOnce'
      BY <1>1, <2>3, <2>5, <2>6, <2>8 DEF MatchedOnce
    <2>10. QED
      BY <2>5, <2>9
  <1>6. statement' \in Seq(StatementRow) /\ MatchedOnce'
    <2>1. CASE \E a \in DOMAIN bankAccounts : ImportStatementLine(a)
      BY <1>4, <2>1
    <2>2. CASE \E s \in DOMAIN statement, line \in {NoRow} \union LedgerLines : SetMatch(s, line)
      BY <1>5, <2>2
    <2>3. QED
      BY <2>1, <2>2 DEF UnmatchLine, MatchLines
  <1>7. DeletionsSound(Waiting) => DeletionsSound(Waiting)'
    BY <1>2 DEF DeletionsSound, Named, RequestTrue, GoneSigned, Signs, Signing, AskedOnce, StillSo
  <1>8. QED
    BY <1>1, <1>2, <1>6, <1>7, AtRestStep DEF BankTypes

LEMMA InsertRequestStep ==
    ASSUME BankInv, BankNext, orderly', NEW t \in Tellers, InsertRequest(t)
    PROVE  BankInv'
  <1>1. orderly /\ BankTypes
    BY DEF BankNext, BankInv
  <1>2. PICK x, a, n : x = teller[t] /\ a = teller[t].account /\ n = Len(deletions) + 1
    OBVIOUS
  <1>3. x.step = "request" /\ x.account = a /\ x # Waiting /\ Proceeds(t, Waiting)
    BY <1>2 DEF InsertRequest, Serves, Waiting
  <1>4. DeletionsSound(x)
    BY <1>2, <1>3, TellerMoves, WaitingIsAtRest
  <1>5. /\ a \in DOMAIN bankAccounts /\ bankAccounts[a]
        /\ \A r \in DOMAIN deletions :
              deletions[r].bankAccountName = a => deletions[r].status # "Pending"
    BY <1>3, <1>4 DEF DeletionsSound, StillSo
  <1>6. PICK row : row = [bankAccount |-> a, bankAccountName |-> a, status |-> "Pending"]
    OBVIOUS
  <1>7. /\ row \in DeletionRequest /\ row.bankAccount = a /\ row.bankAccountName = a
        /\ row.status = "Pending"
    <2>1. a \in Nat
      BY <1>1, <1>5, RowNumbers DEF BankTypes
    <2>2. QED
      BY <1>6, <2>1 DEF DeletionRequest
  <1>8. /\ deletions' = Append(deletions, row)
        /\ UNCHANGED <<chart, bankAccounts, statement, direct>>
    BY <1>2, <1>5, <1>6 DEF InsertRequest
  <1>9. /\ deletions' \in Seq(DeletionRequest) /\ n \notin DOMAIN deletions
        /\ DOMAIN deletions' = DOMAIN deletions \union {n} /\ deletions'[n] = row
        /\ \A r \in DOMAIN deletions : deletions'[r] = deletions[r]
    BY <1>1, <1>2, <1>7, <1>8, AppendRow DEF BankTypes
  <1>10. DeletionsSound(Waiting)'
    <2>1. ASSUME NEW r \in DOMAIN deletions'
          PROVE  Named(r)' /\ RequestTrue(Waiting, r)'
      <3>1. CASE r = n
        BY <1>5, <1>7, <1>8, <1>9, <3>1 DEF Named, RequestTrue
      <3>2. CASE r # n
        <4>1. r \in DOMAIN deletions /\ deletions'[r] = deletions[r]
          BY <1>9, <3>2
        <4>2. Named(r) /\ RequestTrue(x, r)
          BY <1>4, <4>1 DEF DeletionsSound
        <4>3. QED
          BY <1>3, <1>8, <4>1, <4>2 DEF Named, RequestTrue, Signing
      <3>3. QED
        BY <3>1, <3>2
    <2>2. ASSUME NEW b \in DOMAIN bankAccounts
          PROVE  GoneSigned(Waiting, b)'
      <3>1. GoneSigned(x, b)
        BY <1>4 DEF DeletionsSound
      <3>2. QED
        BY <1>3, <1>8, <1>9, <3>1 DEF GoneSigned, Signs, Signing
    <2>3. AskedOnce'
      BY <1>4, <1>5, <1>7, <1>9 DEF DeletionsSound, AskedOnce
    <2>4. StillSo(Waiting)'
      BY DEF StillSo, Waiting
    <2>5. QED
      BY <1>8, <2>1, <2>2, <2>3, <2>4 DEF DeletionsSound
  <1>11. QED
    BY <1>1, <1>2, <1>3, <1>8, <1>9, <1>10, WaitingIsAtRest, TellerStep DEF BankTypes
\* Deciding on a request: the account goes first, what was decided after it.
LEMMA DeleteAccountStep ==
    ASSUME BankInv, BankNext, orderly', NEW t \in Tellers, DeleteAccount(t)
    PROVE  BankInv'
  <1>1. orderly /\ BankTypes
    BY DEF BankNext, BankInv
  <1>2. PICK x, a, q : x = teller[t] /\ a = teller[t].account /\ q = teller[t].request
    OBVIOUS
  <1>3. /\ x \in TellerState /\ x.step = "decide" /\ x.account = a /\ x.request = q
        /\ x # Waiting
    BY <1>1, <1>2 DEF BankTypes, DeleteAccount, Serves, Waiting
  <1>4. chart' \in SUBSET Codes /\ UNCHANGED <<statement, direct>>
    BY <1>1 DEF DeleteAccount, BankTypes
  <1>5. CASE x.decision = "Rejected" \/ a = NoRow
    <2>1. PICK to : to = [x EXCEPT !.step = "save"]
      OBVIOUS
    <2>2. /\ to \in TellerState /\ to.step = "save" /\ to.account = a /\ to.request = q
          /\ to.decision = x.decision
      BY <1>3, <2>1 DEF TellerState
    <2>3. Proceeds(t, to) /\ UNCHANGED <<bankAccounts, deletions>>
      BY <1>2, <1>5, <2>1 DEF DeleteAccount
    <2>4. ASSUME DeletionsSound(x)
          PROVE  DeletionsSound(to)
      <3>1. StillSo(to)
        BY <1>3, <1>5, <2>2, <2>4 DEF DeletionsSound, StillSo
      <3>2. QED
        BY <1>3, <2>4, <3>1, UnsignedMoves
    <2>5. QED
      BY <1>2, <1>3, <1>4, <2>2, <2>3, <2>4, TellerReads
  <1>6. CASE x.decision # "Rejected" /\ a # NoRow /\ ~Deletable(a)
    <2>1. Proceeds(t, Waiting) /\ UNCHANGED <<bankAccounts, deletions>>
      BY <1>2, <1>6 DEF DeleteAccount
    <2>2. DeletionsSound(x) => DeletionsSound(Waiting)
      BY <1>3, UnsignedMoves, WaitingIsAtRest
    <2>3. QED
      BY <1>2, <1>3, <1>4, <2>1, <2>2, WaitingIsAtRest, TellerReads
  <1>7. CASE x.decision # "Rejected" /\ a # NoRow /\ Deletable(a)
    <2>1. PICK to : to = [x EXCEPT !.step = "save", !.account = NoRow]
      OBVIOUS
    <2>2. /\ to \in TellerState /\ to.step = "save" /\ to.account = NoRow /\ to.request = q
          /\ to.decision = x.decision
      BY <1>3, <2>1 DEF TellerState, NoRow
    <2>3. Proceeds(t, to) /\ Delete(a)
      BY <1>2, <1>7, <2>1 DEF DeleteAccount
    <2>4. DeletionsSound(x)
      BY <1>2, <1>3, <2>2, <2>3, TellerMoves
    <2>5. /\ q \in DOMAIN deletions /\ deletions[q].status = "Pending"
          /\ deletions[q].bankAccount = a /\ x.decision = "Approved"
      BY <1>3, <1>7, <2>4 DEF DeletionsSound, StillSo, TellerState
    <2>6. a \in DOMAIN bankAccounts /\ deletions[q].bankAccountName = a
      BY <1>7, <2>4, <2>5 DEF DeletionsSound, Named
    <2>7. /\ bankAccounts' \in Seq(BOOLEAN) /\ DOMAIN bankAccounts' = DOMAIN bankAccounts
          /\ ~bankAccounts'[a]
          /\ \A b \in DOMAIN bankAccounts : b # a => bankAccounts'[b] = bankAccounts[b]
          /\ deletions' \in Seq(DeletionRequest) /\ DOMAIN deletions' = DOMAIN deletions
          /\ deletions'[q].bankAccount = NoRow
          /\ \A r \in DOMAIN deletions :
                /\ deletions'[r].bankAccountName = deletions[r].bankAccountName
                /\ deletions'[r].status = deletions[r].status
      BY <1>1, <2>3, <2>5, <2>6, DeleteRows
    <2>8. ASSUME NEW r \in DOMAIN deletions
          PROVE  Named(r)' /\ RequestTrue(to, r)'
      <3>1. Named(r)'
        BY <1>1, <2>3, <2>4, <2>6, StillNamed DEF DeletionsSound
      <3>2. PICK m : m = deletions[r].bankAccountName
        OBVIOUS
      <3>3. /\ m \in DOMAIN bankAccounts
            /\ deletions[r].status = "Approved" => ~bankAccounts[m]
            /\ deletions[r].status = "Pending" => bankAccounts[m] \/ m \in direct
            /\ deletions[r].status = "Pending" /\ m = a => r = q
        BY <1>3, <2>4, <2>5, <2>6, <3>2 DEF DeletionsSound, Named, RequestTrue, Signing, AskedOnce
      <3>4. r = q => Signing(to, r)
        BY <2>2, <2>5 DEF Signing
      <3>5. /\ deletions'[r].bankAccountName = m
            /\ deletions'[r].status = "Approved" => ~bankAccounts'[m]
            /\ deletions'[r].status = "Pending" =>
                  bankAccounts'[m] \/ m \in direct' \/ Signing(to, r)
        BY <1>4, <2>7, <3>2, <3>3, <3>4
      <3>6. QED
        BY <3>1, <3>5 DEF RequestTrue, Signing
    <2>9. ASSUME NEW b \in DOMAIN bankAccounts
          PROVE  GoneSigned(to, b)'
      <3>1. CASE b = a
        <4>1. Signs(to, q, b)'
          BY <2>2, <2>5, <2>6, <2>7, <3>1 DEF Signs, Signing
        <4>2. QED
          BY <2>5, <2>7, <4>1 DEF GoneSigned
      <3>2. CASE b # a
        <4>1. GoneSigned(x, b)
          BY <2>4 DEF DeletionsSound
        <4>2. ASSUME NEW r \in DOMAIN deletions, Signs(x, r, b)
              PROVE  Signs(to, r, b)'
          BY <1>3, <2>7, <4>2 DEF Signs, Signing
        <4>3. QED
          BY <1>4, <2>7, <3>2, <4>1, <4>2 DEF GoneSigned
      <3>3. QED
        BY <3>1, <3>2
    <2>10. AskedOnce'
      BY <2>4, <2>7 DEF DeletionsSound, AskedOnce
    <2>11. StillSo(to)'
      BY <2>2, <2>5, <2>7 DEF StillSo
    <2>12. DeletionsSound(to)'
      BY <2>7, <2>8, <2>9, <2>10, <2>11 DEF DeletionsSound
    <2>13. QED
      BY <1>2, <1>3, <1>4, <2>2, <2>3, <2>7, <2>12, TellerStep
  <1>8. QED
    BY <1>5, <1>6, <1>7
LEMMA SaveDecisionStep ==
    ASSUME BankInv, BankNext, orderly', NEW t \in Tellers, SaveDecision(t)
    PROVE  BankInv'
  <1>1. orderly /\ BankTypes
    BY DEF BankNext, BankInv
  <1>2. PICK x, q : x = teller[t] /\ q = teller[t].request
    OBVIOUS
  <1>3. /\ x \in TellerState /\ x.step = "save" /\ x.request = q /\ x # Waiting
        /\ Proceeds(t, Waiting)
    BY <1>1, <1>2 DEF BankTypes, SaveDecision, Serves, Waiting
  <1>4. DeletionsSound(x)
    BY <1>2, <1>3, TellerMoves, WaitingIsAtRest
  <1>5. /\ q \in DOMAIN deletions /\ deletions[q].status = "Pending"
        /\ x.account = deletions[q].bankAccount /\ x.decision \in {"Approved", "Rejected"}
        /\ x.decision = "Approved" => x.account = NoRow
    BY <1>3, <1>4 DEF DeletionsSound, StillSo, TellerState
  <1>6. Named(q) /\ deletions[q] \in DeletionRequest
    BY <1>1, <1>4, <1>5, RowNumbers DEF DeletionsSound, BankTypes
  <1>7. PICK n : n = deletions[q].bankAccountName
    OBVIOUS
  <1>8. /\ n \in DOMAIN bankAccounts /\ n # NoRow
        /\ x.account = IF bankAccounts[n] THEN n ELSE NoRow
    <2>1. n \in DOMAIN bankAccounts /\ x.account = IF bankAccounts[n] THEN n ELSE NoRow
      BY <1>5, <1>6, <1>7 DEF Named
    <2>2. QED
      BY <1>1, <2>1, RowNumbers DEF BankTypes, NoRow
  <1>9. PICK row : row = [deletions[q] EXCEPT !.status = x.decision, !.bankAccount = x.account]
    OBVIOUS
  <1>10. /\ row \in DeletionRequest /\ row.status = x.decision
         /\ row.bankAccount = deletions[q].bankAccount /\ row.bankAccountName = n
    BY <1>5, <1>6, <1>7, <1>9 DEF DeletionRequest
  <1>11. /\ deletions' = [deletions EXCEPT ![q] = row]
         /\ UNCHANGED <<chart, bankAccounts, statement, direct>>
    <2>1. x.account = NoRow \/ bankAccounts[x.account]
      BY <1>8
    <2>2. QED
      BY <1>1, <1>2, <1>5, <1>9, <2>1 DEF SaveDecision, BankTypes
  <1>12. /\ deletions' \in Seq(DeletionRequest) /\ DOMAIN deletions' = DOMAIN deletions
         /\ deletions'[q] = row
         /\ \A r \in DOMAIN deletions : r # q => deletions'[r] = deletions[r]
    BY <1>1, <1>5, <1>10, <1>11, WriteRow DEF BankTypes
  <1>13. \A r \in DOMAIN deletions :
            /\ deletions'[r].bankAccountName = deletions[r].bankAccountName
            /\ deletions'[r].bankAccount = deletions[r].bankAccount
    BY <1>7, <1>10, <1>12
  <1>14. DeletionsSound(Waiting)'
    <2>1. ASSUME NEW r \in DOMAIN deletions
          PROVE  Named(r)' /\ RequestTrue(Waiting, r)'
      <3>1. Named(r) /\ RequestTrue(x, r)
        BY <1>4 DEF DeletionsSound
      <3>2. Named(r)'
        BY <1>11, <1>13, <3>1 DEF Named
      <3>3. RequestTrue(Waiting, r)'
        <4>1. CASE r = q
          BY <1>5, <1>8, <1>10, <1>11, <1>12, <4>1 DEF RequestTrue
        <4>2. CASE r # q
          BY <1>3, <1>11, <1>12, <3>1, <4>2 DEF RequestTrue, Signing
        <4>3. QED
          BY <4>1, <4>2
      <3>4. QED
        BY <3>2, <3>3
    <2>2. ASSUME NEW b \in DOMAIN bankAccounts
          PROVE  GoneSigned(Waiting, b)'
      <3>1. GoneSigned(x, b)
        BY <1>4 DEF DeletionsSound
      <3>2. ASSUME NEW r \in DOMAIN deletions, Signs(x, r, b)
            PROVE  Signs(Waiting, r, b)'
        <4>1. CASE r = q
          BY <1>5, <1>10, <1>12, <1>13, <3>2, <4>1 DEF Signs, Signing
        <4>2. CASE r # q
          BY <1>3, <1>12, <3>2, <4>2 DEF Signs, Signing
        <4>3. QED
          BY <4>1, <4>2
      <3>3. QED
        BY <1>11, <1>12, <3>1, <3>2 DEF GoneSigned
    <2>3. AskedOnce'
      BY <1>4, <1>5, <1>10, <1>12 DEF DeletionsSound, AskedOnce
    <2>4. StillSo(Waiting)'
      BY DEF StillSo, Waiting
    <2>5. QED
      BY <1>11, <1>12, <2>1, <2>2, <2>3, <2>4 DEF DeletionsSound
  <1>15. QED
    BY <1>1, <1>2, <1>3, <1>11, <1>12, <1>14, WaitingIsAtRest, TellerStep DEF BankTypes

\* While calls come one after the other and staff match what they are shown, at
\* rest the requests tell how each account was deleted, and every ledger line is
\* on one side of an account's view: for any accounts, statements and calls.
THEOREM BankBooksHoldAlways == BankSpec => []BankBooksHold
  <1>1. BankInit => BankInv
    <2>1. SUFFICES ASSUME BankInit PROVE BankInv
      OBVIOUS
    <2>2. /\ chart = {} /\ bankAccounts = << >> /\ statement = << >> /\ deletions = << >>
          /\ teller = [t \in Tellers |-> Waiting] /\ breaks = 0
      BY <2>1 DEF BankInit
    <2>3. BankTypes
      <3>1. /\ bankAccounts \in Seq(BOOLEAN) /\ statement \in Seq(StatementRow)
            /\ deletions \in Seq(DeletionRequest)
        BY <2>2
      <3>2. QED
        BY <2>2, <3>1, WaitingIsAtRest DEF BankTypes
    <2>4. DOMAIN bankAccounts = {} /\ DOMAIN statement = {} /\ DOMAIN deletions = {}
      BY <2>2
    <2>5. OneTeller /\ MatchedOnce /\ Serving(Waiting)
      BY <2>2, <2>4 DEF OneTeller, MatchedOnce, Serving
    <2>6. DeletionsSound(Waiting)
      BY <2>4, WaitingIsAtRest DEF DeletionsSound, AskedOnce
    <2>7. QED
      BY <2>2, <2>3, <2>5, <2>6 DEF BankInv
  <1>2. BankInv /\ [BankNext]_bankVars => BankInv'
    <2>1. SUFFICES ASSUME BankInv, [BankNext]_bankVars, orderly' PROVE BankInv'
      BY DEF BankInv
    <2>2. CASE UNCHANGED bankVars
      BY <2>1, <2>2 DEF bankVars, BankInv, BankTypes, OneTeller, MatchedOnce, Serving,
         DeletionsSound, Named, RequestTrue, GoneSigned, Signs, Signing, AskedOnce, StillSo
    <2>3. CASE BankNext
      <3>1. CASE \E t \in Tellers : \/ \E rows \in SUBSET Codes \ {{}} : ReadChart(t, rows)
                                    \/ \E code \in Codes : ImportAccount(t, code)
        BY <2>1, <2>3, <3>1, ChartSteps
      <3>2. CASE \E t \in Tellers :
                    \/ \E a \in DOMAIN bankAccounts : ReadAccount(t, a) \/ ReadPending(t, a)
                    \/ EditBankAccount(t)
        BY <2>1, <2>3, <3>2, ReadAccountSteps, EditBankAccountStep
      <3>3. CASE \E t \in Tellers :
                    \/ InsertRequest(t) \/ DeleteAccount(t) \/ SaveDecision(t)
                    \/ \E r \in DOMAIN deletions, decision \in {"Approved", "Rejected"} :
                          ReadRequest(t, r, decision)
        BY <2>1, <2>3, <3>3, InsertRequestStep, DeleteAccountStep, SaveDecisionStep,
           ReadRequestStep
      <3>4. CASE \/ \E code \in Codes : CreateBankAccount(code)
                 \/ \E a \in DOMAIN bankAccounts : ImportStatementLine(a) \/ DeleteDirectly(a)
                 \/ \E s \in DOMAIN statement :
                       UnmatchLine(s) \/ \E line \in LedgerLines : MatchLines(s, line)
        BY <2>1, <2>3, <3>4, CreateBankAccountStep, StatementSteps, DeleteDirectlyStep
      <3>5. ~Break
        <4>1. breaks = 0 /\ breaks' = 0
          BY <2>1, <2>3 DEF BankNext, BankInv
        <4>2. QED
          BY <4>1 DEF Break
      <3>6. BankStep
        BY <2>3 DEF BankNext
      <3>7. QED
        BY <3>1, <3>2, <3>3, <3>4, <3>5, <3>6 DEF BankStep
    <2>4. QED
      BY <2>1, <2>2, <2>3
  <1>3. BankInv => BankBooksHold
    <2>1. SUFFICES ASSUME BankInv, orderly, \A t \in Tellers : Serves(t, "idle")
                   PROVE  DeletionsSigned /\ EachLineOnce
      BY DEF BankBooksHold
    <2>2. PICK x : Serving(x) /\ DeletionsSound(x)
      BY <2>1 DEF BankInv
    <2>3. x = Waiting
      BY <2>1, <2>2 DEF Serving, BankInv, BankTypes, Serves
    <2>4. DeletionsSigned
      BY <2>2, <2>3, WaitingIsAtRest DEF DeletionsSound, DeletionsSigned, RequestTrue,
         GoneSigned, Signs, Signing
    <2>5. ASSUME NEW a \in DOMAIN bankAccounts, NEW line \in LedgerLines,
                 line \notin UnmatchedLedger(a)
          PROVE  Cardinality({s \in MatchedStatement(a) :
                                 statement[s].matchedJournalLineId = line}) = 1
      <3>1. PICK z \in MatchedStatement(a) : statement[z].matchedJournalLineId = line
        BY <2>5 DEF UnmatchedLedger
      <3>2. /\ z \in DOMAIN statement /\ statement[z].bankAccount = a /\ line # NoRow
            /\ \A s \in MatchedStatement(a) : s \in DOMAIN statement /\ statement[s].bankAccount = a
        BY <3>1 DEF MatchedStatement, UnmatchedStatement
      <3>3. MatchedOnce
        BY <2>1 DEF BankInv
      <3>4. {s \in MatchedStatement(a) : statement[s].matchedJournalLineId = line} = {z}
        BY <3>1, <3>2, <3>3 DEF MatchedOnce
      <3>5. QED
        BY <3>4, FS_Singleton
    <2>6. QED
      BY <2>4, <2>5 DEF EachLineOnce
  <1>4. QED
    BY <1>1, <1>2, <1>3, PTL DEF BankSpec
-------------------------------------------------------------------------------
(* HrPayroll.                                                               *)

HrSpec == HrInit /\ [][HrNext]_hrVars

\* What is assumed of the constants.
PayrollInputs == FilesInOrder /\ UpdatesInOrder /\ IsFiniteSet(Officers)

IsDesk(q) ==
    q = [step |-> q.step, month |-> q.month, file |-> q.file, at |-> q.at, known |-> q.known,
         run |-> q.run, row |-> q.row, mark |-> q.mark]
IsEmployee(x) == x = [name |-> x.name, user |-> x.user]
IsNamed(e, name) ==
    e \in DOMAIN employees /\ normalizeForMatch(employees[e].name) = name
\* What an upload keeps between its rows: whom each name means.
KnownOK(known) == \A n \in DOMAIN known : IsNamed(known[n], n)
DeskOK(q) ==
    /\ IsDesk(q)
    /\ q.step \in {"run", "clear", "row"} =>
         q.month \in Months /\ q.file \in DOMAIN Exports /\ parsePayrollFile(q.file) # << >>
    /\ q.step = "mark" => \E mark : q.mark = <<mark>>
    /\ q.step = "row" => q.at \in 1 .. Len(parsePayrollFile(q.file)) /\ KnownOK(q.known)
    /\ q.step = "edit" => q.month \in Months
PayrollTyped ==
    /\ \E S : employees \in Seq(S)
    /\ \A e \in DOMAIN employees : IsEmployee(employees[e])
    /\ \E S : attendance \in Seq(S)
    /\ lines \in [Months -> Seq(PayrollLine)]
    /\ sourceFile \in [Months -> DOMAIN Exports \union {0}]
    /\ stops \in Nat /\ inserted \in Nat
    /\ officer = [o \in Officers |-> officer[o]]

\* A line pays the person of a row the amounts of the row, but for what an officer
\* entered in it.
IsEntered(id, c) == c \in editable /\ <<id, c>> \in touched
LinePays(line, row) ==
    /\ IsNamed(line.employee, normalizeForMatch(row.name))
    /\ \A c \in Columns : line.amounts[c] # row.amounts[c] => IsEntered(line.id, c)
Pays(m, rows, n) == Len(lines[m]) = n /\ \A i \in 1 .. n : LinePays(lines[m][i], rows[i])
RowsOfFile(f) == IF f = 0 THEN << >> ELSE parsePayrollFile(f)
AtRow(m) == \E o \in Officers : OfficerAt(o, "row") /\ officer[o].month = m
\* Of a month in which no upload inserts rows the whole file is there, and of one
\* that does the rows so far.
SmoothInv ==
    /\ \A o, p \in Officers : ~OfficerAt(o, "idle") /\ ~OfficerAt(p, "idle") => o = p
    /\ \A m \in Months : ~AtRow(m) =>
          Pays(m, RowsOfFile(sourceFile[m]), Len(RowsOfFile(sourceFile[m])))
    /\ \A o \in Officers : OfficerAt(o, "row") =>
          Pays(officer[o].month, parsePayrollFile(officer[o].file), officer[o].at - 1)
PayrollInv ==
    /\ PayrollTyped
    /\ \A o \in Officers : DeskOK(officer[o])
    /\ smooth \in BOOLEAN
    /\ smooth => SmoothInv

\* What the history variable says of a step.
SmoothStep ==
    /\ smooth' \in BOOLEAN
    /\ smooth' =>
         /\ smooth
         /\ \A o, p \in Officers : officer'[o].step # "idle" /\ officer'[p].step # "idle" => o = p
LEMMA SmoothKept ==
    ASSUME PayrollInputs, HrNext
    PROVE  SmoothStep /\ (smooth' => stops' = 0)
  <1>1. PICK W : W = {o \in Officers : officer'[o].step # "idle"}
    OBVIOUS
  <1>2. IsFiniteSet(W) /\ Cardinality(W) \in Nat
    BY <1>1, FS_Subset, FS_CardinalityType DEF PayrollInputs
  <1>3. smooth' = (smooth /\ stops' = 0 /\ Cardinality(W) <= 1)
    BY <1>1, Zenon DEF HrNext
  <1>4. ASSUME Cardinality(W) <= 1, NEW o \in W, NEW p \in W PROVE o = p
    <2>1. SUFFICES ASSUME o # p PROVE FALSE
      OBVIOUS
    <2>2. PICK pair : pair = {o} \union {p}
      OBVIOUS
    <2>3. Cardinality(pair) = 2 /\ pair \subseteq W
      <3>1. IsFiniteSet({o}) /\ Cardinality({o}) = 1
        BY FS_Singleton
      <3>2. QED
        BY <2>1, <2>2, <3>1, FS_AddElement
    <2>4. Cardinality(pair) <= Cardinality(W)
      BY <1>2, <2>3, FS_Subset
    <2>5. QED
      BY <1>2, <1>4, <2>3, <2>4
  <1>5. QED
    BY <1>1, <1>3, <1>4 DEF SmoothStep

\* Nobody is renamed or leaves the register, and what was entered was.
NamesStay == \A e, n : IsNamed(e, n) => IsNamed(e, n)'
RecordsStay == NamesStay /\ touched \subseteq touched'
LEMMA DeskStays == ASSUME NamesStay, NEW q, DeskOK(q) PROVE DeskOK(q)'
  BY DEF NamesStay, DeskOK, KnownOK
LEMMA LineStays ==
    ASSUME RecordsStay, NEW line, NEW row, LinePays(line, row)
    PROVE  LinePays(line, row)'
  BY DEF RecordsStay, NamesStay, LinePays, IsEntered
LEMMA PaysStays ==
    ASSUME RecordsStay, NEW m, NEW rows, NEW n, lines'[m] = lines[m], Pays(m, rows, n)
    PROVE  Pays(m, rows, n)'
  <1>1. PICK all : all = lines[m]
    OBVIOUS
  <1>2. \A i \in 1 .. n : LinePays(all[i], rows[i])'
    BY <1>1, LineStays DEF Pays
  <1>3. QED
    BY <1>1, <1>2 DEF Pays

\* The desks stay as they are, and so do the lines.
LEMMA RegisterChanges ==
    ASSUME PayrollInv, SmoothStep, RecordsStay, UNCHANGED <<attendance, lineVars, sourceFile, officer, stops>>,
           \E S : employees' \in Seq(S), \A e \in DOMAIN employees' : IsEmployee(employees'[e])
    PROVE  PayrollInv'
  <1>1. PayrollTyped'
    BY DEF PayrollInv, PayrollTyped, lineVars
  <1>2. ASSUME NEW o \in Officers PROVE DeskOK(officer[o])'
    <2>1. PICK q : q = officer[o]
      OBVIOUS
    <2>2. QED
      BY <2>1, DeskStays DEF PayrollInv, RecordsStay
  <1>3. ASSUME smooth' PROVE SmoothInv'
    <2>1. SmoothInv
      BY <1>3 DEF PayrollInv, SmoothStep
    <2>2. ASSUME NEW m, NEW rows, NEW n, Pays(m, rows, n) PROVE Pays(m, rows, n)'
      BY <2>2, PaysStays DEF lineVars
    <2>3. ASSUME NEW m \in Months, ~AtRow(m)'
          PROVE  Pays(m, RowsOfFile(sourceFile[m]), Len(RowsOfFile(sourceFile[m])))'
      <3>1. PICK rows, n : rows = RowsOfFile(sourceFile[m]) /\ n = Len(rows)
        OBVIOUS
      <3>2. Pays(m, rows, n)
        BY <2>1, <2>3, <3>1 DEF SmoothInv, AtRow, OfficerAt
      <3>3. QED
        BY <2>2, <3>1, <3>2 DEF RowsOfFile
    <2>4. ASSUME NEW o \in Officers, OfficerAt(o, "row")'
          PROVE  Pays(officer[o].month, parsePayrollFile(officer[o].file), officer[o].at - 1)'
      <3>1. PICK m, rows, n : /\ m = officer[o].month /\ n = officer[o].at - 1
                              /\ rows = parsePayrollFile(officer[o].file)
        OBVIOUS
      <3>2. Pays(m, rows, n)
        BY <2>1, <2>4, <3>1 DEF SmoothInv, OfficerAt
      <3>3. QED
        BY <2>2, <3>1, <3>2
    <2>5. QED
      BY <2>1, <2>3, <2>4 DEF SmoothInv, OfficerAt
  <1>4. QED
    BY <1>1, <1>2, <1>3 DEF PayrollInv, SmoothStep

\* One desk turns to something else.
LEMMA DeskTurns ==
    ASSUME PayrollInv, SmoothStep, RecordsStay, PayrollTyped', NEW o \in Officers, NEW q,
           officer' = [officer EXCEPT ![o] = q], DeskOK(q)',
           q.step # "idle" \/ ~OfficerAt(o, "idle"),
           smooth' /\ SmoothInv =>
             /\ \A m \in Months : ~AtRow(m)' =>
                   Pays(m, RowsOfFile(sourceFile[m]), Len(RowsOfFile(sourceFile[m])))'
             /\ q.step = "row" => Pays(q.month, parsePayrollFile(q.file), q.at - 1)'
    PROVE  PayrollInv'
  <1>1. \A p \in Officers : officer'[p] = IF p = o THEN q ELSE officer[p]
    BY DEF PayrollInv, PayrollTyped
  <1>2. ASSUME NEW p \in Officers PROVE DeskOK(officer[p])'
    <2>1. PICK d : d = officer[p]
      OBVIOUS
    <2>2. DeskOK(d)'
      BY <2>1, DeskStays DEF PayrollInv, RecordsStay
    <2>3. QED
      BY <1>1, <2>1, <2>2
  <1>3. ASSUME smooth' PROVE SmoothInv'
    <2>1. SmoothInv
      BY <1>3 DEF PayrollInv, SmoothStep
    <2>2. ASSUME NEW p \in Officers, OfficerAt(p, "row")'
          PROVE  Pays(officer[p].month, parsePayrollFile(officer[p].file), officer[p].at - 1)'
      <3>1. p = o
        BY <1>1, <1>3, <2>1, <2>2 DEF SmoothInv, SmoothStep, OfficerAt
      <3>2. QED
        BY <1>1, <1>3, <2>1, <2>2, <3>1 DEF OfficerAt
    <2>3. QED
      BY <1>3, <2>1, <2>2 DEF SmoothInv, SmoothStep, OfficerAt
  <1>4. QED
    BY <1>2, <1>3 DEF PayrollInv, SmoothStep

\* It keeps away from the lines.
LEMMA DeskTurnsAway ==
    ASSUME PayrollInv, SmoothStep, NEW o \in Officers, NEW q,
           officer' = [officer EXCEPT ![o] = q], DeskOK(q), q.step # "row", ~OfficerAt(o, "row"),
           q.step # "idle" \/ ~OfficerAt(o, "idle"), stops' = stops,
           UNCHANGED <<employees, lineVars, sourceFile>>, \E S : attendance' \in Seq(S)
    PROVE  PayrollInv'
  <1>1. RecordsStay
    BY DEF RecordsStay, NamesStay, IsNamed, lineVars
  <1>2. PayrollTyped'
    BY DEF PayrollInv, PayrollTyped, lineVars
  <1>3. DeskOK(q)'
    BY <1>1, DeskStays DEF RecordsStay
  <1>4. ASSUME SmoothInv, NEW m \in Months, ~AtRow(m)'
        PROVE  Pays(m, RowsOfFile(sourceFile[m]), Len(RowsOfFile(sourceFile[m])))'
    <2>1. ~AtRow(m)
      BY <1>4 DEF AtRow, OfficerAt, PayrollInv, PayrollTyped
    <2>2. PICK rows, n : rows = RowsOfFile(sourceFile[m]) /\ n = Len(rows)
      OBVIOUS
    <2>3. Pays(m, rows, n)'
      BY <1>1, <1>4, <2>1, <2>2, PaysStays DEF SmoothInv, lineVars
    <2>4. QED
      BY <2>2, <2>3
  <1>5. QED
    BY <1>1, <1>2, <1>3, <1>4, DeskTurns

LEMMA TypedTurns ==
    ASSUME PayrollInv, NEW o \in Officers
    PROVE  DeskOK(AtDesk) /\ DeskOK(officer[o])
  BY DEF DeskOK, IsDesk, AtDesk, PayrollInv

\* Of a request that only reads or writes no line.
LEMMA ReadStep ==
    ASSUME PayrollInv, SmoothStep, NEW o \in Officers,
           \/ \E e, date, status : ReadAttendance(o, e, date, status)
           \/ markAttendance(o)
           \/ \E m \in Months, f \in DOMAIN Exports : ReadRun(o, m, f)
           \/ SaveRun(o)
           \/ \E m \in Months : \E i \in DOMAIN lines[m] : ReadLine(o, m, i)
           \/ \E m \in Months : ReadForFinalize(o, m)
           \/ finalize(o)
    PROVE  PayrollInv'
  <1>1. PICK v : v = officer[o]
    OBVIOUS
  <1>2. DeskOK(v) /\ DeskOK(AtDesk)
    BY <1>1, TypedTurns
  <1>3. /\ IsDesk(AtDesk) /\ AtDesk.step = "idle"
        /\ UNCHANGED <<employees, lineVars, sourceFile, stops>>
    BY <1>2 DEF AtDesk, DeskOK, ReadAttendance, markAttendance, ReadRun, SaveRun, ReadLine, ReadForFinalize, finalize
  <1>4. ASSUME UNCHANGED attendance, NEW q, OfficerGoes(o, q), DeskOK(q), q.step # "row",
               v.step # "row", q.step # "idle" \/ v.step # "idle"
        PROVE  PayrollInv'
    <2>1. \E S : attendance' \in Seq(S)
      BY <1>4 DEF PayrollInv, PayrollTyped
    <2>2. QED
      BY <1>1, <1>3, <1>4, <2>1, DeskTurnsAway DEF OfficerGoes, OfficerAt
  <1>5. ASSUME NEW e, NEW date, NEW status, ReadAttendance(o, e, date, status) PROVE PayrollInv'
    <2>1. PICK row, mark : OfficerGoes(o, [AtDesk EXCEPT !.step = "mark", !.row = row, !.mark = <<mark>>])
      BY <1>5 DEF ReadAttendance
    <2>2. PICK q : q = [AtDesk EXCEPT !.step = "mark", !.row = row, !.mark = <<mark>>]
      OBVIOUS
    <2>3. IsDesk(q) /\ q.step = "mark" /\ q.mark = <<mark>>
      BY <2>2 DEF AtDesk, IsDesk
    <2>4. DeskOK(q)
      BY <2>3 DEF DeskOK
    <2>5. QED
      BY <1>1, <1>4, <1>5, <2>1, <2>2, <2>3, <2>4 DEF ReadAttendance, OfficerAt
  <1>6. CASE markAttendance(o)
    <2>1. v.step = "mark" /\ OfficerGoes(o, AtDesk)
      BY <1>1, <1>6 DEF markAttendance, OfficerAt
    <2>2. PICK mark : v.mark = <<mark>>
      BY <1>2, <2>1 DEF DeskOK
    <2>3. PICK S : attendance \in Seq(S)
      BY DEF PayrollInv, PayrollTyped
    <2>4. PICK T : T = S \union {mark}
      OBVIOUS
    <2>5. attendance \in Seq(T) /\ mark \in T /\ <<mark>> \in Seq(T)
      BY <2>3, <2>4
    <2>6. /\ attendance \o <<mark>> \in Seq(T)
          /\ \A i : [attendance EXCEPT ![i] = mark] \in Seq(T)
      <3>1. attendance \o <<mark>> \in Seq(T)
        BY <2>5, ConcatProperties
      <3>2. ASSUME NEW i PROVE [attendance EXCEPT ![i] = mark] \in Seq(T)
        <4>1. CASE i \in DOMAIN attendance
          BY <2>5, <4>1, ExceptSeq
        <4>2. CASE i \notin DOMAIN attendance
          <5>1. [attendance EXCEPT ![i] = mark] = attendance
            BY <2>5, <4>2
          <5>2. QED
            BY <2>5, <5>1
        <4>3. QED
          BY <4>1, <4>2
      <3>3. QED
        BY <3>1, <3>2
    <2>7. attendance' \in Seq(T)
      BY <1>1, <1>6, <2>2, <2>6 DEF markAttendance
    <2>8. QED
      BY <1>1, <1>2, <1>3, <2>1, <2>7, DeskTurnsAway DEF OfficerGoes, OfficerAt
  <1>7. ASSUME NEW m \in Months, NEW f \in DOMAIN Exports, ReadRun(o, m, f) PROVE PayrollInv'
    <2>1. PICK q : q = [AtDesk EXCEPT !.step = "run", !.month = m, !.file = f, !.run = runs[m]]
      OBVIOUS
    <2>2. IsDesk(q) /\ q.step = "run" /\ q.month = m /\ q.file = f
      BY <2>1 DEF AtDesk, IsDesk
    <2>3. DeskOK(q)
      BY <1>7, <2>2 DEF DeskOK, ReadRun
    <2>4. QED
      BY <1>1, <1>4, <1>7, <2>1, <2>2, <2>3 DEF ReadRun, OfficerAt
  <1>8. CASE SaveRun(o)
    <2>1. PICK q : q = [v EXCEPT !.step = "clear"]
      OBVIOUS
    <2>2. IsDesk(q) /\ q.step = "clear" /\ q.month = v.month /\ q.file = v.file /\ v.step = "run"
      BY <1>1, <1>2, <1>8, <2>1 DEF DeskOK, IsDesk, SaveRun, OfficerAt
    <2>3. DeskOK(q)
      BY <1>2, <2>2 DEF DeskOK
    <2>4. UNCHANGED attendance /\ (OfficerGoes(o, AtDesk) \/ OfficerGoes(o, q))
      BY <1>1, <1>8, <2>1 DEF SaveRun
    <2>5. QED
      BY <1>2, <1>3, <1>4, <2>2, <2>3, <2>4
  <1>9. ASSUME NEW m \in Months, NEW i, ReadLine(o, m, i) PROVE PayrollInv'
    <2>1. PICK q : q = [AtDesk EXCEPT !.step = "edit", !.month = m, !.row = lines[m][i].id]
      OBVIOUS
    <2>2. IsDesk(q) /\ q.step = "edit" /\ q.month = m
      BY <2>1 DEF AtDesk, IsDesk
    <2>3. DeskOK(q)
      BY <2>2 DEF DeskOK
    <2>4. QED
      BY <1>1, <1>4, <1>9, <2>1, <2>2, <2>3 DEF ReadLine, OfficerAt
  <1>10. ASSUME NEW m \in Months, ReadForFinalize(o, m) PROVE PayrollInv'
    <2>1. PICK q : q = [AtDesk EXCEPT !.step = "finalize", !.month = m]
      OBVIOUS
    <2>2. IsDesk(q) /\ q.step = "finalize"
      BY <2>1 DEF AtDesk, IsDesk
    <2>3. DeskOK(q)
      BY <2>2 DEF DeskOK
    <2>4. QED
      BY <1>1, <1>4, <1>10, <2>1, <2>2, <2>3 DEF ReadForFinalize, OfficerAt
  <1>11. CASE finalize(o)
    BY <1>1, <1>2, <1>3, <1>4, <1>11 DEF finalize, OfficerAt
  <1>12. QED
    BY <1>5, <1>6, <1>7, <1>8, <1>9, <1>10, <1>11

LEMMA MaxOfNaturals ==
    ASSUME NEW n \in Nat, NEW S \in SUBSET (0 .. n), S # {}
    PROVE  Max(S) \in S
  <1>1. PICK x \in S : \A y \in S : y <= x
    BY GreatestNatural
  <1>2. \A y \in S : x >= y
    BY <1>1
  <1>3. QED
    BY <1>2 DEF Max

LEMMA MinOfNaturals ==
    ASSUME NEW n \in Nat, NEW S \in SUBSET (0 .. n), S # {}
    PROVE  Min(S) \in S
  <1>1. PICK T : T = {n - y : y \in S}
    OBVIOUS
  <1>2. T \in SUBSET (0 .. n) /\ T # {}
    <2>1. \A y \in 0 .. n : n - y \in 0 .. n
      OBVIOUS
    <2>2. QED
      BY <1>1, <2>1
  <1>3. PICK t \in T : \A y \in T : y <= t
    BY <1>2, GreatestNatural
  <1>4. PICK x \in S : t = n - x
    BY <1>1, <1>3
  <1>5. \A y \in S : x <= y
    BY <1>1, <1>3, <1>4
  <1>6. QED
    BY <1>5 DEF Min

\* The map that an upload reads of the register knows each name it has.
LEMMA NamesKnown ==
    ASSUME PayrollTyped
    PROVE  KnownOK(ByNormalizedName)
  <1>1. PICK n : n = Len(employees) /\ n \in Nat /\ DOMAIN employees = 1 .. n
    BY LenProperties DEF PayrollTyped
  <1>2. ASSUME NEW name \in DOMAIN ByNormalizedName
        PROVE  IsNamed(ByNormalizedName[name], name)
    <2>1. PICK S : S = {e \in DOMAIN employees : normalizeForMatch(employees[e].name) = name}
      OBVIOUS
    <2>2. S \in SUBSET (0 .. n) /\ S # {} /\ ByNormalizedName[name] = Max(S)
      BY <1>1, <1>2, <2>1 DEF ByNormalizedName
    <2>3. Max(S) \in S
      BY <1>1, <2>2, MaxOfNaturals
    <2>4. QED
      BY <2>1, <2>2, <2>3 DEF IsNamed
  <1>3. QED
    BY <1>2 DEF KnownOK

LEMMA ClearLinesStep ==
    ASSUME FilesInOrder, PayrollInv, SmoothStep, NEW o \in Officers, ClearLines(o)
    PROVE  PayrollInv'
  <1>1. PICK v : v = officer[o]
    OBVIOUS
  <1>2. PICK q : q = [v EXCEPT !.step = "row", !.at = 1, !.known = ByNormalizedName]
    OBVIOUS
  <1>3. DeskOK(v) /\ v.step = "clear"
    BY <1>1, TypedTurns DEF ClearLines, OfficerAt
  <1>4. /\ IsDesk(q) /\ q.step = "row" /\ q.at = 1 /\ q.known = ByNormalizedName
        /\ q.month = v.month /\ q.file = v.file
    BY <1>2, <1>3 DEF DeskOK, IsDesk
  <1>5. PICK m, rows : m = v.month /\ rows = parsePayrollFile(v.file)
    OBVIOUS
  <1>6. /\ m \in Months /\ lines' = [lines EXCEPT ![m] = << >>]
        /\ UNCHANGED <<employees, attendance, inserted, touched, sourceFile, stops>>
        /\ officer' = [officer EXCEPT ![o] = q]
    BY <1>1, <1>2, <1>3, <1>5 DEF ClearLines, DeskOK, OfficerGoes
  <1>7. \A k \in Months : lines'[k] = IF k = m THEN << >> ELSE lines[k]
    BY <1>6 DEF PayrollInv, PayrollTyped
  <1>8. RecordsStay
    BY <1>6 DEF RecordsStay, NamesStay, IsNamed
  <1>9. PayrollTyped'
    <2>1. lines' \in [Months -> Seq(PayrollLine)]
      BY <1>6, EmptySeq DEF PayrollInv, PayrollTyped
    <2>2. QED
      BY <1>6, <2>1 DEF PayrollInv, PayrollTyped
  <1>10. DeskOK(q)
    <2>1. KnownOK(q.known)
      BY <1>4, NamesKnown DEF PayrollInv
    <2>2. 1 \in 1 .. Len(rows)
      <3>1. rows # << >> /\ rows \in Seq(SheetRow)
        BY <1>3, <1>5, Zenon DEF DeskOK, FilesInOrder
      <3>2. QED
        BY <3>1, EmptySeq, LenProperties
    <2>3. QED
      BY <1>3, <1>4, <1>5, <2>1, <2>2 DEF DeskOK
  <1>11. DeskOK(q)'
    BY <1>8, <1>10, DeskStays DEF RecordsStay
  <1>12. ASSUME SmoothInv, NEW k \in Months, ~AtRow(k)'
         PROVE  Pays(k, RowsOfFile(sourceFile[k]), Len(RowsOfFile(sourceFile[k])))'
    <2>1. officer'[o] = q
      BY <1>6 DEF PayrollInv, PayrollTyped
    <2>2. k # m
      BY <1>4, <1>5, <1>12, <2>1 DEF AtRow, OfficerAt
    <2>3. ~AtRow(k)
      BY <1>1, <1>3, <1>6, <1>12 DEF AtRow, OfficerAt, PayrollInv, PayrollTyped
    <2>4. PICK file, n : file = RowsOfFile(sourceFile[k]) /\ n = Len(file)
      OBVIOUS
    <2>5. Pays(k, file, n)'
      BY <1>7, <1>8, <1>12, <2>2, <2>3, <2>4, PaysStays DEF SmoothInv
    <2>6. QED
      BY <1>6, <2>4, <2>5
  <1>13. Pays(m, rows, q.at - 1)'
    <2>1. lines'[m] = << >> /\ q.at - 1 = 0 /\ 1 .. 0 = {}
      BY <1>4, <1>6, <1>7
    <2>2. QED
      BY <2>1 DEF Pays
  <1>14. QED
    BY <1>4, <1>5, <1>6, <1>8, <1>9, <1>11, <1>12, <1>13, DeskTurns

\* An employee more.
LEMMA EmployeeAdded ==
    ASSUME PayrollTyped, NEW x, IsEmployee(x), employees' = Append(employees, x)
    PROVE  /\ \E S : employees' \in Seq(S)
           /\ \A e \in DOMAIN employees' : IsEmployee(employees'[e])
           /\ NamesStay
           /\ Len(employees) + 1 \in DOMAIN employees' /\ Len(employees) + 1 \in Nat
           /\ employees'[Len(employees) + 1] = x
  <1>1. PICK S : employees \in Seq(S)
    BY DEF PayrollTyped
  <1>2. PICK T : T = S \union {x}
    OBVIOUS
  <1>3. employees \in Seq(T) /\ x \in T
    BY <1>1, <1>2
  <1>4. /\ employees' \in Seq(T)
        /\ Len(employees) \in Nat /\ DOMAIN employees = 1 .. Len(employees)
        /\ DOMAIN employees' = 1 .. (Len(employees) + 1)
        /\ employees'[Len(employees) + 1] = x
        /\ \A e \in DOMAIN employees : employees'[e] = employees[e]
    BY <1>3, AppendProperties, LenProperties
  <1>5. \A e \in DOMAIN employees' : IsEmployee(employees'[e])
    BY <1>4 DEF PayrollTyped
  <1>6. NamesStay
    BY <1>4 DEF NamesStay, IsNamed
  <1>7. QED
    BY <1>4, <1>5, <1>6

\* The employee of a row: one that its name is known to mean, or a new one.
RowFinds(known, name, key, e, next) ==
    /\ KnownOK(known)
    /\ key = normalizeForMatch(name)
    /\ e = IF key \in DOMAIN known THEN known[key] ELSE Len(employees) + 1
    /\ next = [n \in DOMAIN known \union {key} |-> IF n = key THEN e ELSE known[n]]
    /\ employees' = IF key \in DOMAIN known THEN employees
                    ELSE Append(employees, [name |-> name, user |-> NoUser])
LEMMA RowFindsEmployee ==
    ASSUME PayrollTyped, NEW known, NEW name, NEW key, NEW e, NEW next,
           RowFinds(known, name, key, e, next)
    PROVE  /\ \E S : employees' \in Seq(S)
           /\ \A x \in DOMAIN employees' : IsEmployee(employees'[x])
           /\ NamesStay /\ e \in Nat /\ IsNamed(e, key)' /\ KnownOK(next)'
  <1> USE DEF RowFinds
  <1>1. /\ \E S : employees' \in Seq(S)
        /\ \A x \in DOMAIN employees' : IsEmployee(employees'[x])
        /\ NamesStay /\ e \in Nat /\ IsNamed(e, key)'
    <2>1. CASE key \in DOMAIN known
      <3>1. IsNamed(e, key) /\ NamesStay
        BY <2>1 DEF KnownOK, NamesStay, IsNamed
      <3>2. e \in Nat
        BY <3>1, LenProperties DEF IsNamed, PayrollTyped
      <3>3. QED
        BY <2>1, <3>1, <3>2 DEF NamesStay, PayrollTyped
    <2>2. CASE key \notin DOMAIN known
      <3>1. PICK x : x = [name |-> name, user |-> NoUser]
        OBVIOUS
      <3>2. IsEmployee(x) /\ x.name = name
        BY <3>1 DEF IsEmployee
      <3>3. employees' = Append(employees, x)
        BY <2>2, <3>1
      <3>4. QED
        BY <2>2, <3>2, <3>3, EmployeeAdded DEF IsNamed
    <2>3. QED
      BY <2>1, <2>2
  <1>2. ASSUME NEW n \in DOMAIN next PROVE IsNamed(next[n], n)'
    <2>1. CASE n = key
      BY <1>1, <2>1
    <2>2. CASE n # key
      <3>1. n \in DOMAIN known /\ next[n] = known[n]
        BY <2>2
      <3>2. IsNamed(known[n], n)
        BY <3>1 DEF KnownOK
      <3>3. QED
        BY <1>1, <3>1, <3>2 DEF NamesStay
    <2>3. QED
      BY <2>1, <2>2
  <1>3. QED
    BY <1>1, <1>2 DEF KnownOK

LEMMA AbsencesCounted ==
    ASSUME PayrollTyped, NEW e, NEW m
    PROVE  countUnexcusedAbsences(e, m) \in Nat
  <1>1. IsFiniteSet(DOMAIN attendance)
    <2>1. DOMAIN attendance = 1 .. Len(attendance) /\ Len(attendance) \in Nat
      BY LenProperties DEF PayrollTyped
    <2>2. QED
      BY <2>1, FS_Interval
  <1>2. PICK S : S = {i \in DOMAIN attendance :
                        /\ attendance[i].employee = e
                        /\ attendance[i].date[1] = m
                        /\ attendance[i].status = "Absent"
                        /\ ~ \E l \in leave : /\ l.employee = e /\ l.status = "Approved"
                                              /\ l.from <= attendance[i].date[2]
                                              /\ attendance[i].date[2] <= l.to}
    OBVIOUS
  <1>3. IsFiniteSet(S) /\ Cardinality(S) \in Nat
    BY <1>1, <1>2, FS_Subset, FS_CardinalityType
  <1>4. QED
    BY <1>2, <1>3 DEF countUnexcusedAbsences

LEMMA UploadPayrollStep ==
    ASSUME FilesInOrder, PayrollInv, SmoothStep, NEW o \in Officers, uploadPayroll(o)
    PROVE  PayrollInv'
  <1>1. PICK v : v = officer[o]
    OBVIOUS
  <1>2. DeskOK(v) /\ v.step = "row" /\ PayrollTyped
    BY <1>1, TypedTurns DEF uploadPayroll, OfficerAt, PayrollInv
  <1>3. PICK m, rows, at : m = v.month /\ rows = parsePayrollFile(v.file) /\ at = v.at
    OBVIOUS
  <1>4. /\ m \in Months /\ v.file \in DOMAIN Exports /\ rows \in Seq(SheetRow)
        /\ at \in 1 .. Len(rows) /\ KnownOK(v.known)
    BY <1>2, <1>3, Zenon DEF DeskOK, FilesInOrder
  <1>5. PICK row : row = rows[at]
    OBVIOUS
  <1>6. row \in SheetRow
    BY <1>4, <1>5, ElementOfSeq, LenProperties
  <1>7. PICK key : key = normalizeForMatch(row.name)
    OBVIOUS
  <1>8. PICK e : e = IF key \in DOMAIN v.known THEN v.known[key] ELSE Len(employees) + 1
    OBVIOUS
  <1>9. PICK next : next = [n \in DOMAIN v.known \union {key} |-> IF n = key THEN e ELSE v.known[n]]
    OBVIOUS
  <1>10. PICK line : line =
           [id |-> inserted', employee |-> e, amounts |-> row.amounts,
            absenceDeduction |-> row.amounts["rate"] * countUnexcusedAbsences(e, m)]
    OBVIOUS
  <1>11. PICK q : q = IF at < Len(rows) THEN [v EXCEPT !.at = @ + 1, !.known = next] ELSE AtDesk
    OBVIOUS
  <1>12. /\ employees' = IF key \in DOMAIN v.known THEN employees
                         ELSE Append(employees, [name |-> row.name, user |-> NoUser])
         /\ lines' = [lines EXCEPT ![m] = Append(lines[m], line)]
         /\ sourceFile' = IF at < Len(rows) THEN sourceFile
                          ELSE [sourceFile EXCEPT ![m] = v.file]
         /\ inserted' = inserted + 1 /\ UNCHANGED <<attendance, touched, stops>>
    BY <1>1, <1>3, <1>5, <1>7, <1>8, <1>10 DEF uploadPayroll
  <1>13. officer' = [officer EXCEPT ![o] = q]
    BY <1>1, <1>3, <1>5, <1>7, <1>8, <1>9, <1>11 DEF uploadPayroll, OfficerGoes
  <1>14. /\ \E S : employees' \in Seq(S)
         /\ \A x \in DOMAIN employees' : IsEmployee(employees'[x])
         /\ RecordsStay /\ e \in Nat /\ IsNamed(e, key)' /\ KnownOK(next)'
    <2>1. RowFinds(v.known, row.name, key, e, next)
      BY <1>4, <1>7, <1>8, <1>9, <1>12 DEF RowFinds
    <2>2. QED
      BY <1>2, <1>12, <2>1, RowFindsEmployee DEF RecordsStay
  <1>15. line \in PayrollLine /\ LinePays(line, row)'
    <2>1. countUnexcusedAbsences(e, m) \in Nat
      BY <1>2, AbsencesCounted
    <2>2. row.amounts \in Amounts /\ row.amounts["rate"] \in Nat
      BY <1>6 DEF SheetRow, Amounts, Columns
    <2>3. row.amounts["rate"] * countUnexcusedAbsences(e, m) \in Nat
      BY <2>1, <2>2
    <2>4. inserted' \in Nat
      BY <1>2, <1>12 DEF PayrollTyped
    <2>5. line \in PayrollLine
      BY <1>10, <1>14, <2>2, <2>3, <2>4 DEF PayrollLine
    <2>6. LinePays(line, row)'
      BY <1>7, <1>10, <1>14 DEF LinePays
    <2>7. QED
      BY <2>5, <2>6
  <1>16. /\ lines[m] \in Seq(PayrollLine)
         /\ \A k \in Months : lines'[k] = IF k = m THEN Append(lines[m], line) ELSE lines[k]
    BY <1>2, <1>4, <1>12 DEF PayrollTyped
  <1>17. /\ Append(lines[m], line) \in Seq(PayrollLine)
         /\ Len(Append(lines[m], line)) = Len(lines[m]) + 1 /\ Len(lines[m]) \in Nat
         /\ Append(lines[m], line)[Len(lines[m]) + 1] = line
         /\ \A i \in 1 .. Len(lines[m]) : Append(lines[m], line)[i] = lines[m][i]
    BY <1>15, <1>16, AppendProperties, LenProperties
  <1>18. PayrollTyped'
    <2>1. lines' \in [Months -> Seq(PayrollLine)]
      BY <1>2, <1>12, <1>17 DEF PayrollTyped
    <2>2. sourceFile' \in [Months -> DOMAIN Exports \union {0}]
      BY <1>2, <1>4, <1>12 DEF PayrollTyped
    <2>3. officer' = [p \in Officers |-> officer'[p]]
      BY <1>2, <1>13 DEF PayrollTyped
    <2>4. inserted' \in Nat
      BY <1>2, <1>12 DEF PayrollTyped
    <2>5. QED
      BY <1>2, <1>12, <1>14, <2>1, <2>2, <2>3, <2>4 DEF PayrollTyped
  <1>19. /\ at < Len(rows) => /\ IsDesk(q) /\ q.step = "row" /\ q.at = at + 1 /\ q.known = next
                              /\ q.month = m /\ q.file = v.file
         /\ ~(at < Len(rows)) => q = AtDesk /\ q.step = "idle"
    BY <1>2, <1>3, <1>11 DEF DeskOK, IsDesk, AtDesk
  <1>20. DeskOK(q)'
    <2>1. CASE at < Len(rows)
      <3>1. at + 1 \in 1 .. Len(rows)
        BY <1>4, <2>1, LenProperties
      <3>2. QED
        BY <1>2, <1>3, <1>4, <1>14, <1>19, <2>1, <3>1 DEF DeskOK
    <2>2. CASE ~(at < Len(rows))
      BY <1>19, <2>2, TypedTurns DEF DeskOK, IsDesk, AtDesk
    <2>3. QED
      BY <2>1, <2>2
  <1>21. SmoothInv => Pays(m, rows, at)'
    <2>1. SUFFICES ASSUME SmoothInv PROVE Pays(m, rows, at)'
      OBVIOUS
    <2>2. Pays(m, rows, at - 1)
      BY <1>1, <1>2, <1>3, <2>1 DEF SmoothInv, OfficerAt
    <2>3. at \in Nat \ {0} /\ Len(lines[m]) = at - 1
      BY <1>4, <2>2, LenProperties DEF Pays
    <2>4. PICK all : all = lines'[m]
      OBVIOUS
    <2>5. /\ Len(all) = at /\ all[at] = line
          /\ \A i \in 1 .. (at - 1) : all[i] = lines[m][i]
      <3>1. PICK old, n : old = lines[m] /\ n = Len(old)
        OBVIOUS
      <3>2. all = Append(old, line)
        BY <1>4, <1>16, <2>4, <3>1
      <3>3. n = at - 1 /\ at = n + 1
        BY <2>3, <3>1
      <3>4. Len(all) = n + 1 /\ all[n + 1] = line /\ \A i \in 1 .. n : all[i] = old[i]
        BY <1>17, <3>1, <3>2
      <3>5. QED
        BY <3>1, <3>3, <3>4
    <2>6. ASSUME NEW i \in 1 .. at PROVE LinePays(all[i], rows[i])'
      <3>1. CASE i = at
        BY <1>5, <1>15, <2>5, <3>1
      <3>2. CASE i # at
        <4>1. i \in 1 .. (at - 1)
          BY <2>3, <3>2
        <4>2. LinePays(all[i], rows[i])
          BY <2>2, <2>5, <4>1 DEF Pays
        <4>3. QED
          BY <1>14, <4>2, LineStays
      <3>3. QED
        BY <3>1, <3>2
    <2>7. QED
      BY <2>4, <2>5, <2>6 DEF Pays
  <1>22. ASSUME SmoothInv, NEW k \in Months, ~AtRow(k)'
         PROVE  Pays(k, RowsOfFile(sourceFile[k]), Len(RowsOfFile(sourceFile[k])))'
    <2>1. officer'[o] = q
      BY <1>2, <1>13 DEF PayrollTyped
    <2>2. CASE k = m
      <3>1. ~(at < Len(rows))
        BY <1>19, <1>22, <2>1, <2>2 DEF AtRow, OfficerAt
      <3>2. at = Len(rows) /\ sourceFile'[k] = v.file
        BY <1>2, <1>4, <1>12, <2>2, <3>1, LenProperties DEF PayrollTyped
      <3>3. v.file # 0
        BY <1>4 DEF FilesInOrder
      <3>4. RowsOfFile(v.file) = rows
        BY <1>3, <3>3 DEF RowsOfFile
      <3>5. QED
        BY <1>21, <1>22, <2>2, <3>2, <3>4
    <2>3. CASE k # m
      <3>1. ~AtRow(k)
        BY <1>1, <1>2, <1>3, <1>13, <1>22, <2>3 DEF AtRow, OfficerAt, PayrollTyped
      <3>2. PICK file, n : file = RowsOfFile(sourceFile[k]) /\ n = Len(file)
        OBVIOUS
      <3>3. sourceFile'[k] = sourceFile[k] /\ lines'[k] = lines[k]
        BY <1>2, <1>12, <1>16, <2>3 DEF PayrollTyped
      <3>4. Pays(k, file, n)'
        BY <1>14, <1>22, <3>1, <3>2, <3>3, PaysStays DEF SmoothInv
      <3>5. QED
        BY <3>2, <3>3, <3>4
    <2>4. QED
      BY <2>2, <2>3
  <1>23. ASSUME SmoothInv, q.step = "row"
         PROVE  Pays(q.month, parsePayrollFile(q.file), q.at - 1)'
    <2>1. q.month = m /\ q.file = v.file /\ q.at - 1 = at
      BY <1>4, <1>19, <1>23, LenProperties
    <2>2. QED
      BY <1>3, <1>21, <1>23, <2>1
  <1>24. QED
    BY <1>1, <1>2, <1>13, <1>14, <1>18, <1>20, <1>22, <1>23, DeskTurns DEF OfficerAt

\* What is corrected are amounts again, the rate is not.
LEMMA CorrectedAmounts ==
    ASSUME PayrollInputs, NEW a \in Amounts, NEW updates \in Updates
    PROVE  /\ Corrected(a, updates) \in Amounts
           /\ \A c \in Columns :
                c \notin editable \intersect DOMAIN updates => Corrected(a, updates)[c] = a[c]
  <1>1. PICK cells : cells = editable \intersect DOMAIN updates
    OBVIOUS
  <1>2. PICK b : b = [c \in Columns |-> IF c \in cells THEN updates[c] ELSE a[c]]
    OBVIOUS
  <1>3. Corrected(a, updates) = b
    BY <1>1, <1>2 DEF Corrected
  <1>4. \A c \in Columns : b[c] = IF c \in cells THEN updates[c] ELSE a[c]
    BY <1>2
  <1>5. "rate" \in Columns \ cells
    BY <1>1 DEF Columns, editable
  <1>6. \A c \in cells : updates[c] \in Int
    BY <1>1 DEF PayrollInputs, UpdatesInOrder
  <1>7. a \in [Columns -> Int] /\ a["rate"] >= 0
    BY DEF Amounts
  <1>8. b \in [Columns -> Int] /\ b["rate"] >= 0
    BY <1>2, <1>4, <1>5, <1>6, <1>7
  <1>9. QED
    BY <1>1, <1>3, <1>4, <1>8 DEF Amounts

\* A correction pays nobody else, and changes nothing but what was entered.
LEMMA UpdateLineStep ==
    ASSUME PayrollInputs, PayrollInv, SmoothStep, NEW o \in Officers, NEW updates \in Updates,
           updateLine(o, updates)
    PROVE  PayrollInv'
  <1>1. PICK v : v = officer[o]
    OBVIOUS
  <1>2. PICK m, id, cells : m = v.month /\ id = v.row /\ cells = editable \intersect DOMAIN updates
    OBVIOUS
  <1>3. DeskOK(v) /\ v.step = "edit" /\ PayrollTyped /\ m \in Months
    BY <1>1, <1>2, TypedTurns DEF updateLine, OfficerAt, PayrollInv, DeskOK
  <1>4. PICK old : old = lines[m] /\ old \in Seq(PayrollLine)
    BY <1>3 DEF PayrollTyped
  <1>5. PICK new : new = [i \in DOMAIN old |->
            IF old[i].id = id THEN WithUpdates(old[i], updates) ELSE old[i]]
    OBVIOUS
  <1>6. /\ lines' = [lines EXCEPT ![m] = new]
        /\ touched' = touched \union ({id} \X cells)
        /\ officer' = [officer EXCEPT ![o] = AtDesk]
        /\ UNCHANGED <<employees, attendance, inserted, sourceFile, stops>>
    <2>1. new = [i \in DOMAIN lines[m] |->
                   IF lines[m][i].id = id
                   THEN WithUpdates(lines[m][i], updates) ELSE lines[m][i]]
      BY <1>4, <1>5
    <2>2. lines' = [lines EXCEPT ![m] = new]
      <3>1. m = officer[o].month /\ id = officer[o].row
        BY <1>1, <1>2
      <3>2. lines' = [lines EXCEPT ![m] = [i \in DOMAIN lines[m] |->
                       IF lines[m][i].id = id
                       THEN WithUpdates(lines[m][i], updates) ELSE lines[m][i]]]
        BY <3>1, Zenon DEF updateLine
      <3>3. QED
        BY <2>1, <3>2
    <2>3. QED
      BY <1>1, <1>2, <2>2 DEF updateLine, OfficerGoes
  <1>7. RecordsStay
    BY <1>6 DEF RecordsStay, NamesStay, IsNamed
  <1>8. ASSUME NEW i \in DOMAIN old
        PROVE  /\ new[i] \in PayrollLine
               /\ \A row : LinePays(old[i], row) => LinePays(new[i], row)'
    <2>1. old[i] \in PayrollLine
      BY <1>4, ElementOfSeq, LenProperties
    <2>2. CASE old[i].id # id
      <3>1. new[i] = old[i]
        BY <1>5, <2>2
      <3>2. QED
        BY <1>7, <2>1, <3>1, LineStays
    <2>3. CASE old[i].id = id
      <3>1. PICK a, b : a = old[i].amounts /\ b = Corrected(a, updates)
        OBVIOUS
      <3>2. a \in Amounts
        BY <2>1, <3>1 DEF PayrollLine
      <3>3. b \in Amounts /\ \A c \in Columns : c \notin cells => b[c] = a[c]
        BY <1>2, <3>1, <3>2, CorrectedAmounts
      <3>4. new[i] = [old[i] EXCEPT !.amounts = b]
        BY <1>5, <2>3, <3>1 DEF WithUpdates
      <3>5. /\ new[i] \in PayrollLine /\ new[i].amounts = b /\ new[i].id = id
            /\ new[i].employee = old[i].employee
        BY <2>1, <2>3, <3>3, <3>4 DEF PayrollLine
      <3>6. \A c \in cells : c \in editable /\ <<id, c>> \in touched'
        BY <1>2, <1>6
      <3>7. ASSUME NEW row, LinePays(old[i], row) PROVE LinePays(new[i], row)'
        <4>1. LinePays(old[i], row)'
          BY <1>7, <3>7, LineStays
        <4>2. ASSUME NEW c \in Columns, b[c] # row.amounts[c] PROVE IsEntered(id, c)'
          <5>1. CASE c \in cells
            BY <3>6, <5>1 DEF IsEntered
          <5>2. CASE c \notin cells
            BY <2>3, <3>1, <3>3, <4>1, <4>2, <5>2 DEF LinePays
          <5>3. QED
            BY <5>1, <5>2
        <4>3. QED
          BY <3>5, <4>1, <4>2 DEF LinePays
      <3>8. QED
        BY <3>5, <3>7
    <2>4. QED
      BY <2>2, <2>3
  <1>9. new \in Seq(PayrollLine) /\ Len(new) = Len(old) /\ DOMAIN old = 1 .. Len(old)
    <2>1. PICK n : n = Len(old) /\ n \in Nat /\ DOMAIN old = 1 .. n
      BY <1>4, LenProperties
    <2>2. new \in [1 .. n -> PayrollLine]
      BY <1>5, <1>8, <2>1
    <2>3. QED
      BY <2>1, <2>2, LenProperties
  <1>10. \A k \in Months : lines'[k] = IF k = m THEN new ELSE lines[k]
    BY <1>3, <1>6 DEF PayrollTyped
  <1>11. PayrollTyped'
    <2>1. lines' \in [Months -> Seq(PayrollLine)]
      BY <1>3, <1>6, <1>9 DEF PayrollTyped
    <2>2. officer' = [p \in Officers |-> officer'[p]]
      BY <1>3, <1>6 DEF PayrollTyped
    <2>3. QED
      BY <1>3, <1>6, <2>1, <2>2 DEF PayrollTyped
  <1>12. DeskOK(AtDesk)' /\ AtDesk.step = "idle"
    <2>1. DeskOK(AtDesk)
      BY TypedTurns
    <2>2. QED
      BY <1>7, <2>1, DeskStays DEF AtDesk, RecordsStay
  <1>13. ASSUME NEW k \in Months, NEW rows, NEW n, Pays(k, rows, n) PROVE Pays(k, rows, n)'
    <2>1. CASE k # m
      BY <1>7, <1>10, <1>13, <2>1, PaysStays
    <2>2. CASE k = m
      <3>1. lines'[k] = new /\ Len(old) = n /\ \A j \in 1 .. n : LinePays(old[j], rows[j])
        BY <1>4, <1>10, <1>13, <2>2 DEF Pays
      <3>2. \A j \in 1 .. n : LinePays(new[j], rows[j])'
        BY <1>8, <1>9, <3>1
      <3>3. QED
        BY <1>9, <3>1, <3>2 DEF Pays
    <2>3. QED
      BY <2>1, <2>2
  <1>14. ASSUME SmoothInv, NEW k \in Months, ~AtRow(k)'
         PROVE  Pays(k, RowsOfFile(sourceFile[k]), Len(RowsOfFile(sourceFile[k])))'
    <2>1. ~AtRow(k)
      BY <1>1, <1>3, <1>6, <1>14 DEF AtRow, OfficerAt, PayrollTyped
    <2>2. PICK file, n : file = RowsOfFile(sourceFile[k]) /\ n = Len(file)
      OBVIOUS
    <2>3. Pays(k, file, n)'
      BY <1>13, <1>14, <2>1, <2>2 DEF SmoothInv
    <2>4. QED
      BY <1>6, <2>2, <2>3
  <1>15. QED
    BY <1>1, <1>3, <1>6, <1>7, <1>11, <1>12, <1>14, DeskTurns DEF OfficerAt

\* Employees and their leave.
LEMMA RegisterStep ==
    ASSUME PayrollInv, SmoothStep,
           \/ \E u \in DOMAIN Logins, from, to \in Days : requestOwnLeave(u, Logins[u], from, to)
           \/ \E u \in DOMAIN Logins : createEmployee(Logins[u])
           \/ \E e \in DOMAIN employees, from, to \in Days : requestLeave(e, from, to)
           \/ \E l \in leave, status \in {"Approved", "Declined"} : decideLeave(l, status)
    PROVE  PayrollInv'
  <1> USE DEF PayrollInv
  <1>1. UNCHANGED <<attendance, lineVars, sourceFile, officer, stops>>
    BY DEF requestOwnLeave, createEmployee, requestLeave, decideLeave, lineVars
  <1>2. ASSUME UNCHANGED employees PROVE PayrollInv'
    <2>1. RecordsStay
      BY <1>1, <1>2 DEF RecordsStay, NamesStay, IsNamed, lineVars
    <2>2. QED
      BY <1>1, <1>2, <2>1, RegisterChanges DEF PayrollTyped
  <1>3. ASSUME NEW name, NEW user, NEW x, x = [name |-> name, user |-> user],
               employees' = Append(employees, x)
        PROVE  PayrollInv'
    <2>1. IsEmployee(x)
      BY <1>3 DEF IsEmployee
    <2>2. QED
      BY <1>1, <1>3, <2>1, EmployeeAdded, RegisterChanges DEF RecordsStay, lineVars
  <1>4. ASSUME NEW e \in DOMAIN employees, NEW u, employees' = [employees EXCEPT ![e].user = u]
        PROVE  PayrollInv'
    <2>1. PICK S : employees \in Seq(S)
      BY DEF PayrollTyped
    <2>2. PICK x : x = [employees[e] EXCEPT !.user = u]
      OBVIOUS
    <2>3. IsEmployee(x) /\ x.name = employees[e].name
      BY <2>2 DEF PayrollTyped, IsEmployee
    <2>4. PICK T : T = S \union {x}
      OBVIOUS
    <2>5. employees \in Seq(T) /\ x \in T
      BY <2>1, <2>4
    <2>6. /\ employees' \in Seq(T) /\ DOMAIN employees' = DOMAIN employees
          /\ \A d \in DOMAIN employees : employees'[d] = IF d = e THEN x ELSE employees[d]
      BY <1>4, <2>2, <2>5, ExceptSeq
    <2>7. NamesStay /\ \A d \in DOMAIN employees' : IsEmployee(employees'[d])
      BY <2>3, <2>6 DEF NamesStay, IsNamed, PayrollTyped
    <2>8. QED
      BY <1>1, <2>6, <2>7, RegisterChanges DEF RecordsStay, lineVars
  <1>5. ASSUME NEW u \in DOMAIN Logins, NEW from, NEW to, requestOwnLeave(u, Logins[u], from, to)
        PROVE  PayrollInv'
    <2>1. PICK name, found : /\ name = Logins[u]
                             /\ found = findOrCreateEmployeeForUser(u, name)
                             /\ employees' = found.all
      BY <1>5 DEF requestOwnLeave
    <2>2. PICK linked, named :
            /\ linked = {e \in DOMAIN employees : employees[e].user = u}
            /\ named = {e \in DOMAIN employees :
                          /\ normalizeForMatch(employees[e].name) = normalizeForMatch(name)
                          /\ employees[e].user = NoUser}
      OBVIOUS
    <2>3. CASE linked # {}
      BY <1>2, <2>1, <2>2, <2>3 DEF findOrCreateEmployeeForUser
    <2>4. CASE linked = {} /\ named # {}
      <3>1. employees' = [employees EXCEPT ![Min(named)].user = u]
        BY <2>1, <2>2, <2>4 DEF findOrCreateEmployeeForUser
      <3>2. Min(named) \in DOMAIN employees
        <4>1. PICK n : n = Len(employees) /\ n \in Nat /\ DOMAIN employees = 1 .. n
          BY LenProperties DEF PayrollTyped
        <4>2. named \in SUBSET (0 .. n)
          BY <2>2, <4>1
        <4>3. Min(named) \in named
          BY <2>4, <4>1, <4>2, MinOfNaturals
        <4>4. QED
          BY <2>2, <4>3
      <3>3. QED
        BY <1>4, <3>1, <3>2
    <2>5. CASE linked = {} /\ named = {}
      <3>1. employees' = Append(employees, [name |-> name, user |-> u])
        BY <2>1, <2>2, <2>5 DEF findOrCreateEmployeeForUser
      <3>2. QED
        BY <1>3, <3>1
    <2>6. QED
      BY <2>3, <2>4, <2>5
  <1>6. ASSUME NEW u \in DOMAIN Logins, createEmployee(Logins[u]) PROVE PayrollInv'
    BY <1>3, <1>6 DEF createEmployee
  <1>7. QED
    BY <1>2, <1>5, <1>6 DEF requestLeave, decideLeave

LEMMA PayrollKept ==
    ASSUME PayrollInputs
    PROVE  PayrollInv /\ [HrNext]_hrVars => PayrollInv'
  <1>1. SUFFICES ASSUME PayrollInv, [HrNext]_hrVars PROVE PayrollInv'
    OBVIOUS
  <1>2. CASE UNCHANGED hrVars
    <2>1. UNCHANGED <<employees, attendance, lineVars, sourceFile, officer, stops, smooth>>
      BY <1>2 DEF hrVars
    <2>2. RecordsStay
      BY <2>1 DEF RecordsStay, NamesStay, IsNamed, lineVars
    <2>3. SmoothStep
      BY <1>1, <2>1 DEF PayrollInv, SmoothInv, SmoothStep, OfficerAt
    <2>4. QED
      BY <1>1, <2>1, <2>2, <2>3, RegisterChanges DEF PayrollInv, PayrollTyped
  <1>3. CASE HrNext
    <2>1. SmoothStep /\ HrStep /\ (smooth' => stops' = 0)
      BY <1>3, SmoothKept DEF HrNext
    <2>2. ASSUME Stop PROVE PayrollInv'
      <3>1. /\ UNCHANGED <<employees, attendance, lineVars, sourceFile>>
            /\ stops' \in Nat /\ stops' # 0 /\ officer' = [o \in Officers |-> AtDesk]
        <4>1. stops \in Nat
          BY <1>1 DEF PayrollInv, PayrollTyped
        <4>2. QED
          BY <2>2, <4>1 DEF Stop
      <3>2. ~smooth' /\ smooth' \in BOOLEAN
        BY <2>1, <3>1 DEF SmoothStep
      <3>3. DeskOK(AtDesk)'
        BY DEF DeskOK, IsDesk, AtDesk
      <3>4. QED
        BY <1>1, <3>1, <3>2, <3>3 DEF PayrollInv, PayrollTyped, lineVars
    <2>3. ASSUME NEW o \in Officers,
                 \/ \E e \in DOMAIN employees, m \in Months, d \in Days :
                      \E status \in {"Present", "Absent"} : ReadAttendance(o, e, <<m, d>>, status)
                 \/ markAttendance(o)
                 \/ \E m \in Months, f \in DOMAIN Exports : ReadRun(o, m, f)
                 \/ SaveRun(o)
                 \/ \E m \in Months : \E i \in DOMAIN lines[m] : ReadLine(o, m, i)
                 \/ \E m \in Months : ReadForFinalize(o, m)
                 \/ finalize(o)
          PROVE  PayrollInv'
      BY <1>1, <2>1, <2>3, ReadStep
    <2>4. ASSUME NEW o \in Officers, \/ ClearLines(o) \/ uploadPayroll(o)
                 \/ \E updates \in Updates : updateLine(o, updates)
          PROVE  PayrollInv'
      BY <1>1, <2>1, <2>4, ClearLinesStep, UploadPayrollStep, UpdateLineStep DEF PayrollInputs
    <2>5. QED
      BY <1>1, <2>1, <2>2, <2>3, <2>4, RegisterStep DEF HrStep
  <1>4. QED
    BY <1>1, <1>2, <1>3

LEMMA PayrollStarts == HrInit => PayrollInv
  <1>1. SUFFICES ASSUME HrInit PROVE PayrollInv
    OBVIOUS
  <1>2. PayrollTyped
    BY <1>1, EmptySeq DEF HrInit, PayrollTyped
  <1>3. DeskOK(AtDesk) /\ AtDesk.step = "idle"
    BY DEF DeskOK, IsDesk, AtDesk
  <1>4. \A o \in Officers : officer[o] = AtDesk
    BY <1>1 DEF HrInit
  <1>5. SmoothInv
    BY <1>1, <1>3, <1>4 DEF HrInit, SmoothInv, OfficerAt, RowsOfFile, Pays
  <1>6. QED
    BY <1>1, <1>2, <1>3, <1>4, <1>5 DEF HrInit, PayrollInv

\* The inductive invariant of HrService and PayrollService: each request knows the
\* employees whom its rows mean, and as long as calls come one after the other each
\* month has the lines of its file, or of the rows that an upload has read.
THEOREM PayrollInvariant == ASSUME PayrollInputs PROVE HrSpec => []PayrollInv
  BY PayrollStarts, PayrollKept, PTL DEF HrSpec

\* uploadPayroll, updateLine, finalize and the attendance: a month pays the people of
\* the file that was uploaded last, each row once, and the amounts of its lines are the
\* file's but for the editable ones that an officer entered in the very line.
THEOREM PaysTheLastFileHolds == ASSUME PayrollInputs PROVE HrSpec => []PaysTheLastFile
  <1>1. ASSUME PayrollInv PROVE PaysTheLastFile
    <2>1. SUFFICES ASSUME smooth, NEW m \in Months, ~Uploading(m), NEW rows,
                          rows = IF sourceFile[m] = 0 THEN << >> ELSE parsePayrollFile(sourceFile[m])
                   PROVE  /\ Len(lines[m]) = Len(rows)
                          /\ \A i \in DOMAIN rows :
                               LET line == lines[m][i]
                               IN  /\ normalizeForMatch(employees[line.employee].name)
                                        = normalizeForMatch(rows[i].name)
                                   /\ \A c \in Columns : line.amounts[c] # rows[i].amounts[c] =>
                                        c \in editable /\ <<line.id, c>> \in touched
                                   /\ computeNetPay(line) <= PayOf(line.amounts)
      BY DEF PaysTheLastFile
    <2>2. Pays(m, rows, Len(rows))
      BY <1>1, <2>1 DEF PayrollInv, SmoothInv, AtRow, Uploading, RowsOfFile, OfficerAt
    <2>3. rows \in Seq(SheetRow) /\ lines[m] \in Seq(PayrollLine)
      <3>1. sourceFile[m] \in DOMAIN Exports \union {0} /\ lines[m] \in Seq(PayrollLine)
        BY <1>1, <2>1 DEF PayrollInv, PayrollTyped
      <3>2. CASE sourceFile[m] = 0
        BY <2>1, <3>1, <3>2, EmptySeq
      <3>3. CASE sourceFile[m] # 0
        BY <2>1, <3>1, <3>3, Zenon DEF PayrollInputs, FilesInOrder
      <3>4. QED
        BY <3>1, <3>2, <3>3
    <2>4. ASSUME NEW i \in DOMAIN rows, NEW line, line = lines[m][i]
          PROVE  /\ normalizeForMatch(employees[line.employee].name)
                      = normalizeForMatch(rows[i].name)
                 /\ \A c \in Columns : line.amounts[c] # rows[i].amounts[c] =>
                      c \in editable /\ <<line.id, c>> \in touched
                 /\ computeNetPay(line) <= PayOf(line.amounts)
      <3>1. LinePays(line, rows[i]) /\ line \in PayrollLine
        BY <2>2, <2>3, <2>4, ElementOfSeq, LenProperties DEF Pays
      <3>2. PayOf(line.amounts) \in Int /\ line.absenceDeduction \in Nat
        BY <3>1 DEF PayrollLine, PayOf, Amounts, Columns
      <3>3. computeNetPay(line) <= PayOf(line.amounts)
        BY <3>2 DEF computeNetPay
      <3>4. QED
        BY <3>1, <3>3 DEF LinePays, IsNamed, IsEntered
    <2>5. QED
      BY <2>2, <2>4 DEF Pays
  <1>2. QED
    BY <1>1, PayrollInvariant, PTL
-------------------------------------------------------------------------------
(* Administration.                                                          *)

AdminSpec == AdminInit /\ [][AdminNext]_adminVars

\* What is assumed of the constants: the requests are validated, and the server
\* works on finitely many.
OfficeInputs == GoodsInOrder /\ IsFiniteSet(Managers)

WholeCents(n) == \E k \in Nat : n = 100 * k
\* A figure that the register may show as depreciated of an asset.
AccumulatedOK(a, v) ==
    /\ v \in Nat /\ WholeCents(v) /\ v <= a.purchaseCost
    /\ v > 0 => \E i \in 1 .. a.months :
         Distance(v, RoundToCent(Least(i * Monthly(a), a.purchaseCost))) <= i * Cent
AssetOK(a) == a \in Asset /\ WholeCents(a.purchaseCost) /\ AccumulatedOK(a, a.accumulated)
UpdatesOK(updates) ==
    \A i \in DOMAIN updates : i \in DOMAIN assets /\ AccumulatedOK(assets[i], updates[i])

IsManager(q) ==
    q = [step |-> q.step, order |-> q.order, total |-> q.total, updates |-> q.updates,
         cost |-> q.cost]
ManagerOK(q) ==
    /\ IsManager(q)
    /\ q.step = "idle" => q = Outside
    /\ q.step \in {"post", "update"} => UpdatesOK(q.updates) /\ q.total \in Nat
    /\ q.step \in {"payable", "approve", "settle", "paid"} =>
         /\ q.order \in DOMAIN orders /\ q.order # 0
         /\ q.cost = TotalCost(orders[q.order])
BooksTyped ==
    /\ \E S : assets \in Seq(S)
    /\ \A a \in DOMAIN assets : AssetOK(assets[a])
    /\ orders \in Seq(ProcurementRequest)
    /\ books \in [depreciation: Int, payable: Int]
    /\ postings \in Nat /\ adminBreaks \in Nat
    /\ manager = [m \in Managers |-> manager[m]]

\* What is owed for orders, what the register shows as depreciated, and what it
\* will show when a run has made its updates.
Outstanding == {o \in DOMAIN orders : orders[o].status = "Approved" /\ ~orders[o].paid}
CostOf(S) == [o \in S |-> TotalCost(orders[o])]
Owed == SumFunctionOnSet(CostOf(Outstanding), Outstanding)
Registered == SumFunction([a \in DOMAIN assets |-> assets[a].accumulated])
Updated(updates) ==
    [a \in DOMAIN assets |-> IF a \in DOMAIN updates THEN updates[a] ELSE assets[a].accumulated]
Near(x, y, n) == x - y <= n /\ y - x <= n
Slack == (Len(assets) + 1) * 50

\* Where a request stands, and what the books say meanwhile.
OrdersAgree(q) ==
    /\ q.step \in {"payable", "approve"} => orders[q.order].status # "Approved"
    /\ q.step \in {"settle", "paid"} =>
         orders[q.order].status = "Approved" /\ ~orders[q.order].paid
    /\ books.payable = IF q.step = "approve" THEN Owed + q.cost
                       ELSE IF q.step = "paid" THEN Owed - q.cost ELSE Owed
AssetsAgree(q) ==
    /\ q.step = "post" => Near(SumFunction(Updated(q.updates)), Registered + q.total, Slack)
    /\ Near(IF q.step = "update" THEN SumFunction(Updated(q.updates)) ELSE Registered,
            books.depreciation, postings * Slack)
PaidOK == \A o \in DOMAIN orders : orders[o].paid => orders[o].status = "Approved"
Agrees(q) == OrdersAgree(q) /\ AssetsAgree(q)
TidyInv ==
    /\ \A m, n \in Managers : ~ManagerAt(m, "idle") /\ ~ManagerAt(n, "idle") => m = n
    /\ PaidOK
    /\ \A m \in Managers : ~ManagerAt(m, "idle") => Agrees(manager[m])
    /\ AllIdle => Agrees(Outside)
BooksInv ==
    /\ BooksTyped
    /\ \A m \in Managers : ManagerOK(manager[m])
    /\ tidy \in BOOLEAN
    /\ tidy => TidyInv

\* Rounding to the cent.
LEMMA CentRounding ==
    ASSUME NEW n \in Nat
    PROVE  \E k \in Nat : RoundToCent(n) = 100 * k /\ 100 * k <= n + 50 /\ n + 50 < 100 * k + 100
  <1>1. PICK k : k = (n + 50) \div 100
    OBVIOUS
  <1>2. k \in Nat /\ 100 * k <= n + 50 /\ n + 50 < 100 * k + 100
    BY <1>1
  <1>3. RoundToCent(n) = 100 * k
    BY <1>1, <1>2 DEF RoundToCent, Cent
  <1>4. QED
    BY <1>2, <1>3

\* One month more: a figure of the register becomes the next one.
LEMMA NextMonth ==
    ASSUME NEW a, AssetOK(a), monthlyDepreciationFor(a) > 0
    PROVE  /\ monthlyDepreciationFor(a) \in Nat
           /\ AccumulatedOK(a, RoundToCent(a.accumulated + monthlyDepreciationFor(a)))
           /\ Near(RoundToCent(a.accumulated + monthlyDepreciationFor(a)),
                   a.accumulated + monthlyDepreciationFor(a), 50)
  <1>1. PICK cost, L, acc, M : /\ cost = a.purchaseCost /\ L = a.months
                               /\ acc = a.accumulated /\ M = Monthly(a)
    OBVIOUS
  <1>2. cost \in Nat /\ L \in Nat \ {0} /\ acc \in Nat /\ acc <= cost
    BY <1>1 DEF AssetOK, Asset, AccumulatedOK
  <1>3. M \in Nat /\ L * M <= cost /\ cost < L * M + L
    <2>1. M = cost \div L
      BY <1>1 DEF Monthly
    <2>2. QED
      BY <1>2, <2>1
  <1>4. PICK d : d = monthlyDepreciationFor(a)
    OBVIOUS
  <1>5. d = IF M < cost - acc THEN M ELSE cost - acc
    BY <1>1, <1>4 DEF monthlyDepreciationFor, Least
  <1>6. d \in Nat /\ d > 0 /\ acc + d <= cost /\ acc < cost
    BY <1>2, <1>3, <1>4, <1>5
  <1>7. PICK cents, spent : /\ cents \in Nat /\ cost = 100 * cents
                            /\ spent \in Nat /\ acc = 100 * spent
    BY <1>1 DEF AssetOK, AccumulatedOK, WholeCents
  <1>8. PICK v : v = RoundToCent(acc + d)
    OBVIOUS
  <1>9. PICK k \in Nat : v = 100 * k /\ 100 * k <= acc + d + 50 /\ acc + d + 50 < 100 * k + 100
    BY <1>6, <1>2, <1>8, CentRounding
  <1>10. v \in Nat /\ v <= cost /\ v >= acc /\ Near(v, acc + d, 50)
    BY <1>6, <1>7, <1>9 DEF Near
  <1>11. \A i \in 1 .. L : i * M \in Nat /\ i * M <= cost
    <2>1. ASSUME NEW i \in 1 .. L PROVE i * M \in Nat /\ i * M <= cost
      <3>1. i * M <= L * M /\ i * M \in Nat
        BY <1>2, <1>3
      <3>2. QED
        BY <1>2, <1>3, <3>1
    <2>2. QED
      BY <2>1
  <1>12. \A i \in 1 .. L : Least(i * M, cost) = i * M
    BY <1>2, <1>11 DEF Least
  <1>13. ASSUME v > 0
         PROVE  \E i \in 1 .. L : Distance(v, RoundToCent(Least(i * M, cost))) <= i * 100
    <2>1. CASE acc = 0
      <3>1. 1 \in 1 .. L /\ 1 * M = M /\ M <= cost
        BY <1>2, <1>3, <1>11
      <3>2. v = RoundToCent(M)
        BY <1>2, <1>3, <1>5, <1>8, <2>1, <3>1
      <3>3. Distance(v, v) = 0
        BY <1>10 DEF Distance
      <3>4. QED
        BY <1>12, <3>1, <3>2, <3>3
    <2>2. CASE acc > 0
      <3>1. PICK i \in 1 .. L : Distance(acc, RoundToCent(i * M)) <= i * 100
        BY <1>1, <1>12, <2>2 DEF AssetOK, AccumulatedOK, Cent
      <3>2. PICK x : x = i * M /\ x \in Nat /\ x <= cost
        BY <1>11
      <3>3. PICK kx \in Nat : RoundToCent(x) = 100 * kx /\ 100 * kx <= x + 50 /\ x + 50 < 100 * kx + 100
        BY <3>2, CentRounding
      <3>4. acc - 100 * kx <= i * 100 /\ 100 * kx - acc <= i * 100
        BY <1>7, <3>1, <3>2, <3>3 DEF Distance
      <3>5. CASE i = L
        <4>1. x <= cost /\ cost < x + i
          BY <1>2, <1>3, <3>2, <3>5
        <4>2. v - 100 * kx <= i * 100 /\ 100 * kx - v <= i * 100
          <5>1. PICK y : y = 100 * kx
            OBVIOUS
          <5>2. y \in Nat /\ y <= x + 50 /\ x + 50 < y + 100 /\ i \in Nat /\ i >= 1
            BY <1>2, <3>2, <3>3, <5>1
          <5>3. v - y <= i * 100
            BY <1>2, <1>10, <3>2, <4>1, <5>2
          <5>4. y - v <= i * 100
            BY <1>2, <1>10, <3>4, <5>1, <5>2
          <5>5. QED
            BY <5>1, <5>3, <5>4
        <4>3. Distance(v, RoundToCent(i * M)) <= i * 100
          BY <1>9, <3>2, <3>3, <4>2 DEF Distance
        <4>4. QED
          BY <1>12, <4>3
      <3>6. CASE i # L
        <4>1. PICK j : j = i + 1
          OBVIOUS
        <4>2. j \in 1 .. L
          BY <1>2, <3>6, <4>1
        <4>3. j * M = x + M
          BY <1>3, <3>2, <4>1
        <4>4. x + M <= cost /\ x + M \in Nat
          BY <1>11, <4>2, <4>3
        <4>5. PICK ky \in Nat : /\ RoundToCent(x + M) = 100 * ky /\ 100 * ky <= x + M + 50
                                /\ x + M + 50 < 100 * ky + 100
          BY <4>4, CentRounding
        <4>6. v - 100 * ky <= j * 100 /\ 100 * ky - v <= j * 100
          BY <1>2, <1>3, <1>5, <1>7, <1>9, <3>2, <3>3, <3>4, <4>1, <4>4, <4>5
        <4>7. Distance(v, RoundToCent(j * M)) <= j * 100
          BY <1>9, <4>3, <4>5, <4>6 DEF Distance
        <4>8. QED
          BY <1>12, <4>2, <4>7
      <3>7. QED
        BY <3>5, <3>6
    <2>3. QED
      BY <1>2, <2>1, <2>2
  <1>14. WholeCents(v)
    BY <1>9 DEF WholeCents
  <1>15. AccumulatedOK(a, v)
    BY <1>1, <1>10, <1>13, <1>14 DEF AccumulatedOK, Cent
  <1>16. QED
    BY <1>1, <1>4, <1>6, <1>8, <1>10, <1>15

\* Sums of values that differ a little differ a little for each.
LEMMA SumsNear ==
    ASSUME NEW S, IsFiniteSet(S), NEW f, IntegersOn(f, S), NEW g, IntegersOn(g, S),
           NEW n, n = Cardinality(S), NEW d \in Nat, \A x \in S : Near(f[x], g[x], d)
    PROVE  Near(SumFunctionOnSet(f, S), SumFunctionOnSet(g, S), d * n)
  <1>1. PICK c : c = [x \in S |-> d]
    OBVIOUS
  <1>2. IntegersOn(c, S) /\ SumFunctionOnSet(c, S) = d * n /\ \A x \in S : c[x] = d
    <2>1. \A x \in S : c[x] = d
      BY <1>1
    <2>2. QED
      BY <2>1, SumOnConstant DEF IntegersOn
  <1>3. ASSUME NEW u, NEW v, IntegersOn(u, S), IntegersOn(v, S), \A x \in S : u[x] - v[x] <= d
        PROVE  SumFunctionOnSet(u, S) - SumFunctionOnSet(v, S) <= d * n
    <2>1. PICK e : e = [x \in S |-> v[x] + c[x]]
      OBVIOUS
    <2>2. IntegersOn(e, S) /\ \A x \in S : e[x] = v[x] + c[x] /\ u[x] <= e[x]
      BY <1>2, <1>3, <2>1 DEF IntegersOn
    <2>3. SumFunctionOnSet(e, S) = SumFunctionOnSet(v, S) + SumFunctionOnSet(c, S)
      BY <1>2, <1>3, <2>2, SumOnPlus
    <2>4. SumFunctionOnSet(u, S) <= SumFunctionOnSet(e, S)
      BY <1>3, <2>2, SumOnLeq
    <2>5. SumFunctionOnSet(u, S) \in Int /\ SumFunctionOnSet(v, S) \in Int
      BY <1>3, SumOnStep
    <2>6. d * n \in Int
      BY FS_CardinalityType
    <2>7. QED
      BY <1>2, <2>3, <2>4, <2>5, <2>6
  <1>4. QED
    BY <1>3 DEF Near

\* Goods keep what they cost.
AssetsStay ==
    \A i \in DOMAIN assets :
      /\ i \in DOMAIN assets'
      /\ assets'[i].purchaseCost = assets[i].purchaseCost
      /\ assets'[i].months = assets[i].months
OrdersStay ==
    \A o \in DOMAIN orders : o \in DOMAIN orders' /\ TotalCost(orders'[o]) = TotalCost(orders[o])
LEMMA ManagerStays ==
    ASSUME AssetsStay, OrdersStay, NEW q, ManagerOK(q)
    PROVE  ManagerOK(q)'
  <1>1. UpdatesOK(q.updates) => UpdatesOK(q.updates)'
    BY DEF UpdatesOK, AccumulatedOK, Monthly, AssetsStay
  <1>2. QED
    BY <1>1 DEF ManagerOK, OrdersStay

\* What the history variable says of a step.
TidyStep ==
    /\ tidy' \in BOOLEAN
    /\ tidy' =>
         /\ tidy /\ ~Again
         /\ \A m, n \in Managers : manager'[m].step # "idle" /\ manager'[n].step # "idle" => m = n
LEMMA TidyKept ==
    ASSUME IsFiniteSet(Managers), AdminNext
    PROVE  TidyStep /\ (tidy' => adminBreaks' = 0)
  <1>1. PICK W : W = {m \in Managers : manager'[m].step # "idle"}
    OBVIOUS
  <1>2. IsFiniteSet(W) /\ Cardinality(W) \in Nat
    BY <1>1, FS_Subset, FS_CardinalityType
  <1>3. tidy' = (tidy /\ adminBreaks' = 0 /\ Cardinality(W) <= 1 /\ ~Again)
    BY <1>1, Zenon DEF AdminNext
  <1>4. ASSUME Cardinality(W) <= 1, NEW m \in W, NEW n \in W PROVE m = n
    <2>1. SUFFICES ASSUME m # n PROVE FALSE
      OBVIOUS
    <2>2. PICK pair : pair = {m} \union {n}
      OBVIOUS
    <2>3. Cardinality(pair) = 2 /\ pair \subseteq W
      <3>1. IsFiniteSet({m}) /\ Cardinality({m}) = 1
        BY FS_Singleton
      <3>2. n \notin {m}
        BY <2>1
      <3>3. Cardinality(pair) = 1 + 1
        BY <2>2, <3>1, <3>2, FS_AddElement
      <3>4. QED
        BY <2>2, <3>3
    <2>4. Cardinality(pair) <= Cardinality(W)
      BY <1>2, <2>3, FS_Subset
    <2>5. QED
      BY <1>2, <1>4, <2>3, <2>4
  <1>5. QED
    BY <1>1, <1>3, <1>4, Zenon DEF TidyStep

\* No request moves.
LEMMA GoodsChange ==
    ASSUME BooksInv, TidyStep, AssetsStay, OrdersStay, BooksTyped', UNCHANGED manager,
           PaidOK => PaidOK',
           \A q : ManagerOK(q) /\ Agrees(q) => Agrees(q)'
    PROVE  BooksInv'
  <1>1. ASSUME NEW m \in Managers PROVE ManagerOK(manager[m])'
    <2>1. PICK q : q = manager[m]
      OBVIOUS
    <2>2. QED
      BY <2>1, ManagerStays DEF BooksInv
  <1>2. ASSUME tidy' PROVE TidyInv'
    <2>1. TidyInv
      BY <1>2 DEF BooksInv, TidyStep
    <2>2. ASSUME NEW m \in Managers, ~ManagerAt(m, "idle")' PROVE Agrees(manager[m])'
      <3>1. PICK q : q = manager[m]
        OBVIOUS
      <3>2. ManagerOK(q) /\ Agrees(q)
        BY <2>1, <2>2, <3>1 DEF TidyInv, ManagerAt, BooksInv
      <3>3. QED
        BY <3>1, <3>2
    <2>3. AllIdle' => Agrees(Outside)'
      <3>1. PICK q : q = Outside
        OBVIOUS
      <3>2. ManagerOK(q) /\ q = Outside'
        BY <3>1 DEF ManagerOK, Outside, IsManager
      <3>3. QED
        BY <2>1, <3>1, <3>2 DEF TidyInv, AllIdle, ManagerAt
    <2>4. QED
      BY <2>1, <2>2, <2>3 DEF TidyInv, ManagerAt
  <1>3. QED
    BY <1>1, <1>2 DEF BooksInv, TidyStep

\* One request goes on.
LEMMA ManagerTurns ==
    ASSUME BooksInv, TidyStep, AssetsStay, OrdersStay, BooksTyped',
           NEW m \in Managers, NEW p, p = manager[m], NEW q, manager' = [manager EXCEPT ![m] = q],
           ManagerOK(q)', p.step # "idle" \/ q.step # "idle",
           tidy' /\ PaidOK /\ Agrees(p) => (PaidOK /\ Agrees(q))'
    PROVE  BooksInv'
  <1>1. \A n \in Managers : manager'[n] = IF n = m THEN q ELSE manager[n]
    BY DEF BooksInv, BooksTyped
  <1>2. ASSUME NEW n \in Managers PROVE ManagerOK(manager[n])'
    <2>1. PICK d : d = manager[n]
      OBVIOUS
    <2>2. ManagerOK(d)'
      BY <2>1, ManagerStays DEF BooksInv
    <2>3. QED
      BY <1>1, <2>1, <2>2
  <1>3. ASSUME tidy' PROVE TidyInv'
    <2>1. TidyInv /\ PaidOK
      BY <1>3 DEF BooksInv, TidyStep, TidyInv
    <2>2. Agrees(p)
      <3>1. CASE p.step # "idle"
        BY <2>1, <3>1 DEF TidyInv, ManagerAt
      <3>2. CASE p.step = "idle"
        <4>1. AllIdle
          BY <1>1, <1>3, <3>2 DEF AllIdle, ManagerAt, TidyStep
        <4>2. p = Outside
          BY <3>2 DEF BooksInv, ManagerOK
        <4>3. QED
          BY <2>1, <4>1, <4>2 DEF TidyInv
      <3>3. QED
        BY <3>1, <3>2
    <2>3. (PaidOK /\ Agrees(q))'
      BY <1>3, <2>1, <2>2
    <2>4. ASSUME NEW n \in Managers, ~ManagerAt(n, "idle")' PROVE n = m
      BY <1>1, <1>3, <2>1, <2>4 DEF TidyInv, TidyStep, ManagerAt
    <2>5. ASSUME AllIdle' PROVE Agrees(Outside)'
      <3>1. q.step = "idle"
        BY <1>1, <2>5 DEF AllIdle, ManagerAt
      <3>2. q = Outside'
        BY <3>1 DEF ManagerOK, Outside
      <3>3. QED
        BY <2>3, <3>2
    <2>6. QED
      BY <1>1, <1>3, <2>3, <2>4, <2>5 DEF TidyInv, TidyStep, ManagerAt
  <1>4. QED
    BY <1>2, <1>3 DEF BooksInv, TidyStep

\* Sums over the register.
LEMMA RegisterSums ==
    ASSUME BooksTyped, NEW updates, UpdatesOK(updates)
    PROVE  /\ IsFiniteSet(DOMAIN assets) /\ Len(assets) \in Nat
           /\ DOMAIN assets = 1 .. Len(assets) /\ Cardinality(DOMAIN assets) = Len(assets)
           /\ Registered \in Int /\ SumFunction(Updated(updates)) \in Int
           /\ \A a \in DOMAIN assets : assets[a].accumulated \in Nat
           /\ \A a \in DOMAIN assets : Updated(updates)[a] \in Nat
  <1>1. DOMAIN assets = 1 .. Len(assets) /\ Len(assets) \in Nat
    BY LenProperties DEF BooksTyped
  <1>2. IsFiniteSet(DOMAIN assets) /\ Cardinality(DOMAIN assets) = Len(assets)
    <2>1. PICK n : n = Len(assets)
      OBVIOUS
    <2>2. n \in Int /\ 1 \in Int
      BY <1>1, <2>1
    <2>3. IsFiniteSet(1 .. n) /\ Cardinality(1 .. n) = IF 1 > n THEN 0 ELSE n - 1 + 1
      BY <2>2, FS_Interval
    <2>4. QED
      BY <1>1, <2>1, <2>3
  <1>3. \A a \in DOMAIN assets : assets[a].accumulated \in Nat
    BY DEF BooksTyped, AssetOK, AccumulatedOK
  <1>4. \A a \in DOMAIN assets : Updated(updates)[a] \in Nat
    BY <1>3 DEF Updated, UpdatesOK, AccumulatedOK
  <1>5. PICK D : D = DOMAIN assets
    OBVIOUS
  <1>6. PICK f : f = [a \in D |-> assets[a].accumulated]
    OBVIOUS
  <1>7. PICK g : g = Updated(updates)
    OBVIOUS
  <1>8. DOMAIN f = D /\ DOMAIN g = D
    BY <1>5, <1>6, <1>7 DEF Updated
  <1>9. IntegersOn(f, D) /\ IntegersOn(g, D)
    BY <1>3, <1>4, <1>5, <1>6, <1>7 DEF IntegersOn
  <1>10. SumFunctionOnSet(f, D) \in Int /\ SumFunctionOnSet(g, D) \in Int
    BY <1>2, <1>5, <1>9, SumOnStep
  <1>11. Registered = SumFunctionOnSet(f, D) /\ SumFunction(g) = SumFunctionOnSet(g, D)
    BY <1>5, <1>6, <1>8 DEF Registered, SumFunction
  <1>12. QED
    BY <1>1, <1>2, <1>3, <1>4, <1>7, <1>10, <1>11

\* Orders that stay as they are owed.
LEMMA OrderSums ==
    ASSUME BooksTyped
    PROVE  /\ DOMAIN orders = 1 .. Len(orders) /\ Len(orders) \in Nat
           /\ IsFiniteSet(Outstanding) /\ Owed \in Int
           /\ \A o \in DOMAIN orders : orders[o] \in ProcurementRequest
           /\ \A o \in DOMAIN orders : TotalCost(orders[o]) \in Nat
           /\ IntegersOn(CostOf(Outstanding), Outstanding)
  <1>1. orders \in Seq(ProcurementRequest)
    BY DEF BooksTyped
  <1>2. DOMAIN orders = 1 .. Len(orders) /\ Len(orders) \in Nat
    BY <1>1, LenProperties
  <1>3. IsFiniteSet(Outstanding)
    <2>1. IsFiniteSet(DOMAIN orders)
      BY <1>2, FS_Interval
    <2>2. Outstanding \subseteq DOMAIN orders
      BY DEF Outstanding
    <2>3. QED
      BY <2>1, <2>2, FS_Subset
  <1>4. \A o \in DOMAIN orders : orders[o] \in ProcurementRequest
    BY <1>1, <1>2, ElementOfSeq
  <1>5. \A o \in DOMAIN orders : TotalCost(orders[o]) \in Nat
    <2>1. \A x, y \in Nat : x * y \in Nat
      OBVIOUS
    <2>2. \A o \in DOMAIN orders : orders[o].unitCost \in Nat /\ orders[o].quantity \in Nat
      BY <1>4 DEF ProcurementRequest
    <2>3. QED
      BY <2>1, <2>2 DEF TotalCost
  <1>6. IntegersOn(CostOf(Outstanding), Outstanding)
    BY <1>5 DEF IntegersOn, CostOf, Outstanding
  <1>7. Owed \in Int
    BY <1>3, <1>6, SumOnStep DEF Owed
  <1>8. QED
    BY <1>2, <1>3, <1>4, <1>5, <1>6, <1>7

LEMMA OwedStays ==
    ASSUME BooksTyped, OrdersStay, Outstanding' = Outstanding
    PROVE  Owed' = Owed
  <1>1. PICK S, f : S = Outstanding /\ f = CostOf(S)
    OBVIOUS
  <1>2. PICK g : g = CostOf(S)'
    OBVIOUS
  <1>3. IsFiniteSet(S) /\ IntegersOn(f, S)
    BY <1>1, OrderSums
  <1>4. \A o \in S : g[o] = f[o]
    BY <1>1, <1>2 DEF CostOf, OrdersStay, Outstanding
  <1>5. SumFunctionOnSet(g, S) = SumFunctionOnSet(f, S)
    BY <1>3, <1>4, SumOnSame
  <1>6. QED
    BY <1>1, <1>2, <1>5 DEF Owed

\* Steps that leave the register of assets as it is, and steps that leave the
\* orders as they are.
LEMMA AssetsAgreeKept ==
    ASSUME BooksTyped, UNCHANGED assets, books'.depreciation = books.depreciation,
           postings' \in {postings, postings + 1}, NEW p, AssetsAgree(p), NEW q,
           p = q \/ (p.step \notin {"post", "update"} /\ q.step \notin {"post", "update"}),
           p.step = "update" => UpdatesOK(p.updates)
    PROVE  AssetsAgree(q)'
  <1>1. PICK x : x = IF p.step = "update" THEN SumFunction(Updated(p.updates)) ELSE Registered
    OBVIOUS
  <1>2. x \in Int /\ Len(assets) \in Nat
    <2>1. UpdatesOK(<< >>)
      BY DEF UpdatesOK
    <2>2. QED
      BY <1>1, <2>1, RegisterSums
  <1>3. PICK d, n, s : d = books.depreciation /\ n = postings /\ s = Slack
    OBVIOUS
  <1>4. d \in Int /\ n \in Nat /\ s \in Nat
    BY <1>2, <1>3 DEF BooksTyped, Slack
  <1>5. Near(x, d, n * s)
    BY <1>1, <1>3 DEF AssetsAgree
  <1>6. (n + 1) * s = n * s + s /\ n * s \in Nat
    BY <1>4
  <1>7. Near(x, d, (n + 1) * s)
    BY <1>2, <1>4, <1>5, <1>6 DEF Near
  <1>8. Near(x, d, postings' * s)
    BY <1>3, <1>5, <1>7
  <1>9. /\ Slack' = s /\ Registered' = Registered
        /\ SumFunction(Updated(q.updates))' = SumFunction(Updated(q.updates))
    BY <1>3 DEF Slack, Registered, Updated
  <1>10. x = IF q.step = "update" THEN SumFunction(Updated(q.updates)) ELSE Registered
    BY <1>1
  <1>11. q.step = "post" => Near(SumFunction(Updated(q.updates)), Registered + q.total, Slack)
    BY DEF AssetsAgree
  <1>12. QED
    BY <1>3, <1>8, <1>9, <1>10, <1>11 DEF AssetsAgree

LEMMA OrdersAgreeKept ==
    ASSUME BooksTyped, UNCHANGED orders, books'.payable = books.payable,
           NEW p, OrdersAgree(p), NEW q,
           p = q \/ (/\ p.step \notin {"payable", "approve", "settle", "paid"}
                     /\ q.step \notin {"payable", "approve", "settle", "paid"})
    PROVE  OrdersAgree(q)'
  <1>1. Owed' = Owed
    BY DEF Owed, CostOf, Outstanding
  <1>2. QED
    BY <1>1 DEF OrdersAgree

LEMMA CreateAssetStep ==
    ASSUME GoodsInOrder, BooksInv, TidyStep, NEW kind \in AssetKinds, createAsset(kind)
    PROVE  BooksInv'
  <1>1. PICK x : x = [purchaseCost |-> kind.purchaseCost, months |-> kind.months,
                      accumulated |-> 0, status |-> "In Use"]
    OBVIOUS
  <1>2. assets' = Append(assets, x) /\ UNCHANGED <<orders, books, manager, postings, adminBreaks>>
    BY <1>1 DEF createAsset
  <1>3. AssetOK(x) /\ x.accumulated = 0
    <2>1. kind.purchaseCost \in Nat /\ kind.purchaseCost % 100 = 0 /\ kind.months \in Nat \ {0}
      BY DEF GoodsInOrder, Cent
    <2>2. WholeCents(kind.purchaseCost)
      <3>1. PICK c : c = kind.purchaseCost
        OBVIOUS
      <3>2. c = 100 * (c \div 100) /\ c \div 100 \in Nat
        BY <2>1, <3>1
      <3>3. QED
        BY <3>1, <3>2 DEF WholeCents
    <2>3. WholeCents(0)
      BY DEF WholeCents
    <2>4. x \in Asset
      BY <1>1, <2>1 DEF Asset
    <2>5. x.purchaseCost = kind.purchaseCost /\ x.accumulated = 0
      BY <1>1
    <2>6. AccumulatedOK(x, 0)
      BY <2>1, <2>3, <2>5 DEF AccumulatedOK
    <2>7. QED
      BY <2>2, <2>4, <2>5, <2>6 DEF AssetOK
  <1>4. PICK n : n = Len(assets)
    OBVIOUS
  <1>5. BooksTyped /\ UpdatesOK(<< >>)
    BY DEF BooksInv, UpdatesOK
  <1>6. PICK S : assets \in Seq(S)
    BY <1>5 DEF BooksTyped
  <1>7. PICK T : T = S \union {x}
    OBVIOUS
  <1>8. assets \in Seq(T) /\ x \in T
    BY <1>6, <1>7
  <1>9. /\ assets' \in Seq(T) /\ n \in Nat /\ DOMAIN assets = 1 .. n
        /\ DOMAIN assets' = 1 .. (n + 1) /\ Len(assets') = n + 1
        /\ assets'[n + 1] = x
        /\ \A i \in DOMAIN assets : assets'[i] = assets[i]
    BY <1>2, <1>4, <1>8, AppendProperties, LenProperties
  <1>10. AssetsStay /\ OrdersStay
    BY <1>2, <1>9 DEF AssetsStay, OrdersStay
  <1>11. BooksTyped'
    <2>1. \A i \in DOMAIN assets' : AssetOK(assets'[i])
      BY <1>3, <1>5, <1>9 DEF BooksTyped
    <2>2. (\A i \in DOMAIN assets : AssetOK(assets[i]))'
      BY <2>1
    <2>3. QED
      BY <1>2, <1>5, <1>9, <2>2 DEF BooksTyped
  <1>12. ASSUME NEW updates, UpdatesOK(updates)
         PROVE  SumFunction(Updated(updates))' = SumFunction(Updated(updates))
    <2>1. PICK D, E : D = DOMAIN assets /\ E = D \union {n + 1}
      OBVIOUS
    <2>2. IsFiniteSet(D) /\ n + 1 \notin D /\ E = DOMAIN assets'
      BY <1>4, <1>5, <1>9, <1>12, <2>1, RegisterSums
    <2>3. PICK f, g : f = Updated(updates) /\ g = Updated(updates)'
      OBVIOUS
    <2>4. DOMAIN f = D /\ DOMAIN g = E /\ IntegersOn(f, D)
      <3>1. \A a \in DOMAIN assets : Updated(updates)[a] \in Nat
        BY <1>5, <1>12, RegisterSums
      <3>2. IntegersOn(f, D)
        BY <2>1, <2>3, <3>1 DEF IntegersOn
      <3>3. DOMAIN f = D
        BY <2>1, <2>3 DEF Updated
      <3>4. DOMAIN g = E
        BY <2>2, <2>3 DEF Updated
      <3>5. QED
        BY <3>2, <3>3, <3>4
    <2>5. \A a \in D : g[a] = f[a]
      BY <1>9, <2>1, <2>3 DEF Updated
    <2>6. g[n + 1] = 0
      BY <1>3, <1>9, <1>12, <2>1, <2>2, <2>3 DEF Updated, UpdatesOK
    <2>7. /\ SumFunctionOnSet(f, D) \in Int
          /\ SumFunctionOnSet(g, E) = SumFunctionOnSet(f, D) + 0
      BY <2>1, <2>2, <2>4, <2>5, <2>6, SumGrows
    <2>8. SumFunction(g) = SumFunction(f)
      BY <2>4, <2>7 DEF SumFunction
    <2>9. QED
      BY <2>3, <2>8
  <1>13. Registered' = Registered
    <2>1. Updated(<< >>) = [a \in DOMAIN assets |-> assets[a].accumulated]
      BY DEF Updated
    <2>2. Updated(<< >>)' = [a \in DOMAIN assets |-> assets[a].accumulated]'
      BY DEF Updated
    <2>3. QED
      BY <1>5, <1>12, <2>1, <2>2 DEF Registered
  <1>14. ASSUME NEW q, ManagerOK(q), Agrees(q) PROVE Agrees(q)'
    <2>1. OrdersAgree(q)'
      BY <1>2, <1>5, <1>14, OrdersAgreeKept DEF Agrees
    <2>2. PICK s, k, d : s = Slack /\ k = postings /\ d = books.depreciation
      OBVIOUS
    <2>3. s \in Nat /\ Slack' = s + 50 /\ k \in Nat /\ d \in Int
      BY <1>4, <1>5, <1>9, <2>2 DEF Slack, BooksTyped
    <2>4. k * (s + 50) = k * s + 50 * k /\ k * s \in Nat
      BY <2>3
    <2>5. \A x1 \in Int : Near(x1, d, k * s) => Near(x1, d, k * (s + 50))
      BY <2>3, <2>4 DEF Near
    <2>6. q.step \in {"post", "update"} =>
            /\ SumFunction(Updated(q.updates))' = SumFunction(Updated(q.updates))
            /\ SumFunction(Updated(q.updates)) \in Int /\ q.total \in Int
      BY <1>5, <1>12, <1>14, RegisterSums DEF ManagerOK
    <2>7. Registered \in Int
      BY <1>5, RegisterSums
    <2>8. q.step = "post" => Near(SumFunction(Updated(q.updates)), Registered + q.total, Slack)'
      <3>1. \A x1, x2 \in Int : Near(x1, x2, s) => Near(x1, x2, s + 50)
        BY <2>3 DEF Near
      <3>2. QED
        BY <1>13, <1>14, <2>2, <2>3, <2>6, <2>7, <3>1 DEF Agrees, AssetsAgree
    <2>9. AssetsAgree(q)'
      BY <1>2, <1>13, <1>14, <2>2, <2>3, <2>5, <2>6, <2>7, <2>8 DEF Agrees, AssetsAgree
    <2>10. QED
      BY <2>1, <2>9 DEF Agrees
  <1>15. QED
    BY <1>2, <1>10, <1>11, <1>14, GoodsChange DEF PaidOK

\* Orders that come or grow older.
LEMMA OrdersChangeStep ==
    ASSUME GoodsInOrder, BooksInv, TidyStep,
           (\E item \in Items : createProcurementRequest(item)) \/ ThirtyDaysPass
    PROVE  BooksInv'
  <1>1. BooksTyped /\ UNCHANGED <<assets, books, manager, postings, adminBreaks>>
    BY DEF BooksInv, createProcurementRequest, ThirtyDaysPass
  <1>2. PICK n : n = Len(orders)
    OBVIOUS
  <1>3. /\ n \in Nat /\ DOMAIN orders = 1 .. n
        /\ \A o \in 1 .. n : orders[o] \in ProcurementRequest
    BY <1>1, <1>2, OrderSums
  <1>4. /\ orders' \in Seq(ProcurementRequest)
        /\ \A o \in 1 .. n :
             /\ o \in DOMAIN orders' /\ orders'[o].status = orders[o].status
             /\ orders'[o].paid = orders[o].paid
             /\ TotalCost(orders'[o]) = TotalCost(orders[o])
        /\ \A o \in DOMAIN orders' \ (1 .. n) :
             orders'[o].status = "Pending Approval" /\ orders'[o].paid = FALSE
    <2>1. ASSUME NEW item \in Items, createProcurementRequest(item) PROVE <1>4!1 /\ <1>4!2 /\ <1>4!3
      <3>1. PICK x : x =
              [unitCost |-> item.unitCost, quantity |-> item.quantity,
               status |-> "Pending Approval", entry |-> FALSE, paid |-> FALSE, age |-> 0]
        OBVIOUS
      <3>2. x \in ProcurementRequest /\ x.status = "Pending Approval" /\ x.paid = FALSE
        BY <3>1 DEF GoodsInOrder, ProcurementRequest
      <3>3. orders \in Seq(ProcurementRequest) /\ orders' = Append(orders, x)
        BY <1>1, <2>1, <3>1 DEF createProcurementRequest, BooksTyped
      <3>4. /\ orders' \in Seq(ProcurementRequest) /\ DOMAIN orders' = 1 .. (n + 1)
            /\ orders'[n + 1] = x /\ \A o \in 1 .. n : orders'[o] = orders[o]
        <4>1. PICK old : old = orders /\ old \in Seq(ProcurementRequest)
          BY <3>3
        <4>2. /\ Append(old, x) \in Seq(ProcurementRequest) /\ Len(old) = n
              /\ DOMAIN Append(old, x) = 1 .. (Len(old) + 1)
              /\ Append(old, x)[Len(old) + 1] = x
              /\ \A o \in 1 .. Len(old) : Append(old, x)[o] = old[o]
          <5>1. Len(old) = n /\ Len(old) \in Nat
            BY <1>2, <4>1, LenProperties
          <5>2. /\ Append(old, x) \in Seq(ProcurementRequest)
                /\ Len(Append(old, x)) = Len(old) + 1
                /\ Append(old, x)[Len(old) + 1] = x
                /\ \A o \in 1 .. Len(old) : Append(old, x)[o] = old[o]
            <6>1. PICK S : S = ProcurementRequest
              OBVIOUS
            <6>2. old \in Seq(S) /\ x \in S
              BY <3>2, <4>1, <6>1
            <6>3. QED
              BY <6>1, <6>2, AppendProperties
          <5>3. DOMAIN Append(old, x) = 1 .. Len(Append(old, x))
            BY <5>2, LenProperties
          <5>4. QED
            BY <5>1, <5>2, <5>3
        <4>3. QED
          BY <3>3, <4>1, <4>2
      <3>5. \A o \in DOMAIN orders' \ (1 .. n) : o = n + 1
        BY <1>3, <3>4
      <3>6. 1 .. n \subseteq DOMAIN orders'
        BY <1>3, <3>4
      <3>7. QED
        BY <3>2, <3>4, <3>5, <3>6
    <2>2. ASSUME ThirtyDaysPass PROVE <1>4!1 /\ <1>4!2 /\ <1>4!3
      <3>1. orders' = [o \in 1 .. n |-> [orders[o] EXCEPT !.age = @ + 30]]
        BY <1>3, <2>2 DEF ThirtyDaysPass
      <3>2. ASSUME NEW o \in 1 .. n
            PROVE  /\ orders'[o] \in ProcurementRequest
                   /\ orders'[o].status = orders[o].status /\ orders'[o].paid = orders[o].paid
                   /\ orders'[o].unitCost = orders[o].unitCost
                   /\ orders'[o].quantity = orders[o].quantity
        <4>1. PICK x : x = orders[o] /\ x \in ProcurementRequest
          BY <1>3
        <4>2. PICK y : y = [x EXCEPT !.age = @ + 30]
          OBVIOUS
        <4>3. x.age + 30 \in Nat
          <5>1. x.age \in Nat
            BY <4>1 DEF ProcurementRequest
          <5>2. QED
            BY <5>1
        <4>4. /\ y \in ProcurementRequest /\ y.status = x.status /\ y.paid = x.paid
              /\ y.unitCost = x.unitCost /\ y.quantity = x.quantity
          BY <4>1, <4>2, <4>3 DEF ProcurementRequest
        <4>5. orders'[o] = y
          BY <3>1, <4>1, <4>2
        <4>6. QED
          BY <4>1, <4>4, <4>5
      <3>3. orders' \in [1 .. n -> ProcurementRequest]
        BY <3>1, <3>2
      <3>4. orders' \in Seq(ProcurementRequest)
        BY <1>3, <3>3, SeqDef
      <3>5. QED
        BY <3>1, <3>2, <3>4 DEF TotalCost
    <2>3. QED
      BY <2>1, <2>2
  <1>5. AssetsStay /\ OrdersStay
    BY <1>1, <1>3, <1>4 DEF AssetsStay, OrdersStay
  <1>6. BooksTyped'
    BY <1>1, <1>4 DEF BooksTyped
  <1>7. Outstanding' = Outstanding
    BY <1>3, <1>4 DEF Outstanding
  <1>8. Owed' = Owed
    BY <1>1, <1>5, <1>7, OwedStays
  <1>9. PaidOK => PaidOK'
    BY <1>3, <1>4 DEF PaidOK
  <1>10. ASSUME NEW q, ManagerOK(q), Agrees(q) PROVE Agrees(q)'
    <2>1. AssetsAgree(q)'
      BY <1>1, <1>10, AssetsAgreeKept DEF Agrees, ManagerOK
    <2>2. OrdersAgree(q)'
      BY <1>1, <1>3, <1>4, <1>8, <1>10 DEF Agrees, OrdersAgree, ManagerOK
    <2>3. QED
      BY <2>1, <2>2 DEF Agrees
  <1>11. QED
    BY <1>1, <1>5, <1>6, <1>9, <1>10, GoodsChange

\* Runs of depreciation.
LEMMA ReadAssetsStep ==
    ASSUME BooksInv, TidyStep, NEW m \in Managers, ReadAssets(m)
    PROVE  BooksInv'
  <1>1. /\ BooksTyped /\ ManagerOK(manager[m]) /\ manager[m].step = "idle"
        /\ UNCHANGED <<assets, orders, books, postings, adminBreaks>>
    BY DEF BooksInv, ReadAssets, ManagerAt
  <1>2. PICK due : due = {i \in DOMAIN assets :
                           assets[i].status = "In Use" /\ monthlyDepreciationFor(assets[i]) > 0}
    OBVIOUS
  <1>3. PICK monthly : monthly = [i \in due |-> monthlyDepreciationFor(assets[i])]
    OBVIOUS
  <1>4. PICK total : total = SumFunction(monthly) /\ total > 0
    BY <1>2, <1>3 DEF ReadAssets
  <1>5. PICK updates : updates = [i \in due |-> RoundToCent(assets[i].accumulated + monthly[i])]
    OBVIOUS
  <1>6. PICK q : q = [Outside EXCEPT !.step = "post", !.total = RoundToCent(total),
                                     !.updates = updates]
    OBVIOUS
  <1>7. manager' = [manager EXCEPT ![m] = q]
    BY <1>2, <1>3, <1>4, <1>5, <1>6 DEF ReadAssets, ManagerGoes
  <1>8. /\ IsManager(q) /\ q.step = "post" /\ q.total = RoundToCent(total) /\ q.updates = updates
    BY <1>6 DEF Outside, IsManager
  <1>9. \A i \in due :
          /\ i \in DOMAIN assets /\ AssetOK(assets[i]) /\ monthly[i] \in Nat
          /\ monthly[i] = monthlyDepreciationFor(assets[i])
          /\ AccumulatedOK(assets[i], updates[i])
          /\ Near(updates[i], assets[i].accumulated + monthly[i], 50)
    <2>1. ASSUME NEW i \in due
          PROVE  /\ i \in DOMAIN assets /\ AssetOK(assets[i]) /\ monthly[i] \in Nat
                 /\ monthly[i] = monthlyDepreciationFor(assets[i])
                 /\ AccumulatedOK(assets[i], updates[i])
                 /\ Near(updates[i], assets[i].accumulated + monthly[i], 50)
      <3>1. PICK a : a = assets[i]
        OBVIOUS
      <3>2. i \in DOMAIN assets /\ AssetOK(a) /\ monthlyDepreciationFor(a) > 0
        BY <1>1, <1>2, <3>1 DEF BooksTyped
      <3>3. /\ monthlyDepreciationFor(a) \in Nat
            /\ AccumulatedOK(a, RoundToCent(a.accumulated + monthlyDepreciationFor(a)))
            /\ Near(RoundToCent(a.accumulated + monthlyDepreciationFor(a)),
                    a.accumulated + monthlyDepreciationFor(a), 50)
        BY <3>2, NextMonth
      <3>4. QED
        BY <1>3, <1>5, <3>1, <3>2, <3>3
    <2>2. QED
      BY <2>1
  <1>10. UpdatesOK(updates) /\ DOMAIN updates = due
    BY <1>5, <1>9 DEF UpdatesOK
  <1>11. PICK D, n : D = DOMAIN assets /\ n = Len(assets)
    OBVIOUS
  <1>12. /\ IsFiniteSet(D) /\ Cardinality(D) = n /\ n \in Nat /\ due \subseteq D
         /\ \A a \in D : assets[a].accumulated \in Nat
    BY <1>1, <1>2, <1>10, <1>11, RegisterSums
  <1>13. IsFiniteSet(due) /\ IntegersOn(monthly, due)
    BY <1>9, <1>12, FS_Subset DEF IntegersOn
  <1>14. total = SumFunctionOnSet(monthly, due) /\ total \in Int
    <2>1. DOMAIN monthly = due
      BY <1>3
    <2>2. QED
      BY <1>4, <1>13, <2>1, SumOnStep DEF SumFunction
  <1>15. RoundToCent(total) \in Nat /\ Near(RoundToCent(total), total, 50)
    <2>1. total \in Nat
      BY <1>4, <1>14
    <2>2. PICK k \in Nat : /\ RoundToCent(total) = 100 * k /\ 100 * k <= total + 50
                           /\ total + 50 < 100 * k + 100
      BY <2>1, CentRounding
    <2>3. QED
      BY <2>1, <2>2 DEF Near
  <1>16. ManagerOK(q)
    BY <1>8, <1>10, <1>15 DEF ManagerOK
  <1>17. AssetsStay /\ OrdersStay /\ BooksTyped'
    BY <1>1, <1>7 DEF AssetsStay, OrdersStay, BooksTyped
  <1>18. ManagerOK(q)'
    BY <1>16, <1>17, ManagerStays
  <1>19. PICK f, g, h : /\ f = [a \in D |-> assets[a].accumulated]
                        /\ g = Updated(updates)
                        /\ h = [a \in D |-> IF a \in due THEN monthly[a] ELSE 0]
    OBVIOUS
  <1>20. DOMAIN f = D /\ DOMAIN g = D /\ DOMAIN h = D
    BY <1>11, <1>19 DEF Updated
  <1>21. IntegersOn(f, D) /\ IntegersOn(h, D)
    BY <1>9, <1>12, <1>19 DEF IntegersOn
  <1>22. \A a \in D : g[a] \in Int /\ Near(g[a], f[a] + h[a], 50)
    <2>1. ASSUME NEW a \in D PROVE g[a] \in Int /\ Near(g[a], f[a] + h[a], 50)
      <3>1. CASE a \in due
        <4>1. g[a] = updates[a] /\ f[a] = assets[a].accumulated /\ h[a] = monthly[a]
          BY <1>10, <1>11, <1>19, <3>1 DEF Updated
        <4>2. QED
          BY <1>9, <3>1, <4>1 DEF AccumulatedOK
      <3>2. CASE a \notin due
        <4>1. g[a] = f[a] /\ h[a] = 0
          BY <1>10, <1>11, <1>19, <3>2 DEF Updated
        <4>2. QED
          BY <1>21, <4>1 DEF Near, IntegersOn
      <3>3. QED
        BY <3>1, <3>2
    <2>2. QED
      BY <2>1
  <1>23. SumFunctionOnSet(h, D) = total
    BY <1>9, <1>12, <1>13, <1>14, <1>19, SumOnSupport
  <1>24. PICK e : e = [a \in D |-> f[a] + h[a]]
    OBVIOUS
  <1>25. IntegersOn(e, D) /\ SumFunctionOnSet(e, D) = SumFunctionOnSet(f, D) + total
    <2>1. IntegersOn(e, D)
      BY <1>21, <1>24 DEF IntegersOn
    <2>2. SumFunctionOnSet(e, D) = SumFunctionOnSet(f, D) + SumFunctionOnSet(h, D)
      BY <1>12, <1>21, <1>24, SumOnPlus
    <2>3. QED
      BY <1>23, <2>1, <2>2
  <1>26. Near(SumFunctionOnSet(g, D), SumFunctionOnSet(e, D), 50 * n)
    <2>1. IntegersOn(g, D) /\ \A a \in D : Near(g[a], e[a], 50)
      BY <1>22, <1>24 DEF IntegersOn
    <2>2. QED
      BY <1>12, <1>25, <2>1, SumsNear
  <1>27. SumFunction(g) = SumFunctionOnSet(g, D) /\ Registered = SumFunctionOnSet(f, D)
    BY <1>11, <1>19, <1>20 DEF SumFunction, Registered
  <1>28. Near(SumFunction(Updated(updates)), Registered + q.total, Slack)
    <2>1. /\ SumFunctionOnSet(g, D) \in Int /\ SumFunctionOnSet(f, D) \in Int
      BY <1>1, <1>10, <1>19, <1>27, RegisterSums
    <2>2. PICK x, y, z : /\ x = SumFunctionOnSet(g, D) /\ y = SumFunctionOnSet(f, D)
                         /\ z = RoundToCent(total)
      OBVIOUS
    <2>3. Near(x, y + total, 50 * n) /\ Near(z, total, 50) /\ z \in Nat
      BY <1>15, <1>25, <1>26, <2>2
    <2>4. Near(x, y + z, (n + 1) * 50)
      BY <1>12, <1>14, <2>1, <2>2, <2>3 DEF Near
    <2>5. QED
      BY <1>8, <1>11, <1>19, <1>27, <2>2, <2>4 DEF Slack
  <1>29. ASSUME Agrees(manager[m]) PROVE Agrees(q)'
    <2>1. OrdersAgree(q)'
      BY <1>1, <1>8, <1>29, OrdersAgreeKept DEF Agrees
    <2>2. AssetsAgree(q)'
      BY <1>1, <1>8, <1>28, <1>29 DEF Agrees, AssetsAgree, Slack, Registered, Updated
    <2>3. QED
      BY <2>1, <2>2 DEF Agrees
  <1>30. QED
    BY <1>1, <1>7, <1>8, <1>17, <1>18, <1>29, ManagerTurns DEF PaidOK

\* A request that gives up.
LEMMA ManagerLeaves ==
    ASSUME BooksInv, TidyStep, NEW m \in Managers, ManagerGoes(m, Outside),
           manager[m].step # "idle", manager[m].step \notin {"update", "approve", "paid"},
           UNCHANGED <<assets, orders, books, postings, adminBreaks>>
    PROVE  BooksInv'
  <1>1. PICK p : p = manager[m]
    OBVIOUS
  <1>2. PICK q : q = Outside /\ q.step = "idle"
    BY DEF Outside
  <1>3. BooksTyped /\ manager' = [manager EXCEPT ![m] = q]
    BY <1>2 DEF BooksInv, ManagerGoes
  <1>4. AssetsStay /\ OrdersStay /\ BooksTyped'
    BY <1>3 DEF AssetsStay, OrdersStay, BooksTyped
  <1>5. ManagerOK(q)'
    BY <1>2 DEF ManagerOK, IsManager, Outside
  <1>6. Agrees(p) => Agrees(q)'
    BY <1>1, <1>2, <1>3 DEF Agrees, OrdersAgree, AssetsAgree, Owed, CostOf, Outstanding, Registered,
          Updated, Slack
  <1>7. QED
    BY <1>1, <1>2, <1>3, <1>4, <1>5, <1>6, ManagerTurns DEF PaidOK

LEMMA PostDepreciationStep ==
    ASSUME BooksInv, TidyStep, NEW m \in Managers, PostDepreciation(m)
    PROVE  BooksInv'
  <1>1. PICK p : p = manager[m]
    OBVIOUS
  <1>2. /\ BooksTyped /\ ManagerOK(p) /\ p.step = "post"
        /\ UNCHANGED <<assets, orders, adminBreaks>>
    BY <1>1 DEF BooksInv, PostDepreciation, ManagerAt
  <1>3. CASE ManagerGoes(m, Outside) /\ UNCHANGED <<books, postings>>
    BY <1>1, <1>2, <1>3, ManagerLeaves
  <1>4. CASE /\ postings' = postings + 1
             /\ books' = [books EXCEPT !.depreciation = @ + p.total]
             /\ ManagerGoes(m, [p EXCEPT !.step = "update"])
    <2>1. PICK q : q = [p EXCEPT !.step = "update"]
      OBVIOUS
    <2>2. IsManager(q) /\ q.step = "update" /\ q.updates = p.updates /\ q.total = p.total
      BY <1>2, <2>1 DEF ManagerOK, IsManager
    <2>3. manager' = [manager EXCEPT ![m] = q]
      BY <1>4, <2>1 DEF ManagerGoes
    <2>4. UpdatesOK(p.updates) /\ p.total \in Nat
      BY <1>2 DEF ManagerOK
    <2>5. PICK d, n, s, t : /\ d = books.depreciation /\ n = postings /\ s = Slack
                            /\ t = p.total
      OBVIOUS
    <2>6. d \in Int /\ n \in Nat /\ s \in Nat /\ t \in Nat
      BY <1>2, <2>4, <2>5, RegisterSums DEF BooksTyped, Slack
    <2>7. books'.depreciation = d + t /\ books'.payable = books.payable /\ postings' = n + 1
      BY <1>2, <1>4, <2>5 DEF BooksTyped
    <2>8. BooksTyped'
      <3>1. books' \in [depreciation: Int, payable: Int]
        BY <1>2, <1>4, <2>4 DEF BooksTyped
      <3>2. postings' \in Nat
        BY <1>4, <2>5, <2>6
      <3>3. manager' = [n1 \in Managers |-> manager'[n1]]
        BY <1>2, <2>3 DEF BooksTyped
      <3>4. QED
        BY <1>2, <3>1, <3>2, <3>3 DEF BooksTyped
    <2>9. AssetsStay /\ OrdersStay
      BY <1>2 DEF AssetsStay, OrdersStay
    <2>10. ManagerOK(q)'
      <3>1. ManagerOK(q)
        BY <2>2, <2>4 DEF ManagerOK
      <3>2. QED
        BY <2>9, <3>1, ManagerStays
    <2>11. ASSUME Agrees(p) PROVE Agrees(q)'
      <3>1. OrdersAgree(q)'
        BY <1>2, <2>2, <2>7, <2>11, OrdersAgreeKept DEF Agrees
      <3>2. PICK x, r : x = SumFunction(Updated(p.updates)) /\ r = Registered
        OBVIOUS
      <3>3. x \in Int /\ r \in Int
        BY <1>2, <2>4, <3>2, RegisterSums
      <3>4. Near(x, r + t, s) /\ Near(r, d, n * s)
        BY <1>2, <2>5, <2>11, <3>2 DEF Agrees, AssetsAgree
      <3>5. (n + 1) * s = n * s + s /\ n * s \in Nat
        BY <2>6
      <3>6. Near(x, d + t, (n + 1) * s)
        BY <2>6, <3>3, <3>4, <3>5 DEF Near
      <3>7. SumFunction(Updated(q.updates))' = x /\ Slack' = s
        BY <1>2, <2>2, <2>5, <3>2 DEF Updated, Slack
      <3>8. AssetsAgree(q)'
        BY <2>2, <2>7, <3>6, <3>7 DEF AssetsAgree
      <3>9. QED
        BY <3>1, <3>8 DEF Agrees
    <2>12. QED
      BY <1>1, <1>2, <2>2, <2>3, <2>8, <2>9, <2>10, <2>11, ManagerTurns DEF PaidOK
  <1>5. QED
    BY <1>1, <1>3, <1>4 DEF PostDepreciation

LEMMA UpdateAssetStep ==
    ASSUME BooksInv, TidyStep, NEW m \in Managers, NEW i \in DOMAIN manager[m].updates,
           UpdateAsset(m, i)
    PROVE  BooksInv'
  <1>1. PICK p, u : p = manager[m] /\ u = p.updates
    OBVIOUS
  <1>2. /\ BooksTyped /\ ManagerOK(p) /\ p.step = "update" /\ UpdatesOK(u)
        /\ UNCHANGED <<orders, books, postings, adminBreaks>>
    BY <1>1 DEF BooksInv, UpdateAsset, ManagerAt, ManagerOK
  <1>3. PICK rest, v : rest = DOMAIN u \ {i} /\ v = [j \in rest |-> u[j]]
    OBVIOUS
  <1>4. PICK q : q = IF rest = {} THEN Outside ELSE [p EXCEPT !.updates = v]
    OBVIOUS
  <1>5. /\ manager' = [manager EXCEPT ![m] = q]
        /\ assets' = [assets EXCEPT ![i].accumulated = u[i]]
    BY <1>1, <1>3, <1>4 DEF UpdateAsset, ManagerGoes
  <1>6. /\ rest = {} => q = Outside /\ q.step = "idle"
        /\ rest # {} => IsManager(q) /\ q.step = "update" /\ q.updates = v /\ q.total = p.total
    BY <1>2, <1>4 DEF ManagerOK, IsManager, Outside
  <1>7. i \in DOMAIN assets /\ AccumulatedOK(assets[i], u[i]) /\ i \in DOMAIN u
    BY <1>1, <1>2 DEF UpdatesOK
  <1>8. PICK a, b : a = assets[i] /\ b = [a EXCEPT !.accumulated = u[i]]
    OBVIOUS
  <1>9. /\ AssetOK(b) /\ b.accumulated = u[i]
        /\ b.purchaseCost = a.purchaseCost /\ b.months = a.months
    <2>1. AssetOK(a) /\ u[i] \in Nat
      BY <1>2, <1>7, <1>8 DEF BooksTyped, AccumulatedOK
    <2>2. /\ b \in Asset /\ b.accumulated = u[i]
          /\ b.purchaseCost = a.purchaseCost /\ b.months = a.months
      BY <1>8, <2>1 DEF AssetOK, Asset
    <2>3. AccumulatedOK(b, u[i])
      BY <1>7, <1>8, <2>2 DEF AccumulatedOK, Monthly
    <2>4. QED
      BY <2>1, <2>2, <2>3 DEF AssetOK
  <1>10. PICK S : assets \in Seq(S)
    BY <1>2 DEF BooksTyped
  <1>11. PICK T : T = S \union {b}
    OBVIOUS
  <1>12. assets \in Seq(T) /\ b \in T /\ assets' = [assets EXCEPT ![i] = b]
    BY <1>5, <1>7, <1>8, <1>10, <1>11
  <1>13. /\ assets' \in Seq(T) /\ Len(assets') = Len(assets) /\ DOMAIN assets' = DOMAIN assets
         /\ \A j \in DOMAIN assets : assets'[j] = IF j = i THEN b ELSE assets[j]
    BY <1>7, <1>12, ExceptSeq
  <1>14. AssetsStay /\ OrdersStay
    BY <1>2, <1>8, <1>9, <1>13 DEF AssetsStay, OrdersStay
  <1>15. BooksTyped'
    <2>1. \A j \in DOMAIN assets' : AssetOK(assets'[j])
      BY <1>2, <1>9, <1>13 DEF BooksTyped
    <2>2. (\A j \in DOMAIN assets : AssetOK(assets[j]))'
      BY <2>1
    <2>3. QED
      BY <1>2, <1>5, <1>13, <2>2 DEF BooksTyped
  <1>16. ManagerOK(q)'
    <2>1. UpdatesOK(v)
      BY <1>2, <1>3 DEF UpdatesOK
    <2>2. ManagerOK(q)
      BY <1>2, <1>6, <2>1 DEF ManagerOK, IsManager, Outside
    <2>3. QED
      BY <1>14, <2>2, ManagerStays
  <1>17. \A j \in DOMAIN assets :
           /\ Updated(u)[j] = IF j \in rest THEN v[j] ELSE assets'[j].accumulated
    BY <1>3, <1>7, <1>9, <1>13 DEF Updated
  <1>18. /\ rest # {} => Updated(v)' = Updated(u)
         /\ rest = {} => [j \in DOMAIN assets |-> assets[j].accumulated]' = Updated(u)
    <2>1. DOMAIN v = rest
      BY <1>3
    <2>2. Updated(v)' = [j \in DOMAIN assets |-> IF j \in rest THEN v[j] ELSE assets'[j].accumulated]
      BY <1>13, <2>1 DEF Updated
    <2>3. Updated(u) = [j \in DOMAIN assets |-> IF j \in rest THEN v[j] ELSE assets'[j].accumulated]
      <3>1. Updated(u) = [j \in DOMAIN assets |-> Updated(u)[j]]
        BY DEF Updated
      <3>2. QED
        BY <1>17, <3>1
    <2>4. rest = {} => [j \in DOMAIN assets |-> assets[j].accumulated]' = Updated(v)'
      BY <1>13, <2>2
    <2>5. QED
      BY <2>2, <2>3, <2>4
  <1>19. ASSUME Agrees(p) PROVE Agrees(q)'
    <2>1. OrdersAgree(q)'
      BY <1>2, <1>6, <1>19, OrdersAgreeKept DEF Agrees
    <2>2. Slack' = Slack /\ Near(SumFunction(Updated(u)), books.depreciation, postings * Slack)
      BY <1>1, <1>2, <1>13, <1>19 DEF Agrees, AssetsAgree, Slack
    <2>3. /\ rest # {} => SumFunction(Updated(v))' = SumFunction(Updated(u))
          /\ rest = {} => Registered' = SumFunction(Updated(u))
      BY <1>18 DEF Registered
    <2>4. AssetsAgree(q)'
      BY <1>2, <1>6, <2>2, <2>3 DEF AssetsAgree
    <2>5. QED
      BY <2>1, <2>4 DEF Agrees
  <1>20. QED
    BY <1>1, <1>2, <1>5, <1>14, <1>15, <1>16, <1>19, ManagerTurns DEF PaidOK

\* Procurement.
LEMMA ReadOrderStep ==
    ASSUME BooksInv, TidyStep, NEW m \in Managers, NEW o \in DOMAIN orders,
           ReadForApproval(m, o) \/ ReadForPayment(m, o)
    PROVE  BooksInv'
  <1>1. PICK p : p = manager[m]
    OBVIOUS
  <1>2. /\ BooksTyped /\ ManagerOK(p) /\ p.step = "idle"
        /\ UNCHANGED <<assets, orders, books, postings, adminBreaks>>
    BY <1>1 DEF BooksInv, ReadForApproval, ReadForPayment, ManagerAt
  <1>3. PICK step : /\ step \in {"payable", "approve", "settle"}
                    /\ step = "approve" => ~(TotalCost(orders[o]) > 0)
                    /\ step = "settle" => orders[o].status = "Approved"
                    /\ ManagerGoes(m, [Outside EXCEPT !.step = step, !.order = o,
                                                      !.cost = TotalCost(orders[o])])
    BY DEF ReadForApproval, ReadForPayment
  <1>4. PICK q : q = [Outside EXCEPT !.step = step, !.order = o, !.cost = TotalCost(orders[o])]
    OBVIOUS
  <1>5. /\ IsManager(q) /\ q.step = step /\ q.order = o /\ q.cost = TotalCost(orders[o])
        /\ manager' = [manager EXCEPT ![m] = q]
    BY <1>3, <1>4 DEF Outside, IsManager, ManagerGoes
  <1>6. o # 0 /\ TotalCost(orders[o]) \in Nat
    BY <1>2, OrderSums
  <1>7. AssetsStay /\ OrdersStay /\ BooksTyped'
    BY <1>2, <1>5 DEF AssetsStay, OrdersStay, BooksTyped
  <1>8. ManagerOK(q)'
    <2>1. ManagerOK(q)
      BY <1>3, <1>5, <1>6 DEF ManagerOK
    <2>2. QED
      BY <1>7, <2>1, ManagerStays
  <1>9. tidy' => /\ step \in {"payable", "approve"} => orders[o].status # "Approved"
                 /\ step = "settle" => ~orders[o].paid
    <2>1. manager'[m] = q
      BY <1>2, <1>5 DEF BooksTyped
    <2>2. QED
      BY <1>5, <1>6, <2>1 DEF TidyStep, Again
  <1>10. ASSUME tidy', Agrees(p) PROVE Agrees(q)'
    <2>1. AssetsAgree(q)'
      BY <1>2, <1>3, <1>5, <1>10, AssetsAgreeKept DEF Agrees
    <2>2. Owed' = Owed /\ Owed \in Int /\ books.payable = Owed
      BY <1>2, <1>10, OrderSums DEF Owed, CostOf, Outstanding, Agrees, OrdersAgree
    <2>3. step = "approve" => q.cost = 0
      BY <1>3, <1>5, <1>6
    <2>4. OrdersAgree(q)'
      BY <1>2, <1>3, <1>5, <1>9, <1>10, <2>2, <2>3 DEF OrdersAgree
    <2>5. QED
      BY <2>1, <2>4 DEF Agrees
  <1>11. QED
    BY <1>1, <1>2, <1>3, <1>5, <1>7, <1>8, <1>10, ManagerTurns DEF PaidOK

\* The payable is posted, or its settlement.
LEMMA PostOrderStep ==
    ASSUME BooksInv, TidyStep, NEW m \in Managers, PostPayable(m) \/ PostSettlement(m)
    PROVE  BooksInv'
  <1>1. PICK p : p = manager[m]
    OBVIOUS
  <1>2. /\ BooksTyped /\ ManagerOK(p) /\ p.step \in {"payable", "settle"}
        /\ UNCHANGED <<assets, orders, adminBreaks>>
    BY <1>1 DEF BooksInv, PostPayable, PostSettlement, ManagerAt
  <1>3. CASE ManagerGoes(m, Outside) /\ UNCHANGED <<books, postings>>
    BY <1>1, <1>2, <1>3, ManagerLeaves
  <1>4. CASE ~(ManagerGoes(m, Outside) /\ UNCHANGED <<books, postings>>)
    <2>1. PICK step, d : /\ IF p.step = "payable" THEN step = "approve" /\ d = p.cost
                            ELSE step = "paid" /\ d = -p.cost
      <3>1. CASE p.step = "payable"
        BY <3>1
      <3>2. CASE p.step # "payable"
        BY <3>2
      <3>3. QED
        BY <3>1, <3>2
    <2>2. p.cost \in Nat /\ p.order \in DOMAIN orders
      BY <1>2, OrderSums DEF ManagerOK
    <2>3. d \in Int
      BY <2>1, <2>2
    <2>4. books.payable \in Int /\ books.depreciation \in Int /\ postings \in Nat
      BY <1>2 DEF BooksTyped
    <2>5. /\ postings' = postings + 1 /\ ManagerGoes(m, [p EXCEPT !.step = step])
          /\ books' = [books EXCEPT !.payable = books.payable + d]
      <3>1. CASE p.step = "payable"
        BY <1>1, <1>2, <1>4, <2>1, <3>1 DEF PostPayable, PostSettlement, ManagerAt
      <3>2. CASE p.step = "settle"
        <4>1. books.payable + d = books.payable - p.cost
          BY <2>1, <2>2, <2>4, <3>2
        <4>2. QED
          BY <1>1, <1>2, <1>4, <2>1, <3>2, <4>1 DEF PostPayable, PostSettlement, ManagerAt
      <3>3. QED
        BY <1>2, <3>1, <3>2
    <2>6. books'.payable = books.payable + d /\ books'.depreciation = books.depreciation
      BY <1>2, <2>5 DEF BooksTyped
    <2>7. PICK q : q = [p EXCEPT !.step = step]
      OBVIOUS
    <2>8. /\ IsManager(q) /\ q.step = step /\ q.order = p.order /\ q.cost = p.cost
          /\ manager' = [manager EXCEPT ![m] = q]
      BY <1>2, <2>5, <2>7 DEF ManagerOK, IsManager, ManagerGoes
    <2>9. step \in {"approve", "paid"}
      BY <2>1
    <2>10. BooksTyped'
      <3>1. books' \in [depreciation: Int, payable: Int]
        <4>1. PICK n : n = books.payable + d /\ n \in Int
          BY <2>3, <2>4
        <4>2. books \in [depreciation: Int, payable: Int]
          BY <1>2 DEF BooksTyped
        <4>3. books' = [books EXCEPT !.payable = n]
          BY <2>5, <4>1
        <4>4. QED
          BY <4>1, <4>2, <4>3
      <3>2. postings' \in Nat
        BY <2>4, <2>5
      <3>3. manager' = [n1 \in Managers |-> manager'[n1]]
        BY <1>2, <2>8 DEF BooksTyped
      <3>4. QED
        BY <1>2, <3>1, <3>2, <3>3 DEF BooksTyped
    <2>11. AssetsStay /\ OrdersStay
      BY <1>2 DEF AssetsStay, OrdersStay
    <2>12. ManagerOK(q)'
      <3>1. ManagerOK(q)
        BY <1>2, <2>8, <2>9 DEF ManagerOK
      <3>2. QED
        BY <2>11, <3>1, ManagerStays
    <2>13. ASSUME Agrees(p) PROVE Agrees(q)'
      <3>1. AssetsAgree(q)'
        BY <1>2, <2>5, <2>6, <2>8, <2>9, <2>13, AssetsAgreeKept DEF Agrees
      <3>2. Owed' = Owed /\ Owed \in Int /\ books.payable = Owed
        BY <1>2, <2>13, OrderSums DEF Owed, CostOf, Outstanding, Agrees, OrdersAgree
      <3>3. /\ step = "approve" => books'.payable = Owed + q.cost
            /\ step = "paid" => books'.payable = Owed - q.cost
        BY <2>1, <2>2, <2>6, <2>8, <3>2
      <3>4. /\ step = "approve" => orders[q.order].status # "Approved"
            /\ step = "paid" => orders[q.order].status = "Approved" /\ ~orders[q.order].paid
        BY <1>2, <2>1, <2>8, <2>13 DEF Agrees, OrdersAgree
      <3>5. OrdersAgree(q)'
        BY <1>2, <2>8, <2>9, <3>2, <3>3, <3>4 DEF OrdersAgree
      <3>6. QED
        BY <3>1, <3>5 DEF Agrees
    <2>14. QED
      BY <1>1, <1>2, <2>8, <2>10, <2>11, <2>12, <2>13, ManagerTurns DEF PaidOK
  <1>5. QED
    BY <1>3, <1>4

\* The order is marked.
LEMMA MarkOrderStep ==
    ASSUME BooksInv, TidyStep, NEW m \in Managers,
           approveProcurementRequest(m) \/ payProcurementRequest(m)
    PROVE  BooksInv'
  <1>1. PICK p, o : p = manager[m] /\ o = p.order
    OBVIOUS
  <1>2. /\ BooksTyped /\ ManagerOK(p) /\ p.step \in {"approve", "paid"}
        /\ UNCHANGED <<assets, books, postings, adminBreaks>>
        /\ ManagerGoes(m, Outside)
    BY <1>1 DEF BooksInv, approveProcurementRequest, payProcurementRequest, ManagerAt
  <1>3. /\ o \in DOMAIN orders /\ p.cost = TotalCost(orders[o]) /\ p.cost \in Nat
        /\ orders \in Seq(ProcurementRequest)
        /\ \A i \in DOMAIN orders : orders[i] \in ProcurementRequest
    BY <1>1, <1>2, OrderSums DEF ManagerOK, BooksTyped
  <1>4. PICK x : x = orders[o] /\ x \in ProcurementRequest
    BY <1>3
  <1>5. PICK y : y = IF p.step = "approve"
                     THEN [x EXCEPT !.status = "Approved", !.entry = p.cost > 0]
                     ELSE [x EXCEPT !.paid = TRUE]
    OBVIOUS
  <1>6. orders' = [orders EXCEPT ![o] = y]
    BY <1>1, <1>2, <1>4, <1>5 DEF approveProcurementRequest, payProcurementRequest, ManagerAt
  <1>7. /\ y \in ProcurementRequest
        /\ y.unitCost = x.unitCost /\ y.quantity = x.quantity
        /\ p.step = "approve" => y.status = "Approved" /\ y.paid = x.paid
        /\ p.step = "paid" => y.status = x.status /\ y.paid = TRUE
    <2>1. CASE p.step = "approve"
      <3>1. PICK e : e \in BOOLEAN /\ e = (p.cost > 0)
        <4>1. PICK c : c = p.cost /\ c \in Nat
          BY <1>3
        <4>2. (c > 0) \in BOOLEAN
          BY <4>1
        <4>3. QED
          BY <4>1, <4>2, Zenon
      <3>2. y = [x EXCEPT !.status = "Approved", !.entry = e]
        BY <1>5, <2>1, <3>1
      <3>3. y \in ProcurementRequest
        BY <1>4, <3>1, <3>2 DEF ProcurementRequest
      <3>4. /\ y.unitCost = x.unitCost /\ y.quantity = x.quantity
            /\ y.status = "Approved" /\ y.paid = x.paid
        BY <1>4, <3>2 DEF ProcurementRequest
      <3>5. QED
        BY <2>1, <3>3, <3>4
    <2>2. CASE p.step = "paid"
      <3>1. y = [x EXCEPT !.paid = TRUE]
        BY <1>5, <2>2
      <3>2. y \in ProcurementRequest
        BY <1>4, <3>1 DEF ProcurementRequest
      <3>3. /\ y.unitCost = x.unitCost /\ y.quantity = x.quantity
            /\ y.status = x.status /\ y.paid = TRUE
        BY <1>4, <3>1 DEF ProcurementRequest
      <3>4. QED
        BY <2>2, <3>2, <3>3
    <2>3. QED
      BY <1>2, <2>1, <2>2
  <1>8. /\ orders' \in Seq(ProcurementRequest) /\ DOMAIN orders' = DOMAIN orders
        /\ \A i \in DOMAIN orders : orders'[i] = IF i = o THEN y ELSE orders[i]
    <2>1. PICK S : S = ProcurementRequest
      OBVIOUS
    <2>2. orders \in Seq(S) /\ y \in S
      BY <1>3, <1>7, <2>1
    <2>3. QED
      BY <1>3, <1>6, <2>1, <2>2, ExceptSeq
  <1>9. \A i \in DOMAIN orders : TotalCost(orders'[i]) = TotalCost(orders[i])
    BY <1>4, <1>7, <1>8 DEF TotalCost
  <1>10. AssetsStay /\ OrdersStay
    BY <1>2, <1>8, <1>9 DEF AssetsStay, OrdersStay
  <1>11. PICK q : q = Outside /\ q.step = "idle"
    <2>1. Outside.step = "idle"
      BY DEF Outside
    <2>2. QED
      BY <2>1
  <1>12. manager' = [manager EXCEPT ![m] = q]
    BY <1>2, <1>11 DEF ManagerGoes
  <1>13. BooksTyped'
    <2>1. manager' = [n \in Managers |-> manager'[n]]
      BY <1>2, <1>12 DEF BooksTyped
    <2>2. QED
      BY <1>2, <1>8, <2>1 DEF BooksTyped
  <1>14. ManagerOK(q)'
    BY <1>11 DEF ManagerOK, IsManager, Outside
  <1>15. ASSUME PaidOK, Agrees(p) PROVE (PaidOK /\ Agrees(q))'
    <2>1. AssetsAgree(q)'
      BY <1>2, <1>11, <1>15, AssetsAgreeKept DEF Agrees
    <2>2. PaidOK'
      BY <1>2, <1>4, <1>7, <1>8, <1>1, <1>15 DEF PaidOK, Agrees, OrdersAgree
    <2>3. PICK S, f, R, g : S = Outstanding /\ f = CostOf(S) /\ R = Outstanding' /\ g = CostOf(R)'
      OBVIOUS
    <2>4. IsFiniteSet(S) /\ IntegersOn(f, S)
      BY <1>2, <2>3, OrderSums
    <2>5. Owed = SumFunctionOnSet(f, S) /\ Owed' = SumFunctionOnSet(g, R) /\ Owed \in Int
      BY <1>2, <2>3, OrderSums DEF Owed
    <2>6. /\ \A i \in S : i \in DOMAIN orders /\ f[i] = TotalCost(orders[i])
          /\ \A i \in R : i \in DOMAIN orders /\ g[i] = TotalCost(orders[i])
      BY <1>8, <1>9, <2>3 DEF Outstanding, CostOf
    <2>7. CASE p.step = "approve"
      <3>1. x.status # "Approved" /\ x.paid = FALSE /\ books.payable = Owed + p.cost
        <4>1. x.status # "Approved" /\ books.payable = Owed + p.cost
          BY <1>1, <1>4, <1>15, <2>7 DEF Agrees, OrdersAgree
        <4>2. ~x.paid
          BY <1>3, <1>4, <1>15, <4>1 DEF PaidOK
        <4>3. x.paid \in BOOLEAN
          BY <1>4 DEF ProcurementRequest
        <4>4. QED
          BY <4>1, <4>2, <4>3
      <3>2. o \notin S /\ R = S \union {o}
        <4>1. o \notin S
          BY <1>4, <2>3, <3>1 DEF Outstanding
        <4>2. R = {i \in DOMAIN orders : i = o \/ i \in S}
          BY <1>7, <1>8, <2>3, <2>7, <3>1 DEF Outstanding
        <4>3. QED
          BY <1>3, <2>6, <4>1, <4>2
      <3>3. g[o] = p.cost /\ \A i \in S : g[i] = f[i]
        BY <1>3, <2>6, <3>2
      <3>4. SumFunctionOnSet(g, R) = SumFunctionOnSet(f, S) + p.cost
        <4>1. g[o] \in Int
          BY <1>3, <3>3
        <4>2. QED
          BY <2>4, <3>2, <3>3, <4>1, SumGrows
      <3>5. books'.payable = Owed'
        BY <1>2, <2>5, <3>1, <3>4
      <3>6. QED
        BY <1>11, <2>1, <2>2, <3>5 DEF Agrees, OrdersAgree
    <2>8. CASE p.step = "paid"
      <3>1. x.status = "Approved" /\ ~x.paid /\ books.payable = Owed - p.cost
        BY <1>1, <1>4, <1>15, <2>8 DEF Agrees, OrdersAgree
      <3>2. o \in S /\ R = S \ {o}
        <4>1. o \in S
          BY <1>3, <1>4, <2>3, <3>1 DEF Outstanding
        <4>2. R = {i \in DOMAIN orders : i # o /\ i \in S}
          BY <1>7, <1>8, <2>3, <2>8, <3>1 DEF Outstanding
        <4>3. QED
          BY <2>6, <4>1, <4>2
      <3>3. /\ SumFunctionOnSet(f, S \ {o}) \in Int
            /\ SumFunctionOnSet(f, S) = f[o] + SumFunctionOnSet(f, S \ {o})
        BY <2>4, <3>2, SumOnStep
      <3>4. f[o] = p.cost /\ IsFiniteSet(R) /\ IntegersOn(f, R) /\ \A i \in R : g[i] = f[i]
        BY <1>3, <2>4, <2>6, <3>2, FS_Subset DEF IntegersOn
      <3>5. SumFunctionOnSet(g, R) = SumFunctionOnSet(f, R)
        BY <3>4, SumOnSame
      <3>6. books'.payable = Owed'
        BY <1>2, <1>3, <2>5, <3>1, <3>2, <3>3, <3>4, <3>5
      <3>7. QED
        BY <1>11, <2>1, <2>2, <3>6 DEF Agrees, OrdersAgree
    <2>9. QED
      BY <1>2, <2>7, <2>8
  <1>16. QED
    BY <1>1, <1>2, <1>10, <1>11, <1>12, <1>13, <1>14, <1>15, ManagerTurns

LEMMA BooksKept ==
    ASSUME OfficeInputs
    PROVE  BooksInv /\ [AdminNext]_adminVars => BooksInv'
  <1>1. SUFFICES ASSUME BooksInv, [AdminNext]_adminVars PROVE BooksInv'
    OBVIOUS
  <1>2. CASE UNCHANGED adminVars
    <2>1. UNCHANGED <<assets, orders, books, manager, postings, adminBreaks, tidy>>
      BY <1>2 DEF adminVars
    <2>2. AssetsStay /\ OrdersStay /\ BooksTyped'
      BY <1>1, <2>1 DEF AssetsStay, OrdersStay, BooksInv, BooksTyped
    <2>3. ASSUME NEW m \in Managers PROVE ManagerOK(manager[m])'
      <3>1. PICK q : q = manager[m]
        OBVIOUS
      <3>2. QED
        BY <1>1, <2>1, <2>2, <3>1, ManagerStays DEF BooksInv
    <2>4. ASSUME NEW q, Agrees(q) PROVE Agrees(q)'
      BY <2>1, <2>4 DEF Agrees, OrdersAgree, AssetsAgree, Owed, CostOf, Outstanding, Registered,
                        Updated, Slack
    <2>5. TidyInv => TidyInv'
      <3>1. ASSUME NEW m \in Managers, Agrees(manager[m]) PROVE Agrees(manager[m])'
        <4>1. PICK q : q = manager[m]
          OBVIOUS
        <4>2. QED
          BY <2>1, <2>4, <3>1, <4>1
      <3>2. Agrees(Outside) => Agrees(Outside)'
        <4>1. PICK q : q = Outside
          OBVIOUS
        <4>2. QED
          BY <2>4, <4>1 DEF Outside
      <3>3. QED
        BY <2>1, <3>1, <3>2 DEF TidyInv, PaidOK, AllIdle, ManagerAt
    <2>6. QED
      BY <1>1, <2>1, <2>2, <2>3, <2>5 DEF BooksInv
  <1>3. CASE AdminNext
    <2>1. TidyStep /\ AdminStep /\ (tidy' => adminBreaks' = 0)
      BY <1>3, TidyKept DEF AdminNext, OfficeInputs
    <2>2. GoodsInOrder
      BY DEF OfficeInputs
    <2>3. ASSUME AdminBreak PROVE BooksInv'
      <3>1. adminBreaks \in Nat /\ BooksTyped
        BY <1>1 DEF BooksInv, BooksTyped
      <3>2. /\ UNCHANGED <<assets, orders, books, postings>> /\ adminBreaks' = adminBreaks + 1
            /\ manager' = [m \in Managers |-> Outside]
        BY <2>3 DEF AdminBreak
      <3>3. BooksTyped'
        BY <3>1, <3>2 DEF BooksTyped
      <3>4. ~tidy' /\ tidy' \in BOOLEAN
        BY <2>1, <3>1, <3>2 DEF TidyStep
      <3>5. ManagerOK(Outside)'
        BY DEF ManagerOK, IsManager, Outside
      <3>6. \A m \in Managers : manager'[m] = Outside
        BY <3>2
      <3>7. QED
        BY <3>3, <3>4, <3>5, <3>6 DEF BooksInv, Outside
    <2>4. ASSUME NEW m \in Managers,
                 \/ ReadAssets(m)
                 \/ PostDepreciation(m)
                 \/ \E i \in DOMAIN manager[m].updates : UpdateAsset(m, i)
                 \/ \E o \in DOMAIN orders : ReadForApproval(m, o) \/ ReadForPayment(m, o)
                 \/ PostPayable(m)
                 \/ approveProcurementRequest(m)
                 \/ PostSettlement(m)
                 \/ payProcurementRequest(m)
          PROVE  BooksInv'
      BY <1>1, <2>1, <2>4, ReadAssetsStep, PostDepreciationStep, UpdateAssetStep, ReadOrderStep,
         PostOrderStep, MarkOrderStep
    <2>5. QED
      BY <1>1, <2>1, <2>2, <2>3, <2>4, CreateAssetStep, OrdersChangeStep DEF AdminStep
  <1>4. QED
    BY <1>1, <1>2, <1>3

LEMMA BooksStart == ASSUME OfficeInputs PROVE AdminInit => BooksInv
  <1>1. SUFFICES ASSUME AdminInit PROVE BooksInv
    OBVIOUS
  <1>2. BooksTyped
    <2>1. /\ assets = << >> /\ orders = << >> /\ DOMAIN << >> = {}
          /\ books = [depreciation |-> 0, payable |-> 0] /\ postings = 0 /\ adminBreaks = 0
          /\ manager = [m \in Managers |-> Outside]
      BY <1>1 DEF AdminInit
    <2>2. orders \in Seq(ProcurementRequest)
      BY <2>1, EmptySeq
    <2>3. \E S : assets \in Seq(S)
      BY <2>1, EmptySeq
    <2>4. QED
      BY <2>1, <2>2, <2>3 DEF BooksTyped
  <1>3. ManagerOK(Outside) /\ Outside.step = "idle"
    BY DEF ManagerOK, IsManager, Outside
  <1>4. \A m \in Managers : manager[m] = Outside
    BY <1>1 DEF AdminInit
  <1>5. Agrees(Outside)
    <2>1. Owed = 0
      <3>1. Outstanding = {}
        BY <1>1 DEF AdminInit, Outstanding
      <3>2. IsFiniteSet(Outstanding) /\ IntegersOn(CostOf(Outstanding), Outstanding)
        BY <1>2, OrderSums
      <3>3. QED
        BY <3>1, <3>2, SumOnStep DEF Owed
    <2>2. Registered = 0
      <3>1. PICK f : f = [a \in DOMAIN assets |-> assets[a].accumulated]
        OBVIOUS
      <3>2. DOMAIN f = {}
        BY <1>1, <3>1 DEF AdminInit
      <3>3. IsFiniteSet({}) /\ IntegersOn(f, {})
        BY FS_EmptySet DEF IntegersOn
      <3>4. QED
        BY <3>1, <3>2, <3>3, SumOnStep DEF Registered, SumFunction
    <2>3. postings * Slack = 0
      <3>1. postings = 0 /\ Len(assets) \in Nat
        BY <1>1, <1>2, LenProperties DEF AdminInit, BooksTyped
      <3>2. Slack \in Nat
        BY <3>1 DEF Slack
      <3>3. QED
        BY <3>1, <3>2
    <2>4. QED
      BY <1>1, <1>3, <2>1, <2>2, <2>3 DEF AdminInit, Agrees, OrdersAgree, AssetsAgree, Near
  <1>6. TidyInv
    BY <1>1, <1>3, <1>4, <1>5 DEF AdminInit, TidyInv, PaidOK, ManagerAt
  <1>7. QED
    BY <1>1, <1>2, <1>3, <1>4, <1>6 DEF AdminInit, BooksInv

\* The inductive invariant of AdministrationService: every figure that a run of
\* runMonthlyDepreciation writes stands on the schedule of its asset, whatever
\* overlaps; and as long as requests come one after the other the two accounts
\* show what the tables say, and what the request at work has posted before them.
THEOREM BooksInvariant == ASSUME OfficeInputs PROVE AdminSpec => []BooksInv
  BY BooksStart, BooksKept, PTL DEF AdminSpec

\* runMonthlyDepreciation, approveProcurementRequest, payProcurementRequest and
\* apAging: no asset is written off twice, the aging report adds up to account
\* 2400, and the register shows what was depreciated on the books.
THEOREM BooksMeetRegistersHolds == ASSUME OfficeInputs PROVE AdminSpec => []BooksMeetRegisters
  <1>1. ASSUME BooksInv PROVE BooksMeetRegisters
    <2>1. BooksTyped /\ \A a \in DOMAIN assets : AssetOK(assets[a])
      BY <1>1 DEF BooksInv, BooksTyped
    <2>2. \A a \in DOMAIN assets : assets[a].accumulated <= assets[a].purchaseCost
      BY <2>1 DEF AssetOK, AccumulatedOK
    <2>3. \A a \in DOMAIN assets : OnSchedule(assets[a])
      <3>1. ASSUME NEW a, AssetOK(a) PROVE OnSchedule(a)
        <4>1. SUFFICES ASSUME a.accumulated > 0
                       PROVE  \E i \in 1 .. a.months :
                                Distance(a.accumulated, depreciationSchedule(a)[i].accumulated)
                                  <= i * Cent
          BY DEF OnSchedule
        <4>2. PICK i \in 1 .. a.months :
                Distance(a.accumulated, RoundToCent(Least(i * Monthly(a), a.purchaseCost)))
                  <= i * Cent
          BY <3>1, <4>1 DEF AssetOK, AccumulatedOK
        <4>3. depreciationSchedule(a)[i].accumulated
                = RoundToCent(Least(i * Monthly(a), a.purchaseCost))
          BY DEF depreciationSchedule
        <4>4. QED
          BY <4>2, <4>3
      <3>2. QED
        BY <2>1, <3>1
    <2>4. ASSUME tidy, AllIdle
          PROVE  /\ SumFunction(apAging) = books.payable
                 /\ Distance(Registered, books.depreciation)
                      <= postings * (Len(assets) + 1) * (Cent \div 2)
      <3>1. Agrees(Outside)
        BY <1>1, <2>4 DEF BooksInv, TidyInv
      <3>2. /\ books.payable = Owed
            /\ Near(Registered, books.depreciation, postings * Slack)
        BY <3>1 DEF Agrees, OrdersAgree, AssetsAgree, Outside
      <3>3. SumFunction(apAging) = Owed
        <4>1. PICK S, f : S = Outstanding /\ f = CostOf(S)
          OBVIOUS
        <4>2. IsFiniteSet(S) /\ IntegersOn(f, S)
          BY <2>1, <4>1, OrderSums
        <4>3. PICK k : k = [o \in S |-> Bucket(orders[o].age)]
          OBVIOUS
        <4>4. PICK C : C = {"0-30", "31-60", "61-90", "90+"}
          OBVIOUS
        <4>5. IsFiniteSet(C)
          <5>1. IsFiniteSet({"0-30"})
            BY FS_Singleton
          <5>2. IsFiniteSet({"0-30"} \union {"31-60"})
            BY <5>1, FS_AddElement
          <5>3. IsFiniteSet(({"0-30"} \union {"31-60"}) \union {"61-90"})
            BY <5>2, FS_AddElement
          <5>4. IsFiniteSet((({"0-30"} \union {"31-60"}) \union {"61-90"}) \union {"90+"})
            BY <5>3, FS_AddElement
          <5>5. C = (({"0-30"} \union {"31-60"}) \union {"61-90"}) \union {"90+"}
            BY <4>4
          <5>6. QED
            BY <5>4, <5>5
        <4>6. \A o \in S : k[o] \in C
          BY <4>3, <4>4 DEF Bucket
        <4>7. DOMAIN apAging = C
          BY <4>4 DEF apAging
        <4>8. \A c \in C : apAging[c] = SumFunctionOnSet(f, GroupOf(S, k, c))
          <5>1. ASSUME NEW c \in C PROVE apAging[c] = SumFunctionOnSet(f, GroupOf(S, k, c))
            <6>1. GroupOf(S, k, c) = {o \in S : Bucket(orders[o].age) = c}
              BY <4>3 DEF GroupOf
            <6>2. apAging[c] = SumFunctionOnSet(f, {o \in S : Bucket(orders[o].age) = c})
              BY <4>1, <4>4 DEF apAging, Outstanding, CostOf
            <6>3. QED
              BY <6>1, <6>2
          <5>2. QED
            BY <5>1
        <4>9. SumFunctionOnSet(apAging, C) = SumFunctionOnSet(f, S)
          BY <4>2, <4>5, <4>6, <4>8, SumByGroup
        <4>10. QED
          BY <4>1, <4>7, <4>9 DEF SumFunction, Owed
      <3>4. Distance(Registered, books.depreciation)
              <= postings * (Len(assets) + 1) * (Cent \div 2)
        <4>1. UpdatesOK(<< >>)
          BY DEF UpdatesOK
        <4>2. Registered \in Int /\ Len(assets) \in Nat /\ postings \in Nat /\ books.depreciation \in Int
          BY <2>1, <4>1, RegisterSums DEF BooksTyped
        <4>3. PICK n : n = Len(assets) + 1 /\ n \in Nat
          BY <4>2
        <4>4. postings * n * 50 = postings * (n * 50)
          BY <4>2, <4>3
        <4>5. Cent \div 2 = 50
          BY DEF Cent
        <4>6. Distance(Registered, books.depreciation) <= postings * Slack
          BY <3>2, <4>2 DEF Near, Distance
        <4>7. QED
          BY <4>3, <4>4, <4>5, <4>6 DEF Slack
      <3>5. QED
        BY <3>2, <3>3, <3>4
    <2>5. QED
      BY <2>2, <2>3, <2>4 DEF BooksMeetRegisters, Registered
  <1>2. QED
    BY <1>1, BooksInvariant, PTL
=============================================================================
