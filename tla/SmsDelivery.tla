------------------------------ MODULE SmsDelivery ------------------------------
(***************************************************************************)
(* Outgoing messages: NotificationsService and EmailService write a log    *)
(* row and add a BullMQ job some awaits later; one worker per queue calls  *)
(* the gateway and writes the outcome to the row by id.  A message that a  *)
(* listener may not send by itself waits as Pending until a person         *)
(* releases it; a campaign is one job for many rows.                       *)
(*                                                                         *)
(* BullMQ and the providers are external: a job whose worker throws is     *)
(* tried again up to its attempts, a job whose process died is put back,   *)
(* and the answer of a provider may be lost after it took the message.     *)
(***************************************************************************)
EXTENDS Naturals, Sequences, FiniteSets, SequencesExt

CONSTANTS
    Callers,       \* calls the server works on at the same time
    Recipients,    \* phones of a campaign's audience: how many
    MaxMessages,   \* bound: rows of sms_logs and email_logs
    MaxCampaigns,  \* bound: campaigns
    MaxJobs,       \* bound: jobs added
    MaxFaults      \* bound: restarts and lost answers

ASSUME SmsAssumption == Recipients \in Nat

VARIABLES
    logs,        \* tables sms_logs and email_logs, in insertion order; history:
                 \* how often a provider took the message
    campaigns,   \* table sms_campaigns
    jobs,        \* every BullMQ job ever added, with what its worker is doing
    caller,      \* what each call is doing
    faults,
    calm         \* history: one call after the other so far, and no fault

smsVars == <<logs, campaigns, jobs, caller, faults, calm>>

Queues == {"sms", "bulk-sms", "email"}
LogStatuses == {"Pending", "Queued", "Sent", "Failed"}
SmsLog == [queue: Queues, status: LogStatuses, accepted: Nat]
Campaign ==
    [status: {"Queued", "Sending", "Completed", "Failed"}, rows: SUBSET Nat,
     sentCount: Nat, failedCount: Nat]

\* attempts and what is tried again: 3 for a message, 2 for a campaign.
Attempts(queue) == IF queue = "bulk-sms" THEN 2 ELSE 3

Rested == [step |-> "idle", todo |-> << >>, queue |-> "sms", campaign |-> 0]
CallAt(c, step) == caller[c].step = step
Continue(c, call) == caller' = [caller EXCEPT ![c] = call]
End(c) == Continue(c, Rested)

SmsInit ==
    /\ logs = << >>
    /\ campaigns = << >>
    /\ jobs = << >>
    /\ caller = [c \in Callers |-> Rested]
    /\ faults = 0
    /\ calm = TRUE

NewRows(queue, status, n) ==
    /\ Len(logs) + n <= MaxMessages
    /\ logs' = logs \o [i \in 1 .. n |-> [queue |-> queue, status |-> status, accepted |-> 0]]
NewIds(n) == [i \in 1 .. n |-> Len(logs) + i]
AddJob(queue, rows, campaign) ==
    /\ Len(jobs) < MaxJobs
    /\ jobs' = Append(jobs, [queue |-> queue, rows |-> rows, campaign |-> campaign,
                              state |-> "waiting", tries |-> 0,
                              outcome |-> << >>, left |-> {}])
-------------------------------------------------------------------------------
(* Calls of the office and of the event listener.                           *)

\* logPendingSms, from a listener while automatic sending is off.
LogPendingSms ==
    /\ NewRows("sms", "Pending", 1)
    /\ UNCHANGED <<campaigns, jobs, caller, faults>>

\* queueSms and queueEmail: the row is saved, the job follows.
QueueMessage(c, queue) ==
    /\ CallAt(c, "idle")
    /\ NewRows(queue, "Queued", 1)
    /\ Continue(c, [Rested EXCEPT !.step = "add", !.queue = queue, !.todo = NewIds(1)])
    /\ UNCHANGED <<campaigns, jobs, faults>>

\* listPending: the newest first.
PendingLists ==
    LET pending == {i \in DOMAIN logs : logs[i].status = "Pending"}
    IN  {todo \in [1 .. Cardinality(pending) -> pending] :
            \A i, j \in DOMAIN todo : i < j => todo[i] > todo[j]}

\* sendPendingSms of one row, and sendAllPending: the rows listed once, then
\* one sendPendingSms after the other.
SendPendingSms(c, i) ==
    /\ CallAt(c, "idle")
    /\ Continue(c, [Rested EXCEPT !.step = "read", !.todo = <<i>>])
    /\ UNCHANGED <<logs, campaigns, jobs, faults>>
SendAllPending(c) ==
    /\ CallAt(c, "idle")
    /\ \E todo \in PendingLists :
          /\ Len(todo) > 1
          /\ Continue(c, [Rested EXCEPT !.step = "read", !.todo = todo])
    /\ UNCHANGED <<logs, campaigns, jobs, faults>>

\* Fault: the status is not looked at.
ReadAnyStatus(c) ==
    /\ CallAt(c, "read")
    /\ Continue(c, [caller[c] EXCEPT !.step = "mark"])
    /\ UNCHANGED <<logs, campaigns, jobs, faults>>

\* "This message is not pending - it may have already been sent": an error,
\* which also ends sendAllPending.
ReadPending(c) ==
    /\ CallAt(c, "read")
    /\ IF logs[Head(caller[c].todo)].status = "Pending"
       THEN Continue(c, [caller[c] EXCEPT !.step = "mark"])
       ELSE End(c)
    /\ UNCHANGED <<logs, campaigns, jobs, faults>>

MarkQueued(c) ==
    /\ CallAt(c, "mark")
    /\ logs' = [logs EXCEPT ![Head(caller[c].todo)].status = "Queued"]
    /\ Continue(c, [caller[c] EXCEPT !.step = "add"])
    /\ UNCHANGED <<campaigns, jobs, faults>>

AddMessageJob(c) ==
    LET rest == Tail(caller[c].todo)
    IN  /\ CallAt(c, "add")
        /\ AddJob(caller[c].queue, {Head(caller[c].todo)}, 0)
        /\ IF rest = << >> THEN End(c)
           ELSE Continue(c, [caller[c] EXCEPT !.step = "read", !.todo = rest])
        /\ UNCHANGED <<logs, campaigns, faults>>

\* sendBulk: the campaign, then its rows, then the one job.
SendBulk(c) ==
    /\ CallAt(c, "idle")
    /\ Len(campaigns) < MaxCampaigns
    /\ campaigns' = Append(campaigns,
         [status |-> "Queued", rows |-> {}, sentCount |-> 0, failedCount |-> 0])
    /\ Continue(c, [Rested EXCEPT !.step = "rows", !.campaign = Len(campaigns) + 1])
    /\ UNCHANGED <<logs, jobs, faults>>
SaveCampaignRows(c) ==
    LET rows == ToSet(NewIds(Recipients))
    IN  /\ CallAt(c, "rows")
        /\ NewRows("bulk-sms", "Queued", Recipients)
        /\ campaigns' = [campaigns EXCEPT ![caller[c].campaign].rows = rows]
        /\ Continue(c, [caller[c] EXCEPT !.step = "job"])
        /\ UNCHANGED <<jobs, faults>>
AddCampaignJob(c) ==
    LET k == caller[c].campaign
    IN  /\ CallAt(c, "job")
        /\ AddJob("bulk-sms", campaigns[k].rows, k)
        /\ End(c)
        /\ UNCHANGED <<logs, campaigns, faults>>
-------------------------------------------------------------------------------
(* The workers.  A job is waiting, sending (the gateway was not called or   *)
(* has not answered), recording (answered), failing (thrown) or done.       *)

Active(j) == jobs[j].state \notin {"waiting", "done"}
Set(j, job) == jobs' = [jobs EXCEPT ![j] = job]

\* One job of a queue at a time; of a campaign the first step is its status.
TakeJob(j) ==
    /\ jobs[j].state = "waiting"
    /\ \A other \in DOMAIN jobs : jobs[other].queue = jobs[j].queue => ~Active(other)
    /\ Set(j, [jobs[j] EXCEPT !.state = "sending", !.outcome = << >>])
    /\ campaigns' = IF jobs[j].campaign = 0 THEN campaigns
                    ELSE [campaigns EXCEPT ![jobs[j].campaign].status = "Sending"]
    /\ UNCHANGED <<logs, caller, faults>>

\* The provider's answer per row, and what toResult makes of it: a message is
\* Sent exactly when it was taken (1701).
Results(rows) == [rows -> {"Sent", "Failed"}]
Accept(result) ==
    logs' = [i \in DOMAIN logs |-> IF i \in DOMAIN result /\ result[i] = "Sent"
                                   THEN [logs[i] EXCEPT !.accepted = @ + 1] ELSE logs[i]]
\* What the worker then writes, one row after the other.
ToRecord(j, result) ==
    Set(j, [jobs[j] EXCEPT !.state = "recording", !.outcome = result, !.left = jobs[j].rows])

GatewayAnswers(j) ==
    /\ jobs[j].state = "sending"
    /\ \E result \in Results(jobs[j].rows) :
          /\ Accept(result)
          /\ ToRecord(j, result)
    /\ UNCHANGED <<campaigns, caller, faults>>

\* 1709 or a refused connection: nothing was taken.  A single send throws;
\* the bulk call catches it and answers Failed for every row, or is thrown
\* by the adapter as a whole.  The e-mail adapter's interface lets it throw too.
GatewayThrows(j) ==
    /\ jobs[j].state = "sending"
    /\ Set(j, [jobs[j] EXCEPT !.state = "failing"])
    /\ UNCHANGED <<logs, campaigns, caller, faults>>

\* The message was taken and the answer is lost.
AnswerLost(j) ==
    /\ jobs[j].state = "sending"
    /\ faults < MaxFaults
    /\ faults' = faults + 1
    /\ Accept([i \in jobs[j].rows |-> "Sent"])
    /\ IF jobs[j].campaign = 0
       THEN Set(j, [jobs[j] EXCEPT !.state = "failing"])
       ELSE ToRecord(j, [i \in jobs[j].rows |-> "Failed"])
    /\ UNCHANGED <<campaigns, caller>>

RecordResult(j, i) ==
    /\ jobs[j].state = "recording"
    /\ i \in jobs[j].left
    /\ logs' = [logs EXCEPT ![i].status = jobs[j].outcome[i]]
    /\ Set(j, [jobs[j] EXCEPT !.left = @ \ {i},
         !.state = IF jobs[j].left # {i} THEN "recording"
                   ELSE IF jobs[j].campaign = 0 THEN "done" ELSE "counting"])
    /\ UNCHANGED <<campaigns, caller, faults>>

Outcomes(j, status) == Cardinality({i \in jobs[j].rows : jobs[j].outcome[i] = status})

\* The counts of this attempt: what was just written to the rows.
CountCampaign(j) ==
    LET k == jobs[j].campaign
        sent == Outcomes(j, "Sent")
        failed == Outcomes(j, "Failed")
    IN  /\ jobs[j].state = "counting"
        /\ campaigns' = [campaigns EXCEPT
             ![k].status = IF sent = 0 /\ failed # 0 THEN "Failed" ELSE "Completed",
             ![k].sentCount = sent, ![k].failedCount = failed]
        /\ Set(j, [jobs[j] EXCEPT !.state = "done"])
        /\ UNCHANGED <<logs, caller, faults>>

\* Fault: a job that failed is never given up.
RecordThrownForever(j) ==
    /\ jobs[j].state = "failing"
    /\ logs' = [i \in DOMAIN logs |->
         IF i \in jobs[j].rows THEN [logs[i] EXCEPT !.status = "Queued"] ELSE logs[i]]
    /\ Set(j, [jobs[j] EXCEPT !.state = "waiting"])
    /\ UNCHANGED <<campaigns, caller, faults>>

\* The catch block throws on, and BullMQ tries again or gives up.  Before, the
\* two SMS workers write Failed; the e-mail worker writes nothing.
WritesFailed(j) == jobs[j].queue # "email"
RecordThrown(j) ==
    LET k == jobs[j].campaign
    IN  /\ jobs[j].state = "failing"
        /\ logs' = [i \in DOMAIN logs |->
             IF i \in jobs[j].rows /\ WritesFailed(j)
             THEN [logs[i] EXCEPT !.status = "Failed"] ELSE logs[i]]
        /\ campaigns' = IF k = 0 THEN campaigns
                        ELSE [campaigns EXCEPT ![k].status = "Failed",
                                ![k].failedCount = Cardinality(jobs[j].rows)]
        /\ Set(j, [jobs[j] EXCEPT
             !.tries = @ + 1,
             !.state = IF jobs[j].tries + 1 < Attempts(jobs[j].queue) THEN "waiting" ELSE "done"])
        /\ UNCHANGED <<caller, faults>>

\* The process restarts: calls are gone, jobs in progress are put back.
SmsCrash ==
    /\ faults < MaxFaults
    /\ faults' = faults + 1
    /\ caller' = [c \in Callers |-> Rested]
    /\ jobs' = [j \in DOMAIN jobs |->
         IF Active(j) THEN [jobs[j] EXCEPT !.state = "waiting", !.outcome = << >>] ELSE jobs[j]]
    /\ UNCHANGED <<logs, campaigns>>
-------------------------------------------------------------------------------
CallStep(c) ==
    \/ \E queue \in {"sms", "email"} : QueueMessage(c, queue)
    \/ \E i \in DOMAIN logs : SendPendingSms(c, i)
    \/ SendAllPending(c)
    \/ ReadPending(c)
    \/ MarkQueued(c)
    \/ AddMessageJob(c)
    \/ SendBulk(c)
    \/ SaveCampaignRows(c)
    \/ AddCampaignJob(c)

WorkerStep(j) ==
    \/ GatewayAnswers(j)
    \/ GatewayThrows(j)
    \/ \E i \in jobs[j].rows : RecordResult(j, i)
    \/ CountCampaign(j)
    \/ RecordThrown(j)

SmsStep ==
    \/ LogPendingSms
    \/ \E c \in Callers : CallStep(c)
    \/ \E j \in DOMAIN jobs : TakeJob(j) \/ WorkerStep(j) \/ AnswerLost(j)
    \/ SmsCrash

SmsNext ==
    /\ SmsStep
    /\ calm' = /\ calm
               /\ faults' = 0
               /\ Cardinality({c \in Callers : caller'[c].step # "idle"}) <= 1

\* A worker takes what waits and ends what it took; jobs are numbered as they
\* are added.  Nothing makes the office call.
WorkerTakes(n) == n \in DOMAIN jobs /\ TakeJob(n)
WorkerWorks(n) == n \in DOMAIN jobs /\ WorkerStep(n)
-------------------------------------------------------------------------------
(* Properties.                                                              *)

\* Type invariant.
SmsTypeOK ==
    /\ logs \in Seq(SmsLog)
    /\ campaigns \in Seq(Campaign)
    /\ \A j \in DOMAIN jobs : jobs[j].queue \in Queues /\ jobs[j].rows \subseteq DOMAIN logs

\* sendPendingSms, "it may have already been sent", and the adapter's "do not
\* retry": while calls come one after the other and nothing is lost a message
\* reaches its provider at most once, and its row says truly whether it did.
SentOnce ==
    calm => \A i \in DOMAIN logs :
        /\ logs[i].accepted <= 1
        /\ logs[i].status = "Sent" => logs[i].accepted = 1
        /\ logs[i].status \in {"Pending", "Failed"} =>
              \/ logs[i].accepted = 0
              \/ \E j \in DOMAIN jobs : i \in jobs[j].rows /\ jobs[j].state = "recording"

\* A completed campaign counts what its rows say, also when its job ran twice
\* or was cut off by a restart.
CampaignCountsRows ==
    \A k \in DOMAIN campaigns : campaigns[k].status = "Completed" =>
        /\ campaigns[k].sentCount
             = Cardinality({i \in campaigns[k].rows : logs[i].status = "Sent"})
        /\ campaigns[k].failedCount
             = Cardinality({i \in campaigns[k].rows : logs[i].status = "Failed"})

\* Messages are counted as they were taken.
MessagesCounted == SentOnce /\ CampaignCountsRows

\* Every job ends, and when it ends its rows and its campaign are not left
\* Queued or Sending: retries, restarts and lost answers included.  The one
\* exception is an e-mail whose every attempt threw: it is given up, and since
\* its worker writes nothing its row says Queued for good.
Unfinished(n) == n \in DOMAIN jobs /\ jobs[n].state # "done"
GivenUp(n) == jobs[n].queue = "email" /\ jobs[n].tries = Attempts("email")
Settled(n) ==
    /\ jobs[n].state = "done"
    /\ jobs[n].campaign # 0 => campaigns[jobs[n].campaign].status \in {"Completed", "Failed"}
    /\ \A i \in jobs[n].rows :
          logs[i].status \in IF GivenUp(n) THEN {"Queued"} ELSE {"Sent", "Failed"}
MessagesSettle == \A n \in 1 .. MaxJobs : Unfinished(n) ~> n \in DOMAIN jobs /\ Settled(n)
===============================================================================
