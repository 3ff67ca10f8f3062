----------------------------- MODULE MCBackground -----------------------------
(***************************************************************************)
(* What runs in the background: the job queue, the messages its worker     *)
(* sends, the nightly triggers and the month-end close of IFRS 17.  They   *)
(* share no table, so a behaviour is about one of them: `part' says which, *)
(* and the others stay as they start.                                      *)
(***************************************************************************)
EXTENDS JobQueue, LifecycleTriggers, SmsDelivery, Ifrs17Close

VARIABLE part

Rows == <<"policy_anniversary", "policy_warning">>

\* A GMM group that opens with nothing, a PAA group, and a GMM group that opens
\* with amounts of its own.
Group(model, fcf, ok) ==
    [measurementModel |-> model, paaCoverageMonths |-> 3, rate |-> 20, marginPct |-> 100,
     gmmCoverageUnitsTotal |-> 3, seeded |-> ok, initialFcf |-> fcf,
     initialRiskAdjustment |-> 101]
ThreeGroups == <<Group("GMM", 0, FALSE), Group("PAA", 0, FALSE), Group("GMM", -307, TRUE)>>
ASSUME BookTyped

TwoSweeps == {"lapse-detection", "wallet-reconciliation"}
ThreeSweeps == TwoSweeps \cup {"token-expiry"}

allVars == <<part, vars, smsVars, triggerVars, closeVars>>

MCInit ==
    /\ part \in {"queue", "sms", "triggers", "close"}
    /\ Init /\ SmsInit /\ TriggerInit /\ CloseInit
    /\ part # "triggers" => due = [t \in Triggers |-> {}]
MCNext ==
    /\ UNCHANGED part
    /\ \/ /\ part = "queue" /\ Next
          /\ UNCHANGED <<smsVars, triggerVars, closeVars>>
       \/ /\ part = "sms" /\ SmsNext
          /\ UNCHANGED <<vars, triggerVars, closeVars>>
       \/ /\ part = "triggers" /\ TriggerNext
          /\ UNCHANGED <<vars, smsVars, closeVars>>
       \/ /\ part = "close" /\ CloseNext
          /\ UNCHANGED <<vars, smsVars, triggerVars>>

\* Cron comes round and the workers of the queue work; a message that is due is
\* taken by its worker and the worker ends with it; every night comes, and its
\* run goes through its list.  Callers, restarts and the close owe nothing.
MCSpec ==
    /\ MCInit /\ [][MCNext]_allVars
    /\ \A j \in Jobs : /\ WF_waiting(part = "queue" /\ Due(j))
                       /\ WF_busy(part = "queue" /\ Process(j))
    /\ WF_waiting(part = "queue" /\ \E w \in Jobs : Take(w))
    /\ \A n \in 1 .. 2 : /\ WF_jobs(part = "sms" /\ WorkerTakes(n))
                         /\ WF_jobs(part = "sms" /\ WorkerWorks(n))
    /\ WF_run(part = "triggers" /\ ListTriggers("nightly"))
    /\ \A r \in {"nightly", "manual"} : WF_run(part = "triggers" /\ RunStep(r))
    /\ \A t \in Triggers : WF_due(part = "triggers" /\ DayPasses(t))
===============================================================================
