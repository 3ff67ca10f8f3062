------------------------- MODULE BackgroundProofs -------------------------
(***************************************************************************)
(* Proofs about what goes on beside the requests: runs of                  *)
(* LifecycleTriggers that follow each other greet nobody twice, for every  *)
(* set of runs, triggers and clients; SmsDelivery counts its messages as   *)
(* they were taken, for every number of callers, rows, campaigns, jobs and *)
(* faults; and no maturity of PolicyLifecycle is brought forward, whatever *)
(* the sweep does between the reads and the writes of an office call.      *)
(***************************************************************************)
EXTENDS LifecycleTriggers, SmsDelivery, PolicyLifecycle, FiniteSetTheorems, SequenceTheorems, TLAPS
-------------------------------------------------------------------------------
(* LifecycleTriggers.                                                       *)


TriggerSpec == TriggerInit /\ [][TriggerNext]_triggerVars

IsRun(x) ==
    x = [step |-> x.step, triggers |-> x.triggers, candidates |-> x.candidates, at |-> x.at]
TriggerTypeOK ==
    /\ run = [r \in Runs |-> run[r]] /\ \A r \in Runs : IsRun(run[r])
    /\ greeted \in [TriggerFire -> Nat]

Busy == {r \in Runs : run[r].step # "idle"}
OneBusy == \A q, r \in Busy : q = r

\* What a run has in hand, between message and fire row and before the message.
Recording(f) == \E r \in Runs : AtStep(r, "record") /\ f = <<Current(r), run[r].at>>
DispatchIsNew ==
    \A r \in Runs : AtStep(r, "dispatch") => <<Current(r), run[r].at>> \notin fires

\* The fire log and the row about to be written name those greeted, once each.
LogTells ==
    \A f \in TriggerFire : /\ greeted[f] <= 1
                           /\ greeted[f] = 1 <=> f \in fires \/ Recording(f)

TriggerInv ==
    /\ TriggerTypeOK
    /\ IsFiniteSet(Busy)
    /\ apart => OneBusy /\ DispatchIsNew /\ LogTells
-------------------------------------------------------------------------------
\* A finite set of cardinality one at most has no two elements.
LEMMA NoTwo ==
    ASSUME NEW S, IsFiniteSet(S), Cardinality(S) <= 1, NEW a \in S, NEW b \in S
    PROVE  a = b
  <1>1. SUFFICES ASSUME a # b PROVE FALSE
    OBVIOUS
  <1>2. PICK T : T = {b}
    OBVIOUS
  <1>3. IsFiniteSet(T) /\ Cardinality(T) = 1 /\ a \notin T
    BY <1>1, <1>2, FS_Singleton
  <1>4. Cardinality(T \cup {a}) = Cardinality(T) + 1
    BY <1>3, FS_AddElement
  <1>5. T \cup {a} \in SUBSET S
    BY <1>2
  <1>6. Cardinality(T \cup {a}) <= Cardinality(S)
    BY <1>5, FS_Subset
  <1>7. QED
    BY <1>3, <1>4, <1>6, FS_CardinalityType

\* A run moves alone, and remains a record of its place.
LEMMA OneRun ==
    ASSUME TriggerTypeOK, NEW r \in Runs, NEW to, IsRun(to), Go(r, to)
    PROVE  /\ run' = [q \in Runs |-> run'[q]] /\ \A q \in Runs : IsRun(run'[q])
           /\ run'[r] = to
           /\ \A q \in Runs \ {r} : run'[q] = run[q]
  BY DEF TriggerTypeOK, Go

\* Where a step takes its run, and what it does to the message and the fire log.
LEMMA RunMoves ==
    ASSUME TriggerTypeOK, NEW r \in Runs, ListTriggers(r) \/ RunStep(r)
    PROVE  \E to :
             /\ Go(r, to) /\ IsRun(to)
             /\ run[r].step = "idle" => to.step # "idle"
             /\ \/ /\ UNCHANGED <<fires, greeted>>
                   /\ to.step \in {"idle", "list", "consider", "dispatch"}
                   /\ run[r].step \notin {"dispatch", "record"}
                   /\ to.step = "dispatch" => <<Head(to.triggers), to.at>> \notin fires
                \/ /\ Dispatch(r)
                   /\ to.step = "record"
                   /\ to.triggers = run[r].triggers /\ to.at = run[r].at
                \/ /\ RecordFire(r)
                   /\ to.step \in {"idle", "consider"}
                   /\ <<Current(r), run[r].at>> \in fires => to.step = "idle"
  <1>1. PICK x : x = run[r] /\ IsRun(x)
    BY DEF TriggerTypeOK
  <1>2. CASE ListTriggers(r)
    <2>1. PICK ts : Go(r, [Asleep EXCEPT !.step = "list", !.triggers = ts])
      BY Zenon, <1>2 DEF ListTriggers
    <2>2. PICK to : to = [Asleep EXCEPT !.step = "list", !.triggers = ts]
      OBVIOUS
    <2>3. IsRun(to) /\ to.step = "list"
      BY <2>2 DEF IsRun, Asleep
    <2>4. QED
      BY <1>2, <2>1, <2>2, <2>3 DEF ListTriggers, AtStep
  <1>3. CASE ListCandidates(r)
    <2>1. CASE Go(r, Asleep)
      <3>1. IsRun(Asleep) /\ Asleep.step = "idle" /\ run[r].step = "list"
        BY <1>3 DEF IsRun, Asleep, ListCandidates, AtStep
      <3>2. QED
        BY <1>3, <2>1, <3>1 DEF ListCandidates
    <2>2. CASE ~Go(r, Asleep)
      <3>1. PICK cs : Go(r, [x EXCEPT !.step = "consider", !.candidates = cs])
        BY <1>1, <1>3, <2>2 DEF ListCandidates
      <3>2. PICK to : to = [x EXCEPT !.step = "consider", !.candidates = cs]
        OBVIOUS
      <3>3. IsRun(to) /\ to.step = "consider"
        BY <1>1, <3>2 DEF IsRun
      <3>4. QED
        BY <1>3, <3>1, <3>2, <3>3 DEF ListCandidates, AtStep
    <2>3. QED
      BY <2>1, <2>2
  <1>4. CASE NoCandidateLeft(r)
    <2>1. PICK to : to = [x EXCEPT !.step = "list", !.triggers = Tail(@)]
      OBVIOUS
    <2>2. IsRun(to) /\ to.step = "list" /\ Go(r, to)
      BY <1>1, <1>4, <2>1 DEF IsRun, NoCandidateLeft
    <2>3. QED
      BY <1>4, <2>2 DEF NoCandidateLeft, AtStep
  <1>5. CASE Consider(r)
    <2>1. PICK e \in x.candidates :
            \/ Go(r, Asleep)
            \/ Go(r, [x EXCEPT !.candidates = @ \ {e}])
            \/ /\ <<Current(r), e>> \notin fires
               /\ Go(r, [x EXCEPT !.step = "dispatch", !.at = e, !.candidates = @ \ {e}])
      BY <1>1, <1>5 DEF Consider
    <2>2. UNCHANGED <<fires, greeted>> /\ x.step = "consider"
      BY <1>1, <1>5 DEF Consider, AtStep
    <2>3. CASE Go(r, Asleep)
      <3>1. IsRun(Asleep) /\ Asleep.step = "idle"
        BY DEF IsRun, Asleep
      <3>2. QED
        BY <1>1, <2>2, <2>3, <3>1
    <2>4. CASE Go(r, [x EXCEPT !.candidates = @ \ {e}])
      <3>1. PICK to : to = [x EXCEPT !.candidates = @ \ {e}]
        OBVIOUS
      <3>2. IsRun(to) /\ to.step = "consider"
        BY <1>1, <2>2, <3>1 DEF IsRun
      <3>3. QED
        BY <1>1, <2>2, <2>4, <3>1, <3>2
    <2>5. CASE /\ <<Current(r), e>> \notin fires
               /\ Go(r, [x EXCEPT !.step = "dispatch", !.at = e, !.candidates = @ \ {e}])
      <3>1. PICK to : to = [x EXCEPT !.step = "dispatch", !.at = e, !.candidates = @ \ {e}]
        OBVIOUS
      <3>2. IsRun(to) /\ to.step = "dispatch" /\ to.at = e /\ to.triggers = x.triggers
        BY <1>1, <2>2, <3>1 DEF IsRun
      <3>3. <<Head(to.triggers), to.at>> \notin fires
        BY <1>1, <2>5, <3>2 DEF Current
      <3>4. QED
        BY <1>1, <2>2, <2>5, <3>1, <3>2, <3>3
    <2>6. QED
      BY <2>1, <2>3, <2>4, <2>5
  <1>6. CASE Dispatch(r)
    <2>1. PICK to : to = [x EXCEPT !.step = "record"]
      OBVIOUS
    <2>2. /\ IsRun(to) /\ to.step = "record"
          /\ to.triggers = x.triggers /\ to.at = x.at
      BY <1>1, <2>1 DEF IsRun
    <2>3. QED
      BY <1>1, <1>6, <2>1, <2>2 DEF Dispatch, AtStep
  <1>7. CASE RecordFire(r)
    <2>1. CASE <<Current(r), run[r].at>> \in fires
      <3>1. Go(r, Asleep) /\ IsRun(Asleep) /\ Asleep.step = "idle"
        BY <1>7, <2>1 DEF RecordFire, Asleep, IsRun
      <3>2. QED
        BY <1>7, <3>1 DEF RecordFire, AtStep
    <2>2. CASE <<Current(r), run[r].at>> \notin fires
      <3>1. PICK to : to = [x EXCEPT !.step = "consider", !.at = "none"]
        OBVIOUS
      <3>2. IsRun(to) /\ to.step = "consider" /\ Go(r, to)
        BY <1>1, <1>7, <2>2, <3>1 DEF IsRun, RecordFire
      <3>3. QED
        BY <1>7, <2>2, <3>2 DEF RecordFire, AtStep
    <2>3. QED
      BY <2>1, <2>2
  <1>8. QED
    BY <1>2, <1>3, <1>4, <1>5, <1>6, <1>7 DEF RunStep
\* A run that moves while runs follow each other is the only one.
LEMMA OthersAsleep ==
    ASSUME TriggerTypeOK, IsFiniteSet(Busy), OneBusy, Cardinality(Busy') <= 1,
           NEW r \in Runs, ListTriggers(r) \/ RunStep(r)
    PROVE  \A q \in Runs \ {r} : run[q].step = "idle" /\ run'[q] = run[q]
  <1>1. PICK to : Go(r, to) /\ IsRun(to) /\ (run[r].step = "idle" => to.step # "idle")
    BY RunMoves
  <1>2. run'[r] = to /\ \A q \in Runs \ {r} : run'[q] = run[q]
    BY <1>1, OneRun
  <1>3. Busy' \subseteq Busy \cup {r}
    BY <1>2 DEF Busy
  <1>4. IsFiniteSet(Busy \cup {r})
    BY FS_AddElement
  <1>5. IsFiniteSet(Busy')
    BY <1>3, <1>4, FS_Subset
  <1>6. ASSUME NEW q \in Runs \ {r}, run[q].step # "idle"
        PROVE  FALSE
    <2>1. q \in Busy /\ q \in Busy'
      BY <1>2, <1>6 DEF Busy
    <2>2. r \in Busy \/ r \in Busy'
      BY <1>1, <1>2 DEF Busy
    <2>3. QED
      BY <1>5, <1>6, <2>1, <2>2, NoTwo DEF OneBusy
  <1>7. QED
    BY <1>2, <1>6

\* The types are kept, and only finitely many runs are ever at work.
LEMMA TypesStep ==
    ASSUME TriggerTypeOK, IsFiniteSet(Busy), [TriggerNext]_triggerVars
    PROVE  TriggerTypeOK' /\ IsFiniteSet(Busy)'
  <1>1. CASE UNCHANGED <<run, greeted>>
    BY <1>1 DEF TriggerTypeOK, Busy, TriggerFire
  <1>2. ASSUME NEW r \in Runs, ListTriggers(r) \/ RunStep(r)
        PROVE  TriggerTypeOK' /\ IsFiniteSet(Busy)'
    <2>1. PICK to : Go(r, to) /\ IsRun(to)
      BY <1>2, RunMoves
    <2>2. /\ run' = [q \in Runs |-> run'[q]] /\ \A q \in Runs : IsRun(run'[q])
          /\ \A q \in Runs \ {r} : run'[q] = run[q]
      BY <2>1, OneRun
    <2>3. greeted' \in [TriggerFire -> Nat]
      <3>1. UNCHANGED greeted \/ Dispatch(r)
        BY <1>2, RunMoves DEF RecordFire
      <3>2. PICK hand : hand = <<Current(r), run[r].at>>
        OBVIOUS
      <3>3. UNCHANGED greeted \/ greeted' = [greeted EXCEPT ![hand] = @ + 1]
        BY <3>1, <3>2 DEF Dispatch
      <3>4. QED
        BY <3>3 DEF TriggerTypeOK
    <2>4. Busy' \subseteq Busy \cup {r}
      BY <2>2 DEF Busy
    <2>5. IsFiniteSet(Busy \cup {r})
      BY FS_AddElement
    <2>6. IsFiniteSet(Busy')
      BY <2>4, <2>5, FS_Subset
    <2>7. QED
      BY <2>2, <2>3, <2>6 DEF TriggerTypeOK
  <1>3. CASE TriggerRestart
    <2>1. run' = [r \in Runs |-> Asleep] /\ UNCHANGED greeted
      BY <1>3 DEF TriggerRestart
    <2>2. IsRun(Asleep) /\ Asleep.step = "idle"
      BY DEF IsRun, Asleep
    <2>3. \A r \in Runs : run'[r] = Asleep
      BY <2>1
    <2>4. Busy' = {}
      BY <2>2, <2>3 DEF Busy
    <2>5. TriggerTypeOK'
      BY <2>1, <2>2, <2>3 DEF TriggerTypeOK
    <2>6. QED
      BY <2>4, <2>5, FS_EmptySet
  <1>4. QED
    BY <1>1, <1>2, <1>3
    DEF TriggerNext, UpdateTrigger, WorldChanges, DayPasses, triggerVars

\* A step of the only run keeps what the fire log tells.
LEMMA RunInOrder ==
    ASSUME TriggerTypeOK, DispatchIsNew, LogTells,
           NEW r \in Runs, ListTriggers(r) \/ RunStep(r),
           \A q \in Runs \ {r} : run[q].step = "idle" /\ run'[q] = run[q]
    PROVE  OneBusy' /\ DispatchIsNew' /\ LogTells'
  <1> DEFINE hand == <<Current(r), run[r].at>>
  <1>1. PICK to :
          /\ Go(r, to) /\ IsRun(to)
          /\ \/ /\ UNCHANGED <<fires, greeted>>
                /\ to.step \in {"idle", "list", "consider", "dispatch"}
                /\ run[r].step \notin {"dispatch", "record"}
                /\ to.step = "dispatch" => <<Head(to.triggers), to.at>> \notin fires
             \/ /\ Dispatch(r)
                /\ to.step = "record"
                /\ to.triggers = run[r].triggers /\ to.at = run[r].at
             \/ /\ RecordFire(r)
                /\ to.step \in {"idle", "consider"}
                /\ <<Current(r), run[r].at>> \in fires => to.step = "idle"
    BY RunMoves
  <1>2. run'[r] = to /\ \A q \in Runs \ {r} : run'[q] = run[q] /\ run[q].step = "idle"
    BY <1>1, OneRun
  <1>3. OneBusy'
    BY <1>2 DEF OneBusy, Busy
  <1>4. \A f : /\ Recording(f) <=> run[r].step = "record" /\ f = hand
               /\ Recording(f)' <=> to.step = "record" /\ f = <<Head(to.triggers), to.at>>
    BY <1>2 DEF Recording, AtStep, Current
  <1>5. DispatchIsNew' <=> (to.step = "dispatch" => <<Head(to.triggers), to.at>> \notin fires')
    BY <1>2 DEF DispatchIsNew, AtStep, Current
  <1>6. CASE /\ UNCHANGED <<fires, greeted>>
             /\ to.step \in {"idle", "list", "consider", "dispatch"}
             /\ run[r].step \notin {"dispatch", "record"}
             /\ to.step = "dispatch" => <<Head(to.triggers), to.at>> \notin fires
    <2>1. LogTells'
      BY <1>4, <1>6 DEF LogTells, TriggerFire
    <2>2. QED
      BY <1>3, <1>5, <1>6, <2>1
  <1>7. CASE /\ Dispatch(r)
             /\ to.step = "record"
             /\ to.triggers = run[r].triggers /\ to.at = run[r].at
    <2>1. /\ hand \notin fires /\ run[r].step = "dispatch" /\ UNCHANGED fires
          /\ greeted' = [greeted EXCEPT ![hand] = @ + 1]
          /\ hand = <<Head(to.triggers), to.at>>
      BY <1>7 DEF Dispatch, DispatchIsNew, AtStep, Current
    <2>2. PICK fire : fire = hand
      OBVIOUS
    <2>3. ASSUME NEW f \in TriggerFire
          PROVE  greeted'[f] <= 1 /\ (greeted'[f] = 1 <=> f \in fires' \/ Recording(f)')
      <3>1. /\ greeted[f] \in Nat /\ greeted[f] <= 1
            /\ greeted[f] = 1 <=> f \in fires
        BY <1>4, <2>1 DEF TriggerTypeOK, LogTells
      <3>2. CASE f = fire
        <4>1. greeted'[f] = greeted[f] + 1
          BY <2>1, <2>2, <3>2 DEF TriggerTypeOK
        <4>2. QED
          BY <1>4, <1>7, <2>1, <2>2, <3>1, <3>2, <4>1
      <3>3. CASE f # fire
        <4>1. greeted'[f] = greeted[f]
          BY <2>1, <2>2, <3>3 DEF TriggerTypeOK
        <4>2. QED
          BY <1>4, <2>1, <2>2, <3>1, <3>3, <4>1
      <3>4. QED
        BY <3>2, <3>3
    <2>4. LogTells'
      BY <2>3 DEF LogTells, TriggerFire
    <2>5. QED
      BY <1>3, <1>5, <1>7, <2>4
  <1>8. CASE /\ RecordFire(r)
             /\ to.step \in {"idle", "consider"}
             /\ <<Current(r), run[r].at>> \in fires => to.step = "idle"
    <2>1. /\ run[r].step = "record" /\ UNCHANGED greeted
          /\ fires' = fires \cup {hand}
      BY <1>8 DEF RecordFire, AtStep
    <2>2. LogTells'
      BY <1>4, <1>8, <2>1 DEF LogTells, TriggerFire
    <2>3. QED
      BY <1>3, <1>5, <1>8, <2>2
  <1>9. QED
    BY <1>1, <1>6, <1>7, <1>8
\* Every step keeps the invariant; a restart only if nothing was left unrecorded.
LEMMA TriggerStep ==
    ASSUME TriggerInv, [TriggerNext]_triggerVars
    PROVE  TriggerInv'
  <1>1. TriggerTypeOK' /\ IsFiniteSet(Busy)'
    BY TypesStep DEF TriggerInv
  <1>2. CASE ~apart'
    BY <1>1, <1>2 DEF TriggerInv
  <1>3. CASE UNCHANGED triggerVars
    BY <1>1, <1>3
    DEF TriggerInv, triggerVars, OneBusy, Busy, DispatchIsNew, LogTells, Recording, AtStep,
        Current
  <1>4. CASE TriggerNext /\ apart'
    <2>1. /\ apart /\ OneBusy /\ DispatchIsNew /\ LogTells
          /\ TriggerTypeOK /\ IsFiniteSet(Busy) /\ Cardinality(Busy') <= 1
          /\ (\A r \in Runs : run'[r].step = "idle") =>
               \A r \in Runs : run[r].step # "record" \/ fires' # fires
      BY <1>4 DEF TriggerNext, TriggerInv, Busy
    <2>2. CASE \E r \in Runs : ListTriggers(r) \/ RunStep(r)
      <3>1. PICK r \in Runs : ListTriggers(r) \/ RunStep(r)
        BY <2>2
      <3>2. \A q \in Runs \ {r} : run[q].step = "idle" /\ run'[q] = run[q]
        BY <2>1, <3>1, OthersAsleep
      <3>3. QED
        BY <1>1, <2>1, <3>1, <3>2, RunInOrder DEF TriggerInv
    <2>3. CASE \E t \in Triggers : UpdateTrigger(t) \/ WorldChanges(t) \/ DayPasses(t)
      <3>1. UNCHANGED <<run, fires, greeted>>
        BY <2>3 DEF UpdateTrigger, WorldChanges, DayPasses
      <3>2. QED
        BY <1>1, <2>1, <3>1
        DEF TriggerInv, OneBusy, Busy, DispatchIsNew, LogTells, Recording, AtStep, Current
    <2>4. CASE TriggerRestart
      <3>1. \A r \in Runs : run'[r].step = "idle"
        BY <2>4 DEF TriggerRestart, Asleep
      <3>2. UNCHANGED <<fires, greeted>>
        BY <2>4 DEF TriggerRestart
      <3>3. \A f : ~Recording(f) /\ ~Recording(f)'
        BY <2>1, <3>1, <3>2 DEF Recording, AtStep
      <3>4. OneBusy' /\ DispatchIsNew'
        BY <3>1 DEF OneBusy, Busy, DispatchIsNew, AtStep
      <3>5. LogTells'
        BY <2>1, <3>2, <3>3 DEF LogTells, TriggerFire
      <3>6. QED
        BY <1>1, <3>4, <3>5 DEF TriggerInv
    <2>5. QED
      BY <1>4, <2>2, <2>3, <2>4 DEF TriggerNext
  <1>5. QED
    BY <1>2, <1>3, <1>4

\* "Running it twice in a row is always safe, never double-sends": nightly runs and
\* "run now", whatever clients, triggers and days do in between, greet a client once
\* for a trigger, and the fire log says so.
THEOREM TriggersNeverDoubleSend == TriggerSpec => []NeverDoubleSends
  <1>1. TriggerInit => TriggerInv
    <2>1. ASSUME TriggerInit
          PROVE  TriggerInv
      <3>1. \A r \in Runs : run[r] = Asleep /\ run[r].step = "idle"
        BY <2>1 DEF TriggerInit, Asleep
      <3>2. TriggerTypeOK
        BY <2>1, <3>1 DEF TriggerInit, TriggerTypeOK, IsRun, Asleep
      <3>3. Busy = {}
        BY <3>1 DEF Busy
      <3>4. \A f : ~Recording(f)
        BY <3>1 DEF Recording, AtStep
      <3>5. OneBusy /\ DispatchIsNew /\ LogTells
        BY <2>1, <3>1, <3>3, <3>4
        DEF TriggerInit, OneBusy, DispatchIsNew, AtStep, LogTells
      <3>6. QED
        BY <3>2, <3>3, <3>5, FS_EmptySet DEF TriggerInv
    <2>2. QED
      BY <2>1
  <1>2. TriggerInv => NeverDoubleSends
    BY DEF TriggerInv, LogTells, Recording, NeverDoubleSends
  <1>3. QED
    BY <1>1, <1>2, TriggerStep, PTL DEF TriggerSpec
-------------------------------------------------------------------------------
(* SmsDelivery.                                                             *)

SmsSpec == SmsInit /\ [][SmsNext]_smsVars

JobStates == {"waiting", "sending", "recording", "counting", "failing", "done"}
JobOutcomes == {<< >>} \cup UNION {Results(rows) : rows \in SUBSET Nat}
SmsJob ==
    [queue : Queues, rows : SUBSET Nat, campaign : Nat, state : JobStates, tries : Nat,
     outcome : JobOutcomes, left : SUBSET Nat]
CallSteps == {"idle", "read", "mark", "add", "rows", "job"}
Call == [step : CallSteps, todo : Seq(Nat), queue : {"sms", "email"}, campaign : Nat]
AtWork == {c \in Callers : caller[c].step # "idle"}

SmsTypes ==
    /\ logs \in Seq(SmsLog) /\ campaigns \in Seq(Campaign) /\ jobs \in Seq(SmsJob)
    /\ caller \in [Callers -> Call] /\ IsFiniteSet(AtWork)
    /\ faults \in Nat /\ calm \in BOOLEAN

\* The rows of a campaign are its own, and wait for nobody's release.
CampaignsOwnRows ==
    \A k \in DOMAIN campaigns :
        /\ \A i \in campaigns[k].rows : i \in DOMAIN logs /\ logs[i].queue = "bulk-sms"
        /\ \A l \in DOMAIN campaigns \ {k} : campaigns[k].rows \cap campaigns[l].rows = {}
PendingIsSingle ==
    \A i \in DOMAIN logs : logs[i].status = "Pending" => logs[i].queue # "bulk-sms"

\* A job is for one message, or it is the one job of a campaign.
JobOwnsRows(j) ==
    IF jobs[j].campaign = 0
    THEN \A i \in jobs[j].rows : i \in DOMAIN logs /\ logs[i].queue # "bulk-sms"
    ELSE /\ jobs[j].campaign \in DOMAIN campaigns
         /\ jobs[j].rows = campaigns[jobs[j].campaign].rows
         /\ \A l \in DOMAIN jobs \ {j} : jobs[l].campaign # jobs[j].campaign

\* What a call has in hand.
HasInHand(c) ==
    /\ CallAt(c, "read") \/ CallAt(c, "mark") \/ CallAt(c, "add") =>
         /\ caller[c].todo # << >>
         /\ \A n \in DOMAIN caller[c].todo : caller[c].todo[n] \in DOMAIN logs
    /\ CallAt(c, "mark") \/ CallAt(c, "add") => logs[Head(caller[c].todo)].queue # "bulk-sms"
    /\ CallAt(c, "rows") \/ CallAt(c, "job") =>
         /\ caller[c].campaign \in DOMAIN campaigns
         /\ campaigns[caller[c].campaign].status = "Queued"
         /\ \A j \in DOMAIN jobs : jobs[j].campaign # caller[c].campaign
         /\ \A d \in Callers \ {c} : CallAt(d, "rows") \/ CallAt(d, "job") =>
              caller[d].campaign # caller[c].campaign

\* An answer that came is what the rows say, as far as they are written.
Answered(j) ==
    jobs[j].state \in {"recording", "counting"} =>
        /\ jobs[j].outcome \in Results(jobs[j].rows)
        /\ jobs[j].campaign # 0 => \A i \in jobs[j].rows :
             jobs[j].state = "counting" \/ i \notin jobs[j].left =>
               logs[i].status = jobs[j].outcome[i]
        /\ jobs[j].state = "counting" => jobs[j].campaign # 0

\* What the count of a completed campaign agrees with, once its job is done.
CountsAgree(k) ==
    campaigns[k].status = "Completed" =>
        /\ \E j \in DOMAIN jobs : jobs[j].campaign = k /\ jobs[j].state = "done"
        /\ campaigns[k].sentCount
             = Cardinality({i \in campaigns[k].rows : logs[i].status = "Sent"})
        /\ campaigns[k].failedCount
             = Cardinality({i \in campaigns[k].rows : logs[i].status = "Failed"})

Orderly ==
    /\ CampaignsOwnRows /\ PendingIsSingle
    /\ \A j \in DOMAIN jobs : JobOwnsRows(j) /\ Answered(j)
    /\ \A c \in Callers : HasInHand(c)
    /\ \A k \in DOMAIN campaigns : CountsAgree(k)

\* While calls come one after the other: a row has one job at most, its message was
\* not taken before the job's answer, and was taken once if the answer says so.
HasJob(i) == \E j \in DOMAIN jobs : i \in jobs[j].rows
NotTaken(i, statuses) == logs[i].accepted = 0 /\ logs[i].status \in statuses
Told(i) ==
    \/ logs[i].status = "Sent" /\ logs[i].accepted = 1
    \/ logs[i].status \in {"Failed", "Queued"} /\ logs[i].accepted = 0
RowOfJob(j, i) ==
    CASE jobs[j].state \in {"waiting", "sending", "failing"} -> NotTaken(i, {"Queued", "Failed"})
      [] jobs[j].state = "recording" ->
           /\ logs[i].accepted = IF jobs[j].outcome[i] = "Sent" THEN 1 ELSE 0
           /\ IF i \in jobs[j].left THEN logs[i].status \in {"Queued", "Failed"}
              ELSE logs[i].status = jobs[j].outcome[i]
      [] OTHER -> Told(i)
NothingTakenTwice ==
    /\ faults = 0
    /\ \A c, d \in AtWork : c = d
    /\ \A j, l \in DOMAIN jobs : j # l => jobs[j].rows \cap jobs[l].rows = {}
    /\ \A i \in DOMAIN logs : ~HasJob(i) => NotTaken(i, {"Pending", "Queued"})
    /\ \A j \in DOMAIN jobs : \A i \in jobs[j].rows : RowOfJob(j, i)
    /\ \A c \in Callers :
         /\ CallAt(c, "mark") \/ CallAt(c, "add") => ~HasJob(Head(caller[c].todo))
         /\ CallAt(c, "add") => logs[Head(caller[c].todo)].status = "Queued"

SmsInv == SmsTypes /\ Orderly /\ (calm => NothingTakenTwice)
-------------------------------------------------------------------------------
(* The tables: what an insert and a write by id leave.                      *)

\* The rows inserted follow the last, and the others stay.
LEMMA RowsAdded ==
    ASSUME logs \in Seq(SmsLog), NEW n \in Nat, NEW queue \in Queues,
           NEW status \in LogStatuses, NewRows(queue, status, n)
    PROVE  /\ logs' \in Seq(SmsLog)
           /\ DOMAIN logs' = DOMAIN logs \cup {Len(logs) + i : i \in 1 .. n}
           /\ \A i \in DOMAIN logs : logs'[i] = logs[i] /\ i <= Len(logs)
           /\ \A i \in 1 .. n :
                /\ Len(logs) + i \in Nat \ DOMAIN logs
                /\ logs'[Len(logs) + i] = [queue |-> queue, status |-> status, accepted |-> 0]
  <1>1. PICK row : row = [queue |-> queue, status |-> status, accepted |-> 0]
    OBVIOUS
  <1>2. PICK more : more = [i \in 1 .. n |-> row]
    OBVIOUS
  <1>3. row \in SmsLog
    BY <1>1 DEF SmsLog
  <1>4. more \in Seq(SmsLog) /\ Len(more) = n /\ \A i \in 1 .. n : more[i] = row
    <2>1. more \in [1 .. n -> SmsLog] /\ \A i \in 1 .. n : more[i] = row
      BY <1>2, <1>3
    <2>2. more \in Seq(SmsLog)
      BY <2>1, SeqDef
    <2>3. QED
      BY <2>1, <2>2
  <1>5. logs' = logs \o more
    BY <1>1, <1>2 DEF NewRows
  <1>6. /\ logs' \in Seq(SmsLog) /\ Len(logs') = Len(logs) + n
        /\ \A i \in 1 .. Len(logs) : logs'[i] = logs[i]
    <2>1. PICK old : old = logs
      OBVIOUS
    <2>2. PICK both : both = old \o more
      OBVIOUS
    <2>3. both \in Seq(SmsLog)
      BY <1>4, <2>1, <2>2, ConcatProperties, Zenon
    <2>4. Len(both) = Len(old) + Len(more) /\ Len(more) = n
      BY <1>4, <2>1, <2>2, ConcatProperties, Zenon
    <2>5. \A i \in 1 .. Len(old) : both[i] = old[i]
      BY <1>4, <2>1, <2>2
    <2>6. QED
      BY <1>5, <2>1, <2>2, <2>3, <2>4, <2>5
  <1>7. ASSUME NEW i \in 1 .. n
        PROVE  logs'[Len(logs) + i] = more[i]
    BY <1>4, <1>5, ConcatProperties
  <1>8. DOMAIN logs' = 1 .. (Len(logs) + n) /\ DOMAIN logs = 1 .. Len(logs) /\ Len(logs) \in Nat
    BY <1>6
  <1>9. DOMAIN logs' = DOMAIN logs \cup {Len(logs) + i : i \in 1 .. n}
    <2>1. ASSUME NEW x \in DOMAIN logs', x \notin DOMAIN logs
          PROVE  x \in {Len(logs) + i : i \in 1 .. n}
      <3>1. x - Len(logs) \in 1 .. n /\ x = Len(logs) + (x - Len(logs))
        BY <1>8, <2>1
      <3>2. QED
        BY <3>1
    <2>2. QED
      BY <1>8, <2>1
  <1>10. \A i \in DOMAIN logs : logs'[i] = logs[i] /\ i <= Len(logs)
    BY <1>6, <1>8
  <1>11. ASSUME NEW i \in 1 .. n
         PROVE  Len(logs) + i \in Nat \ DOMAIN logs /\ logs'[Len(logs) + i] = row
    <2>1. Len(logs) + i \in Nat \ DOMAIN logs
      BY <1>8, <1>11
    <2>2. logs'[Len(logs) + i] = row
      BY <1>4, <1>7, <1>11
    <2>3. QED
      BY <2>1, <2>2
  <1>12. QED
    BY <1>1, <1>6, <1>9, <1>10, <1>11

JobFor(job, rows, campaign) ==
    job.rows = rows /\ job.campaign = campaign /\ job.state = "waiting"

\* The job added follows the last, and the others stay.
LEMMA JobAdded ==
    ASSUME jobs \in Seq(SmsJob), NEW queue \in Queues, NEW rows \in SUBSET Nat,
           NEW campaign \in Nat, AddJob(queue, rows, campaign),
           NEW new, new = Len(jobs) + 1
    PROVE  /\ jobs' \in Seq(SmsJob)
           /\ DOMAIN jobs' = DOMAIN jobs \cup {new} /\ new \notin DOMAIN jobs
           /\ \A j \in DOMAIN jobs : jobs'[j] = jobs[j]
           /\ JobFor(jobs'[new], rows, campaign)
  <1>1. PICK job :
          job = [queue |-> queue, rows |-> rows, campaign |-> campaign, state |-> "waiting",
                 tries |-> 0, outcome |-> << >>, left |-> {}]
    OBVIOUS
  <1>2. PICK none : none = << >>
    OBVIOUS
  <1>3. none \in JobOutcomes
    BY <1>2 DEF JobOutcomes
  <1>4. job \in SmsJob
    BY <1>1, <1>2, <1>3 DEF SmsJob, JobStates
  <1>5. jobs' = Append(jobs, job)
    BY <1>1 DEF AddJob
  <1>6. jobs' \in Seq(SmsJob) /\ Len(jobs') = Len(jobs) + 1 /\ jobs'[Len(jobs) + 1] = job
    BY <1>4, <1>5
  <1>7. \A j \in DOMAIN jobs : jobs'[j] = jobs[j]
    BY <1>4, <1>5
  <1>8. DOMAIN jobs' = DOMAIN jobs \cup {Len(jobs) + 1} /\ Len(jobs) + 1 \notin DOMAIN jobs
    BY <1>6
  <1>9. QED
    BY <1>1, <1>6, <1>7, <1>8 DEF JobFor

\* A job written leaves the others.
LEMMA JobSet ==
    ASSUME jobs \in Seq(SmsJob), NEW j \in DOMAIN jobs, NEW job \in SmsJob,
           jobs' = [jobs EXCEPT ![j] = job]
    PROVE  /\ jobs' \in Seq(SmsJob) /\ DOMAIN jobs' = DOMAIN jobs
           /\ jobs'[j] = job /\ \A l \in DOMAIN jobs \ {j} : jobs'[l] = jobs[l]
  OBVIOUS

\* A row written leaves the others.
LEMMA LogSet ==
    ASSUME logs \in Seq(SmsLog), NEW i \in DOMAIN logs, NEW row \in SmsLog,
           logs' = [logs EXCEPT ![i] = row]
    PROVE  /\ logs' \in Seq(SmsLog) /\ DOMAIN logs' = DOMAIN logs
           /\ logs'[i] = row /\ \A x \in DOMAIN logs \ {i} : logs'[x] = logs[x]
  OBVIOUS

\* A call that moves leaves the others, and finitely many are at work.
LEMMA CallSet ==
    ASSUME SmsTypes, NEW c \in Callers, NEW call \in Call, Continue(c, call)
    PROVE  /\ caller' \in [Callers -> Call] /\ IsFiniteSet(AtWork')
           /\ caller'[c] = call /\ \A d \in Callers \ {c} : caller'[d] = caller[d]
  <1>1. /\ caller' \in [Callers -> Call]
        /\ caller'[c] = call /\ \A d \in Callers \ {c} : caller'[d] = caller[d]
    BY DEF SmsTypes, Continue
  <1>2. AtWork' \subseteq AtWork \cup {c}
    BY <1>1 DEF AtWork
  <1>3. IsFiniteSet(AtWork \cup {c})
    BY FS_AddElement DEF SmsTypes
  <1>4. QED
    BY <1>1, <1>2, <1>3, FS_Subset

\* A call that moves while calls follow each other is the only one.
LEMMA OthersRest ==
    ASSUME SmsTypes, \A c, d \in AtWork : c = d, Cardinality(AtWork') <= 1,
           NEW c \in Callers, NEW call \in Call, Continue(c, call),
           caller[c].step = "idle" => call.step # "idle"
    PROVE  /\ \A d \in Callers \ {c} : caller[d].step = "idle" /\ caller'[d] = caller[d]
           /\ \A d, e \in AtWork' : d = e
  <1>1. /\ IsFiniteSet(AtWork') /\ caller'[c] = call
        /\ \A d \in Callers \ {c} : caller'[d] = caller[d]
    BY CallSet
  <1>2. \A d, e \in AtWork' : d = e
    BY <1>1, NoTwo
  <1>3. ASSUME NEW d \in Callers \ {c}, caller[d].step # "idle"
        PROVE  FALSE
    <2>1. d \in AtWork /\ d \in AtWork'
      BY <1>1, <1>3 DEF AtWork
    <2>2. c \in AtWork \/ c \in AtWork'
      BY <1>1 DEF AtWork
    <2>3. QED
      BY <1>2, <1>3, <2>1, <2>2
  <1>4. QED
    BY <1>1, <1>2, <1>3

-------------------------------------------------------------------------------
(* A worker's step: it writes its job, that job's rows and its campaign.    *)

WorkerWrites(j, job) ==
    /\ job \in SmsJob /\ Set(j, job)
    /\ job.rows = jobs[j].rows /\ job.campaign = jobs[j].campaign
    /\ logs' \in Seq(SmsLog) /\ DOMAIN logs' = DOMAIN logs
    /\ \A i \in DOMAIN logs :
         /\ logs'[i].queue = logs[i].queue
         /\ logs'[i].status = "Pending" => logs[i].status = "Pending"
         /\ i \notin jobs[j].rows => logs'[i] = logs[i]
    /\ campaigns' \in Seq(Campaign) /\ DOMAIN campaigns' = DOMAIN campaigns
    /\ \A k \in DOMAIN campaigns :
         /\ campaigns'[k].rows = campaigns[k].rows
         /\ k # jobs[j].campaign => campaigns'[k] = campaigns[k]
    /\ UNCHANGED caller

\* A job's rows are rows of the log, and no other campaign's.
LEMMA RowsApart ==
    ASSUME Orderly, NEW j \in DOMAIN jobs
    PROVE  /\ jobs[j].rows \subseteq DOMAIN logs
           /\ \A k \in DOMAIN campaigns : k # jobs[j].campaign =>
                \A i \in campaigns[k].rows : i \in DOMAIN logs /\ i \notin jobs[j].rows
           /\ \A l \in DOMAIN jobs \ {j} : jobs[l].campaign # 0 =>
                \A i \in jobs[l].rows : i \in DOMAIN logs /\ i \notin jobs[j].rows
  <1>1. JobOwnsRows(j) /\ CampaignsOwnRows
    BY DEF Orderly
  <1>2. jobs[j].rows \subseteq DOMAIN logs
    BY <1>1 DEF JobOwnsRows, CampaignsOwnRows
  <1>3. ASSUME NEW k \in DOMAIN campaigns, k # jobs[j].campaign, NEW i \in campaigns[k].rows
        PROVE  i \in DOMAIN logs /\ i \notin jobs[j].rows
    BY <1>1, <1>3 DEF JobOwnsRows, CampaignsOwnRows
  <1>4. ASSUME NEW l \in DOMAIN jobs \ {j}, jobs[l].campaign # 0, NEW i \in jobs[l].rows
        PROVE  i \in DOMAIN logs /\ i \notin jobs[j].rows
    <2>1. JobOwnsRows(l)
      BY DEF Orderly
    <2>2. /\ jobs[l].campaign \in DOMAIN campaigns /\ jobs[l].campaign # jobs[j].campaign
          /\ jobs[l].rows = campaigns[jobs[l].campaign].rows
      BY <1>4, <2>1 DEF JobOwnsRows
    <2>3. QED
      BY <1>3, <1>4, <2>2
  <1>5. QED
    BY <1>2, <1>3, <1>4

\* A campaign's count stays true while its rows and its job are left alone.
LEMMA CountedStays ==
    ASSUME NEW k \in DOMAIN campaigns, CountsAgree(k), campaigns'[k] = campaigns[k],
           \A i \in campaigns[k].rows : logs'[i] = logs[i],
           DOMAIN jobs \subseteq DOMAIN jobs',
           \A j \in DOMAIN jobs : jobs[j].campaign = k => jobs'[j] = jobs[j]
    PROVE  CountsAgree(k)'
  <1>1. SUFFICES ASSUME campaigns[k].status = "Completed"
                 PROVE  CountsAgree(k)'
    BY DEF CountsAgree
  <1>2. {i \in campaigns[k].rows : logs'[i].status = "Sent"}
          = {i \in campaigns[k].rows : logs[i].status = "Sent"}
    OBVIOUS
  <1>3. {i \in campaigns[k].rows : logs'[i].status = "Failed"}
          = {i \in campaigns[k].rows : logs[i].status = "Failed"}
    OBVIOUS
  <1>4. \E j \in DOMAIN jobs' : jobs'[j].campaign = k /\ jobs'[j].state = "done"
    BY <1>1 DEF CountsAgree
  <1>5. QED
    BY <1>1, <1>2, <1>3, <1>4 DEF CountsAgree

\* A worker's step keeps the tables in order if it leaves its job and campaign so.
LEMMA WorkerKeepsOrder ==
    ASSUME SmsTypes, Orderly, NEW j \in DOMAIN jobs, NEW job, WorkerWrites(j, job),
           Answered(j)', \A k \in DOMAIN campaigns : k = jobs[j].campaign => CountsAgree(k)'
    PROVE  Orderly'
  <1>1. /\ jobs' \in Seq(SmsJob) /\ DOMAIN jobs' = DOMAIN jobs
        /\ jobs'[j] = job /\ \A l \in DOMAIN jobs \ {j} : jobs'[l] = jobs[l]
    BY JobSet DEF SmsTypes, WorkerWrites, Set
  <1>2. \A l \in DOMAIN jobs :
          jobs'[l].rows = jobs[l].rows /\ jobs'[l].campaign = jobs[l].campaign
    BY <1>1 DEF WorkerWrites
  <1>3. CampaignsOwnRows' /\ PendingIsSingle'
    BY DEF WorkerWrites, Orderly, CampaignsOwnRows, PendingIsSingle
  <1>4. ASSUME NEW l \in DOMAIN jobs
        PROVE  JobOwnsRows(l)'
    <2>1. JobOwnsRows(l)
      BY DEF Orderly
    <2>2. CASE jobs[l].campaign = 0
      BY <1>2, <2>1, <2>2 DEF JobOwnsRows, WorkerWrites
    <2>3. CASE jobs[l].campaign # 0
      <3>1. PICK k \in DOMAIN campaigns : k = jobs[l].campaign
        BY <2>1, <2>3 DEF JobOwnsRows
      <3>2. campaigns'[k].rows = campaigns[k].rows /\ k \in DOMAIN campaigns'
        BY DEF WorkerWrites
      <3>3. \A m \in DOMAIN jobs \ {l} : jobs'[m].campaign # k
        BY <1>2, <2>1, <2>3, <3>1 DEF JobOwnsRows
      <3>4. QED
        BY <1>1, <1>2, <2>1, <2>3, <3>1, <3>2, <3>3 DEF JobOwnsRows
    <2>4. QED
      BY <2>2, <2>3
  <1>5. ASSUME NEW l \in DOMAIN jobs
        PROVE  Answered(l)'
    <2>1. CASE l # j
      <3>1. Answered(l) /\ jobs'[l] = jobs[l]
        BY <1>1, <2>1 DEF Orderly
      <3>2. jobs[l].campaign # 0 => \A i \in jobs[l].rows : logs'[i] = logs[i]
        BY <2>1, RowsApart DEF WorkerWrites
      <3>3. QED
        BY <3>1, <3>2 DEF Answered
    <2>2. QED
      BY <2>1
  <1>6. ASSUME NEW c \in Callers
        PROVE  HasInHand(c)'
    <2>1. HasInHand(c)
      BY DEF Orderly
    <2>2. CASE CallAt(c, "rows") \/ CallAt(c, "job")
      <3>1. campaigns'[caller[c].campaign] = campaigns[caller[c].campaign]
        BY <2>1, <2>2 DEF HasInHand, WorkerWrites
      <3>2. QED
        BY <1>1, <1>2, <2>1, <2>2, <3>1 DEF HasInHand, CallAt, WorkerWrites
    <2>3. CASE ~(CallAt(c, "rows") \/ CallAt(c, "job"))
      <3>1. CASE CallAt(c, "mark") \/ CallAt(c, "add")
        <4>1. Head(caller[c].todo) = caller[c].todo[1] /\ 1 \in DOMAIN caller[c].todo
          BY <2>1, <3>1 DEF HasInHand, SmsTypes, Call
        <4>2. QED
          BY <2>1, <2>3, <3>1, <4>1 DEF HasInHand, CallAt, WorkerWrites
      <3>2. CASE ~(CallAt(c, "mark") \/ CallAt(c, "add"))
        BY <2>1, <2>3, <3>2 DEF HasInHand, CallAt, WorkerWrites
      <3>3. QED
        BY <3>1, <3>2
    <2>4. QED
      BY <2>2, <2>3
  <1>7. ASSUME NEW k \in DOMAIN campaigns
        PROVE  CountsAgree(k)'
    <2>1. CASE k = jobs[j].campaign
      BY <2>1
    <2>2. CASE k # jobs[j].campaign
      <3>1. CountsAgree(k) /\ campaigns'[k] = campaigns[k]
        BY <2>2 DEF Orderly, WorkerWrites
      <3>2. \A i \in campaigns[k].rows : logs'[i] = logs[i]
        BY <2>2, RowsApart DEF WorkerWrites
      <3>3. QED
        BY <1>1, <2>2, <3>1, <3>2, CountedStays
    <2>3. QED
      BY <2>1, <2>2
  <1>8. QED
    BY <1>1, <1>3, <1>4, <1>5, <1>6, <1>7 DEF Orderly, WorkerWrites

\* And it keeps what was taken once, if it does so for the rows of its job.
LEMMA WorkerKeepsCalm ==
    ASSUME SmsTypes, Orderly, NothingTakenTwice, NEW j \in DOMAIN jobs, NEW job,
           WorkerWrites(j, job), UNCHANGED faults,
           \A i \in jobs[j].rows : RowOfJob(j, i)'
    PROVE  NothingTakenTwice'
  <1>1. /\ DOMAIN jobs' = DOMAIN jobs
        /\ jobs'[j] = job /\ \A l \in DOMAIN jobs \ {j} : jobs'[l] = jobs[l]
    BY JobSet DEF SmsTypes, WorkerWrites, Set
  <1>2. \A l \in DOMAIN jobs : jobs'[l].rows = jobs[l].rows
    BY <1>1 DEF WorkerWrites
  <1>3. \A i : HasJob(i)' <=> HasJob(i)
    BY <1>1, <1>2 DEF HasJob
  <1>4. \A i \in DOMAIN logs : ~HasJob(i) => logs'[i] = logs[i]
    BY DEF HasJob, WorkerWrites
  <1>5. ASSUME NEW l \in DOMAIN jobs, NEW i \in jobs[l].rows
        PROVE  RowOfJob(l, i)'
    <2>1. CASE l # j
      <3>1. i \notin jobs[j].rows /\ i \in DOMAIN logs /\ RowOfJob(l, i)
        BY <2>1, RowsApart DEF NothingTakenTwice
      <3>2. logs'[i] = logs[i] /\ jobs'[l] = jobs[l]
        BY <1>1, <2>1, <3>1 DEF WorkerWrites
      <3>3. QED
        BY <3>1, <3>2 DEF RowOfJob, NotTaken, Told
    <2>2. QED
      BY <2>1
  <1>6. ASSUME NEW c \in Callers
        PROVE  /\ CallAt(c, "mark")' \/ CallAt(c, "add")' => ~HasJob(Head(caller[c].todo))'
               /\ CallAt(c, "add")' => logs'[Head(caller[c].todo)].status = "Queued"
    <2>1. HasInHand(c)
      BY DEF Orderly
    <2>2. CASE CallAt(c, "mark") \/ CallAt(c, "add")
      <3>1. Head(caller[c].todo) \in DOMAIN logs
        BY <2>1, <2>2 DEF HasInHand, SmsTypes, Call
      <3>2. QED
        BY <1>3, <1>4, <2>2, <3>1 DEF NothingTakenTwice, CallAt, WorkerWrites
    <2>3. QED
      BY <2>2 DEF CallAt, WorkerWrites
  <1>7. /\ \A c, d \in AtWork' : c = d
        /\ \A l, m \in DOMAIN jobs : l # m => jobs'[l].rows \cap jobs'[m].rows = {}
    BY <1>2 DEF NothingTakenTwice, AtWork, WorkerWrites
  <1>8. \A i \in DOMAIN logs : ~HasJob(i)' => NotTaken(i, {"Pending", "Queued"})'
    BY <1>3, <1>4 DEF NothingTakenTwice, NotTaken
  <1>9. QED
    BY <1>1, <1>2, <1>5, <1>6, <1>7, <1>8 DEF NothingTakenTwice, WorkerWrites

Ticks == /\ faults' \in Nat /\ calm' \in BOOLEAN
         /\ calm' => calm /\ faults' = 0 /\ Cardinality(AtWork') <= 1

\* Both together, with the types.
LEMMA WorkerKeeps ==
    ASSUME SmsInv, NEW j \in DOMAIN jobs, NEW job, WorkerWrites(j, job), Ticks,
           Answered(j)', \A k \in DOMAIN campaigns : k = jobs[j].campaign => CountsAgree(k)',
           calm /\ UNCHANGED faults => \A i \in jobs[j].rows : RowOfJob(j, i)'
    PROVE  SmsInv'
  <1>1. jobs' \in Seq(SmsJob)
    BY JobSet DEF SmsInv, SmsTypes, WorkerWrites, Set
  <1>2. SmsTypes'
    BY <1>1 DEF SmsInv, SmsTypes, WorkerWrites, AtWork, Ticks
  <1>3. Orderly'
    BY WorkerKeepsOrder DEF SmsInv
  <1>4. ASSUME calm' PROVE NothingTakenTwice'
    <2>1. UNCHANGED faults /\ calm
      BY <1>4 DEF SmsInv, NothingTakenTwice, Ticks
    <2>2. QED
      BY <2>1, WorkerKeepsCalm DEF SmsInv
  <1>5. QED
    BY <1>2, <1>3, <1>4 DEF SmsInv

\* A campaign whose job is not done is not completed.
LEMMA NotCompleted ==
    ASSUME Orderly, NEW j \in DOMAIN jobs, jobs[j].state # "done",
           NEW k \in DOMAIN campaigns, k = jobs[j].campaign, k # 0
    PROVE  campaigns[k].status # "Completed"
  <1>1. JobOwnsRows(j) /\ CountsAgree(k)
    BY DEF Orderly
  <1>2. QED
    BY <1>1 DEF JobOwnsRows, CountsAgree

\* What a campaign's own row becomes.
LEMMA CampaignSet ==
    ASSUME SmsTypes, NEW k \in DOMAIN campaigns, NEW row \in Campaign,
           campaigns' = [campaigns EXCEPT ![k] = row]
    PROVE  /\ campaigns' \in Seq(Campaign) /\ DOMAIN campaigns' = DOMAIN campaigns
           /\ campaigns'[k] = row /\ \A l \in DOMAIN campaigns \ {k} : campaigns'[l] = campaigns[l]
  BY DEF SmsTypes

\* processJob begins.
LEMMA TakesInOrder ==
    ASSUME SmsInv, Ticks, NEW j \in DOMAIN jobs, TakeJob(j)
    PROVE  SmsInv'
  <1>1. PICK job : job = [jobs[j] EXCEPT !.state = "sending", !.outcome = << >>]
    OBVIOUS
  <1>2. jobs[j] \in SmsJob
    BY DEF SmsInv, SmsTypes
  <1>3. PICK none : none = << >>
    OBVIOUS
  <1>4. none \in JobOutcomes
    BY <1>3 DEF JobOutcomes
  <1>5. /\ job \in SmsJob /\ job.state = "sending"
        /\ job.rows = jobs[j].rows /\ job.campaign = jobs[j].campaign
    BY <1>1, <1>2, <1>3, <1>4 DEF SmsJob, JobStates
  <1>6. /\ campaigns' \in Seq(Campaign) /\ DOMAIN campaigns' = DOMAIN campaigns
        /\ \A k \in DOMAIN campaigns :
             /\ campaigns'[k].rows = campaigns[k].rows
             /\ IF k = jobs[j].campaign THEN campaigns'[k].status = "Sending"
                ELSE campaigns'[k] = campaigns[k]
    <2>1. CASE jobs[j].campaign = 0
      BY <2>1 DEF TakeJob, SmsInv, SmsTypes
    <2>2. CASE jobs[j].campaign # 0
      <3>1. JobOwnsRows(j)
        BY DEF SmsInv, Orderly
      <3>2. PICK k \in DOMAIN campaigns : k = jobs[j].campaign
        BY <2>2, <3>1 DEF JobOwnsRows
      <3>3. PICK row : row = [campaigns[k] EXCEPT !.status = "Sending"]
        OBVIOUS
      <3>4. campaigns[k] \in Campaign
        BY DEF SmsInv, SmsTypes
      <3>5. row \in Campaign /\ row.status = "Sending" /\ row.rows = campaigns[k].rows
        BY <3>3, <3>4 DEF Campaign
      <3>6. campaigns' = [campaigns EXCEPT ![k] = row]
        BY <2>2, <3>2, <3>3 DEF TakeJob
      <3>7. QED
        BY <3>2, <3>5, <3>6, CampaignSet DEF SmsInv
    <2>3. QED
      BY <2>1, <2>2
  <1>7. Set(j, job)
    BY <1>1 DEF TakeJob
  <1>8. WorkerWrites(j, job)
    BY <1>5, <1>6, <1>7 DEF WorkerWrites, TakeJob, SmsInv, SmsTypes
  <1>9. jobs'[j] = job
    BY <1>5, <1>7, JobSet DEF Set, SmsInv, SmsTypes
  <1>10. Answered(j)'
    BY <1>5, <1>9 DEF Answered
  <1>11. \A k \in DOMAIN campaigns : k = jobs[j].campaign => CountsAgree(k)'
    BY <1>6 DEF CountsAgree
  <1>12. ASSUME calm, NEW i \in jobs[j].rows
         PROVE  RowOfJob(j, i)'
    <2>1. RowOfJob(j, i) /\ jobs[j].state = "waiting" /\ UNCHANGED logs
      BY <1>12 DEF SmsInv, NothingTakenTwice, TakeJob
    <2>2. QED
      BY <1>5, <1>9, <2>1 DEF RowOfJob, NotTaken
  <1>13. QED
    BY <1>8, <1>10, <1>11, <1>12, WorkerKeeps

\* A provider takes messages: nothing else of the rows changes.
LEMMA AcceptWrites ==
    ASSUME logs \in Seq(SmsLog), NEW result, Accept(result)
    PROVE  /\ logs' \in Seq(SmsLog) /\ DOMAIN logs' = DOMAIN logs
           /\ \A i \in DOMAIN logs :
                /\ logs'[i].queue = logs[i].queue /\ logs'[i].status = logs[i].status
                /\ i \notin DOMAIN result => logs'[i] = logs[i]
                /\ i \in DOMAIN result => logs'[i].accepted
                     = IF result[i] = "Sent" THEN logs[i].accepted + 1 ELSE logs[i].accepted
  <1> DEFINE After(i) == IF i \in DOMAIN result /\ result[i] = "Sent"
                         THEN [logs[i] EXCEPT !.accepted = @ + 1] ELSE logs[i]
  <1>1. logs' = [i \in DOMAIN logs |-> After(i)]
    BY DEF Accept
  <1>2. ASSUME NEW i \in DOMAIN logs
        PROVE  After(i) \in SmsLog
    <2>1. logs[i] \in SmsLog
      OBVIOUS
    <2>2. [logs[i] EXCEPT !.accepted = @ + 1] \in SmsLog
      BY <2>1 DEF SmsLog
    <2>3. QED
      BY <2>1, <2>2
  <1>3. DOMAIN logs = 1 .. Len(logs) /\ Len(logs) \in Nat
    OBVIOUS
  <1>4. logs' \in [1 .. Len(logs) -> SmsLog]
    BY <1>1, <1>2, <1>3
  <1>5. logs' \in Seq(SmsLog)
    BY <1>3, <1>4, SeqDef
  <1>6. QED
    BY <1>1, <1>3, <1>5 DEF SmsLog

\* An answer is one a job can hold.
LEMMA ResultsAreOutcomes ==
    ASSUME NEW rows \in SUBSET Nat, NEW result \in Results(rows)
    PROVE  result \in JobOutcomes
  BY DEF JobOutcomes

\* The gateway answers: every row of the job is taken now, or not.
LEMMA AnswersInOrder ==
    ASSUME SmsInv, Ticks, NEW j \in DOMAIN jobs, GatewayAnswers(j)
    PROVE  SmsInv'
  <1>1. jobs[j] \in SmsJob /\ jobs[j].state = "sending" /\ UNCHANGED <<campaigns, caller, faults>>
    BY DEF SmsInv, SmsTypes, GatewayAnswers
  <1>2. PICK result \in Results(jobs[j].rows) : Accept(result) /\ ToRecord(j, result)
    BY DEF GatewayAnswers
  <1>3. PICK job :
          job = [jobs[j] EXCEPT !.state = "recording", !.outcome = result, !.left = jobs[j].rows]
    OBVIOUS
  <1>4. result \in JobOutcomes
    BY <1>1, <1>2, ResultsAreOutcomes DEF SmsJob
  <1>5. /\ job \in SmsJob /\ job.state = "recording"
        /\ job.outcome = result /\ job.left = jobs[j].rows
        /\ job.rows = jobs[j].rows /\ job.campaign = jobs[j].campaign
    BY <1>1, <1>3, <1>4 DEF SmsJob, JobStates
  <1>6. Set(j, job) /\ jobs'[j] = job
    BY <1>3, <1>2, <1>5, JobSet DEF ToRecord, Set, SmsInv, SmsTypes
  <1>7. /\ logs' \in Seq(SmsLog) /\ DOMAIN logs' = DOMAIN logs
        /\ DOMAIN result = jobs[j].rows
        /\ \A i \in DOMAIN logs :
             /\ logs'[i].queue = logs[i].queue /\ logs'[i].status = logs[i].status
             /\ i \notin DOMAIN result => logs'[i] = logs[i]
             /\ i \in DOMAIN result => logs'[i].accepted
                  = IF result[i] = "Sent" THEN logs[i].accepted + 1 ELSE logs[i].accepted
    BY <1>2, AcceptWrites DEF SmsInv, SmsTypes, Results
  <1>8. WorkerWrites(j, job)
    BY <1>1, <1>5, <1>6, <1>7 DEF WorkerWrites, SmsInv, SmsTypes
  <1>9. Answered(j)'
    BY <1>2, <1>5, <1>6 DEF Answered
  <1>10. \A k \in DOMAIN campaigns : k = jobs[j].campaign => CountsAgree(k)'
    <2>1. \A k \in DOMAIN campaigns : k # 0
      BY DEF SmsInv, SmsTypes
    <2>2. QED
      BY <1>1, <2>1, NotCompleted DEF SmsInv, CountsAgree
  <1>11. ASSUME calm, NEW i \in jobs[j].rows
         PROVE  RowOfJob(j, i)'
    <2>1. NotTaken(i, {"Queued", "Failed"}) /\ i \in DOMAIN logs
      BY <1>1, <1>11, RowsApart DEF SmsInv, NothingTakenTwice, RowOfJob
    <2>2. /\ logs'[i].status \in {"Queued", "Failed"}
          /\ logs'[i].accepted = IF result[i] = "Sent" THEN 1 ELSE 0
      BY <1>7, <2>1 DEF NotTaken
    <2>3. QED
      BY <1>5, <1>6, <1>11, <2>2 DEF RowOfJob
  <1>12. QED
    BY <1>8, <1>9, <1>10, <1>11, WorkerKeeps

\* The gateway throws: nothing was taken.
LEMMA ThrowsInOrder ==
    ASSUME SmsInv, Ticks, NEW j \in DOMAIN jobs, GatewayThrows(j)
    PROVE  SmsInv'
  <1>1. /\ jobs[j] \in SmsJob /\ jobs[j].state = "sending"
        /\ UNCHANGED <<logs, campaigns, caller, faults>>
    BY DEF SmsInv, SmsTypes, GatewayThrows
  <1>2. PICK job : job = [jobs[j] EXCEPT !.state = "failing"]
    OBVIOUS
  <1>3. /\ job \in SmsJob /\ job.state = "failing"
        /\ job.rows = jobs[j].rows /\ job.campaign = jobs[j].campaign
    BY <1>1, <1>2 DEF SmsJob, JobStates
  <1>4. Set(j, job) /\ jobs'[j] = job
    BY <1>2, <1>3, JobSet DEF GatewayThrows, Set, SmsInv, SmsTypes
  <1>5. WorkerWrites(j, job)
    BY <1>1, <1>3, <1>4 DEF WorkerWrites, SmsInv, SmsTypes
  <1>6. Answered(j)'
    BY <1>3, <1>4 DEF Answered
  <1>7. \A k \in DOMAIN campaigns : k = jobs[j].campaign => CountsAgree(k)'
    <2>1. \A k \in DOMAIN campaigns : k # 0
      BY DEF SmsInv, SmsTypes
    <2>2. QED
      BY <1>1, <2>1, NotCompleted DEF SmsInv, CountsAgree
  <1>8. ASSUME calm, NEW i \in jobs[j].rows
        PROVE  RowOfJob(j, i)'
    <2>1. NotTaken(i, {"Queued", "Failed"})
      BY <1>1, <1>8 DEF SmsInv, NothingTakenTwice, RowOfJob
    <2>2. QED
      BY <1>1, <1>3, <1>4, <2>1 DEF RowOfJob, NotTaken
  <1>9. QED
    BY <1>5, <1>6, <1>7, <1>8, WorkerKeeps

\* The answer is lost, which is not in order: the tables stay so.
LEMMA LossInOrder ==
    ASSUME SmsInv, Ticks, NEW j \in DOMAIN jobs, AnswerLost(j)
    PROVE  SmsInv'
  <1>1. jobs[j] \in SmsJob /\ jobs[j].state = "sending" /\ UNCHANGED <<campaigns, caller>>
    BY DEF SmsInv, SmsTypes, AnswerLost
  <1>2. faults' # faults
    BY DEF AnswerLost, SmsInv, SmsTypes
  <1>3. PICK taken : taken = [i \in jobs[j].rows |-> "Sent"]
    OBVIOUS
  <1>4. /\ logs' \in Seq(SmsLog) /\ DOMAIN logs' = DOMAIN logs
        /\ \A i \in DOMAIN logs :
             /\ logs'[i].queue = logs[i].queue /\ logs'[i].status = logs[i].status
             /\ i \notin jobs[j].rows => logs'[i] = logs[i]
    BY <1>3, AcceptWrites DEF AnswerLost, SmsInv, SmsTypes
  <1>5. \A k \in DOMAIN campaigns : k = jobs[j].campaign => CountsAgree(k)'
    <2>1. \A k \in DOMAIN campaigns : k # 0
      BY DEF SmsInv, SmsTypes
    <2>2. QED
      BY <1>1, <2>1, NotCompleted DEF SmsInv, CountsAgree
  <1>6. CASE jobs[j].campaign = 0
    <2>1. PICK job : job = [jobs[j] EXCEPT !.state = "failing"]
      OBVIOUS
    <2>2. /\ job \in SmsJob /\ job.state = "failing"
          /\ job.rows = jobs[j].rows /\ job.campaign = jobs[j].campaign
      BY <1>1, <2>1 DEF SmsJob, JobStates
    <2>3. Set(j, job) /\ jobs'[j] = job
      BY <1>6, <2>1, <2>2, JobSet DEF AnswerLost, Set, SmsInv, SmsTypes
    <2>4. WorkerWrites(j, job)
      BY <1>1, <1>4, <2>2, <2>3 DEF WorkerWrites, SmsInv, SmsTypes
    <2>5. Answered(j)'
      BY <2>2, <2>3 DEF Answered
    <2>6. QED
      BY <1>2, <1>5, <2>4, <2>5, WorkerKeeps
  <1>7. CASE jobs[j].campaign # 0
    <2>1. PICK result : result = [i \in jobs[j].rows |-> "Failed"]
      OBVIOUS
    <2>2. result \in Results(jobs[j].rows) /\ result \in JobOutcomes
      BY <1>1, <2>1, ResultsAreOutcomes DEF Results, SmsJob
    <2>3. PICK job :
            job = [jobs[j] EXCEPT !.state = "recording", !.outcome = result, !.left = jobs[j].rows]
      OBVIOUS
    <2>4. /\ job \in SmsJob /\ job.state = "recording"
          /\ job.outcome = result /\ job.left = jobs[j].rows
          /\ job.rows = jobs[j].rows /\ job.campaign = jobs[j].campaign
      BY <1>1, <2>2, <2>3 DEF SmsJob, JobStates
    <2>5. Set(j, job) /\ jobs'[j] = job
      BY <1>7, <2>1, <2>3, <2>4, JobSet DEF AnswerLost, ToRecord, Set, SmsInv, SmsTypes
    <2>6. WorkerWrites(j, job)
      BY <1>1, <1>4, <2>4, <2>5 DEF WorkerWrites, SmsInv, SmsTypes
    <2>7. Answered(j)'
      BY <2>2, <2>4, <2>5 DEF Answered
    <2>8. QED
      BY <1>2, <1>5, <2>6, <2>7, WorkerKeeps
  <1>8. QED
    BY <1>6, <1>7

\* The rows of a job are counted to a number.
LEMMA RowsAreCounted ==
    ASSUME SmsInv, NEW j \in DOMAIN jobs, NEW S \in SUBSET jobs[j].rows
    PROVE  Cardinality(S) \in Nat
  <1>1. PICK n \in Nat : S \subseteq 1 .. n
    <2>1. S \subseteq DOMAIN logs
      BY RowsApart DEF SmsInv
    <2>2. DOMAIN logs = 1 .. Len(logs) /\ Len(logs) \in Nat
      BY DEF SmsInv, SmsTypes
    <2>3. QED
      BY <2>1, <2>2
  <1>2. IsFiniteSet(1 .. n)
    BY FS_Interval
  <1>3. QED
    BY <1>1, <1>2, FS_Subset, FS_CardinalityType

\* The outcome is written to a row.
LEMMA RecordsInOrder ==
    ASSUME SmsInv, Ticks, NEW j \in DOMAIN jobs, NEW i \in jobs[j].rows, RecordResult(j, i)
    PROVE  SmsInv'
  <1>1. /\ jobs[j] \in SmsJob /\ jobs[j].state = "recording" /\ i \in jobs[j].left
        /\ UNCHANGED <<campaigns, caller, faults>>
    BY DEF SmsInv, SmsTypes, RecordResult
  <1>2. /\ Answered(j) /\ jobs[j].outcome \in Results(jobs[j].rows)
        /\ \A x \in jobs[j].rows : jobs[j].outcome[x] \in {"Sent", "Failed"}
    BY <1>1 DEF SmsInv, Orderly, Answered, Results
  <1>3. PICK after : after = IF jobs[j].left # {i} THEN "recording"
                             ELSE IF jobs[j].campaign = 0 THEN "done" ELSE "counting"
    OBVIOUS
  <1>4. PICK job : job = [jobs[j] EXCEPT !.left = @ \ {i}, !.state = after]
    OBVIOUS
  <1>5. /\ job \in SmsJob /\ job.state = after
        /\ job.outcome = jobs[j].outcome /\ job.left = jobs[j].left \ {i}
        /\ job.rows = jobs[j].rows /\ job.campaign = jobs[j].campaign
    BY <1>1, <1>3, <1>4 DEF SmsJob, JobStates
  <1>6. Set(j, job) /\ jobs'[j] = job
    BY <1>3, <1>4, <1>5, JobSet DEF RecordResult, Set, SmsInv, SmsTypes
  <1>7. PICK status \in {"Sent", "Failed"} : status = jobs[j].outcome[i]
    BY <1>2
  <1>8. /\ logs' \in Seq(SmsLog) /\ DOMAIN logs' = DOMAIN logs /\ i \in DOMAIN logs
        /\ \A x \in DOMAIN logs :
             /\ logs'[x].queue = logs[x].queue /\ logs'[x].accepted = logs[x].accepted
             /\ logs'[x].status = IF x = i THEN status ELSE logs[x].status
             /\ x # i => logs'[x] = logs[x]
    <2>1. logs' = [logs EXCEPT ![i].status = status] /\ i \in DOMAIN logs
      BY <1>7, RowsApart DEF RecordResult, SmsInv
    <2>2. logs[i] \in SmsLog
      BY <2>1 DEF SmsInv, SmsTypes
    <2>3. PICK row : row = [logs[i] EXCEPT !.status = status]
      OBVIOUS
    <2>4. /\ row \in SmsLog /\ row.status = status
          /\ row.queue = logs[i].queue /\ row.accepted = logs[i].accepted
      BY <2>2, <2>3 DEF SmsLog, LogStatuses
    <2>5. logs' = [logs EXCEPT ![i] = row]
      BY <2>1, <2>3
    <2>6. /\ logs' \in Seq(SmsLog) /\ DOMAIN logs' = DOMAIN logs
          /\ logs'[i] = row /\ \A x \in DOMAIN logs \ {i} : logs'[x] = logs[x]
      BY <2>1, <2>4, <2>5, LogSet DEF SmsInv, SmsTypes
    <2>7. QED
      BY <2>1, <2>4, <2>6
  <1>9. WorkerWrites(j, job)
    BY <1>1, <1>5, <1>6, <1>8 DEF WorkerWrites, SmsInv, SmsTypes
  <1>10. Answered(j)'
    <2>1. job.state = "counting" => job.campaign # 0 /\ jobs[j].left = {i}
      BY <1>3, <1>5
    <2>2. ASSUME jobs[j].campaign # 0, NEW x \in jobs[j].rows,
                 job.state = "counting" \/ x \notin job.left
          PROVE  logs'[x].status = jobs[j].outcome[x]
      <3>1. x \in DOMAIN logs /\ (x = i \/ x \notin jobs[j].left)
        BY <1>5, <2>1, <2>2, RowsApart DEF SmsInv
      <3>2. QED
        BY <1>1, <1>2, <1>7, <1>8, <2>2, <3>1 DEF Answered
    <2>3. QED
      BY <1>2, <1>5, <1>6, <2>1, <2>2 DEF Answered
  <1>11. \A k \in DOMAIN campaigns : k = jobs[j].campaign => CountsAgree(k)'
    <2>1. \A k \in DOMAIN campaigns : k # 0
      BY DEF SmsInv, SmsTypes
    <2>2. QED
      BY <1>1, <2>1, NotCompleted DEF SmsInv, CountsAgree
  <1>12. ASSUME calm, NEW x \in jobs[j].rows
         PROVE  RowOfJob(j, x)'
    <2>1. x \in DOMAIN logs /\ RowOfJob(j, x)
      BY <1>12, RowsApart DEF SmsInv, NothingTakenTwice
    <2>2. /\ logs[x].accepted = IF jobs[j].outcome[x] = "Sent" THEN 1 ELSE 0
          /\ IF x \in jobs[j].left THEN logs[x].status \in {"Queued", "Failed"}
             ELSE logs[x].status = jobs[j].outcome[x]
      BY <1>1, <2>1 DEF RowOfJob
    <2>3. CASE after = "recording"
      BY <1>5, <1>6, <1>7, <1>8, <1>12, <2>1, <2>2, <2>3 DEF RowOfJob
    <2>4. CASE after # "recording"
      <3>1. jobs[j].left = {i} /\ after \in {"done", "counting"}
        BY <1>3, <2>4
      <3>2. logs'[x].status = jobs[j].outcome[x] /\ logs'[x].accepted = logs[x].accepted
        BY <1>7, <1>8, <2>1, <2>2, <3>1
      <3>3. QED
        BY <1>2, <1>5, <1>6, <2>2, <3>1, <3>2 DEF RowOfJob, Told
    <2>5. QED
      BY <2>3, <2>4
  <1>13. QED
    BY <1>9, <1>10, <1>11, <1>12, WorkerKeeps

\* The campaign is counted, from what was just written to its rows.
LEMMA CountsInOrder ==
    ASSUME SmsInv, Ticks, NEW j \in DOMAIN jobs, CountCampaign(j)
    PROVE  SmsInv'
  <1>1. jobs[j] \in SmsJob /\ jobs[j].state = "counting" /\ UNCHANGED <<logs, caller, faults>>
    BY DEF SmsInv, SmsTypes, CountCampaign
  <1>2. Answered(j) /\ JobOwnsRows(j)
    BY DEF SmsInv, Orderly
  <1>3. \A i \in jobs[j].rows : logs[i].status = jobs[j].outcome[i]
    BY <1>1, <1>2 DEF Answered
  <1>4. PICK k \in DOMAIN campaigns : k = jobs[j].campaign /\ campaigns[k].rows = jobs[j].rows
    BY <1>1, <1>2 DEF Answered, JobOwnsRows
  <1>5. PICK sent : sent = Outcomes(j, "Sent")
    OBVIOUS
  <1>6. PICK failed : failed = Outcomes(j, "Failed")
    OBVIOUS
  <1>7. sent \in Nat /\ failed \in Nat
    BY <1>5, <1>6, RowsAreCounted DEF Outcomes
  <1>8. PICK status \in {"Completed", "Failed"} :
          status = IF sent = 0 /\ failed # 0 THEN "Failed" ELSE "Completed"
    OBVIOUS
  <1>9. PICK row : row = [campaigns[k] EXCEPT !.status = status, !.sentCount = sent,
                                              !.failedCount = failed]
    OBVIOUS
  <1>10. campaigns[k] \in Campaign
    BY DEF SmsInv, SmsTypes
  <1>11. /\ row \in Campaign /\ row.rows = campaigns[k].rows
         /\ row.sentCount = sent /\ row.failedCount = failed
    BY <1>7, <1>8, <1>9, <1>10 DEF Campaign
  <1>12. campaigns' = [campaigns EXCEPT ![k] = row]
    BY <1>4, <1>5, <1>6, <1>8, <1>9 DEF CountCampaign
  <1>13. /\ campaigns' \in Seq(Campaign) /\ DOMAIN campaigns' = DOMAIN campaigns
         /\ campaigns'[k] = row /\ \A l \in DOMAIN campaigns \ {k} : campaigns'[l] = campaigns[l]
    BY <1>11, <1>12, CampaignSet DEF SmsInv
  <1>14. PICK job : job = [jobs[j] EXCEPT !.state = "done"]
    OBVIOUS
  <1>15. /\ job \in SmsJob /\ job.state = "done"
         /\ job.rows = jobs[j].rows /\ job.campaign = jobs[j].campaign
    BY <1>1, <1>14 DEF SmsJob, JobStates
  <1>16. Set(j, job) /\ jobs'[j] = job /\ DOMAIN jobs' = DOMAIN jobs
    BY <1>14, <1>15, JobSet DEF CountCampaign, Set, SmsInv, SmsTypes
  <1>17. WorkerWrites(j, job)
    BY <1>1, <1>4, <1>11, <1>13, <1>15, <1>16 DEF WorkerWrites, SmsInv, SmsTypes
  <1>18. Answered(j)'
    BY <1>15, <1>16 DEF Answered
  <1>19. CountsAgree(k)'
    <2>1. {i \in campaigns[k].rows : logs[i].status = "Sent"}
            = {i \in jobs[j].rows : jobs[j].outcome[i] = "Sent"}
      BY <1>3, <1>4
    <2>2. {i \in campaigns[k].rows : logs[i].status = "Failed"}
            = {i \in jobs[j].rows : jobs[j].outcome[i] = "Failed"}
      BY <1>3, <1>4
    <2>3. /\ row.sentCount = Cardinality({i \in campaigns[k].rows : logs[i].status = "Sent"})
          /\ row.failedCount = Cardinality({i \in campaigns[k].rows : logs[i].status = "Failed"})
      BY <1>5, <1>6, <1>11, <2>1, <2>2 DEF Outcomes
    <2>4. QED
      BY <1>1, <1>4, <1>11, <1>13, <1>15, <1>16, <2>3 DEF CountsAgree
  <1>20. ASSUME calm, NEW i \in jobs[j].rows
         PROVE  RowOfJob(j, i)'
    <2>1. Told(i)
      BY <1>1, <1>20 DEF SmsInv, NothingTakenTwice, RowOfJob
    <2>2. QED
      BY <1>1, <1>15, <1>16, <2>1 DEF RowOfJob, Told
  <1>21. QED
    BY <1>4, <1>17, <1>18, <1>19, <1>20, WorkerKeeps

\* A job that threw has its rows Failed, or leaves them Queued, and waits again or
\* is given up.
LEMMA FailsInOrder ==
    ASSUME SmsInv, Ticks, NEW j \in DOMAIN jobs, RecordThrown(j)
    PROVE  SmsInv'
  <1>1. jobs[j] \in SmsJob /\ jobs[j].state = "failing" /\ UNCHANGED <<caller, faults>>
    BY DEF SmsInv, SmsTypes, RecordThrown
  <1>2. PICK after \in {"waiting", "done"} :
          after = IF jobs[j].tries + 1 < Attempts(jobs[j].queue) THEN "waiting" ELSE "done"
    OBVIOUS
  <1>3. PICK job : job = [jobs[j] EXCEPT !.tries = @ + 1, !.state = after]
    OBVIOUS
  <1>4. /\ job \in SmsJob /\ job.state = after
        /\ job.rows = jobs[j].rows /\ job.campaign = jobs[j].campaign
    <2>1. PICK tries \in Nat : tries = jobs[j].tries + 1
      BY <1>1 DEF SmsJob
    <2>2. job = [jobs[j] EXCEPT !.tries = tries, !.state = after]
      BY <1>3, <2>1
    <2>3. QED
      BY <1>1, <2>2 DEF SmsJob, JobStates
  <1>5. Set(j, job) /\ jobs'[j] = job
    BY <1>2, <1>3, <1>4, JobSet DEF RecordThrown, Set, SmsInv, SmsTypes
  <1>6. /\ logs' \in Seq(SmsLog) /\ DOMAIN logs' = DOMAIN logs
        /\ \A i \in DOMAIN logs :
             /\ logs'[i].queue = logs[i].queue /\ logs'[i].accepted = logs[i].accepted
             /\ IF i \in jobs[j].rows /\ WritesFailed(j)
                THEN logs'[i].status = "Failed" ELSE logs'[i] = logs[i]
    <2> DEFINE After(i) == IF i \in jobs[j].rows /\ WritesFailed(j) THEN [logs[i] EXCEPT !.status = "Failed"]
                           ELSE logs[i]
    <2>1. logs' = [i \in DOMAIN logs |-> After(i)]
      BY DEF RecordThrown
    <2>2. ASSUME NEW i \in DOMAIN logs
          PROVE  After(i) \in SmsLog
      <3>1. logs[i] \in SmsLog
        BY DEF SmsInv, SmsTypes
      <3>2. [logs[i] EXCEPT !.status = "Failed"] \in SmsLog
        BY <3>1 DEF SmsLog, LogStatuses
      <3>3. QED
        BY <3>1, <3>2
    <2>3. DOMAIN logs = 1 .. Len(logs) /\ Len(logs) \in Nat
      BY DEF SmsInv, SmsTypes
    <2>4. logs' \in [1 .. Len(logs) -> SmsLog]
      BY <2>1, <2>2, <2>3
    <2>5. logs' \in Seq(SmsLog)
      BY <2>3, <2>4, SeqDef
    <2>6. \A i \in DOMAIN logs : logs[i] \in SmsLog
      BY DEF SmsInv, SmsTypes
    <2>7. QED
      BY <2>1, <2>3, <2>5, <2>6 DEF SmsLog
  <1>7. /\ campaigns' \in Seq(Campaign) /\ DOMAIN campaigns' = DOMAIN campaigns
        /\ \A k \in DOMAIN campaigns :
             /\ campaigns'[k].rows = campaigns[k].rows
             /\ IF k = jobs[j].campaign THEN campaigns'[k].status = "Failed"
                ELSE campaigns'[k] = campaigns[k]
    <2>1. CASE jobs[j].campaign = 0
      BY <2>1 DEF RecordThrown, SmsInv, SmsTypes
    <2>2. CASE jobs[j].campaign # 0
      <3>1. JobOwnsRows(j)
        BY DEF SmsInv, Orderly
      <3>2. PICK k \in DOMAIN campaigns : k = jobs[j].campaign
        BY <2>2, <3>1 DEF JobOwnsRows
      <3>3. PICK failed \in Nat : failed = Cardinality(jobs[j].rows)
        BY RowsAreCounted
      <3>4. PICK row : row = [campaigns[k] EXCEPT !.status = "Failed", !.failedCount = failed]
        OBVIOUS
      <3>5. campaigns[k] \in Campaign
        BY DEF SmsInv, SmsTypes
      <3>6. row \in Campaign /\ row.status = "Failed" /\ row.rows = campaigns[k].rows
        BY <3>4, <3>5 DEF Campaign
      <3>7. campaigns' = [campaigns EXCEPT ![k] = row]
        BY <2>2, <3>2, <3>3, <3>4 DEF RecordThrown
      <3>8. QED
        BY <3>2, <3>6, <3>7, CampaignSet DEF SmsInv
    <2>3. QED
      BY <2>1, <2>2
  <1>8. WorkerWrites(j, job)
    BY <1>1, <1>4, <1>5, <1>6, <1>7 DEF WorkerWrites, SmsInv, SmsTypes
  <1>9. Answered(j)'
    BY <1>4, <1>5 DEF Answered
  <1>10. \A k \in DOMAIN campaigns : k = jobs[j].campaign => CountsAgree(k)'
    BY <1>7 DEF CountsAgree
  <1>11. ASSUME calm, NEW i \in jobs[j].rows
         PROVE  RowOfJob(j, i)'
    <2>1. NotTaken(i, {"Queued", "Failed"}) /\ i \in DOMAIN logs
      BY <1>1, <1>11, RowsApart DEF SmsInv, NothingTakenTwice, RowOfJob
    <2>2. logs'[i].accepted = 0 /\ logs'[i].status \in {"Failed", "Queued"}
      BY <1>6, <2>1 DEF NotTaken
    <2>3. QED
      BY <1>2, <1>4, <1>5, <2>2 DEF RowOfJob, NotTaken, Told
  <1>12. QED
    BY <1>8, <1>9, <1>10, <1>11, WorkerKeeps

-------------------------------------------------------------------------------
(* A call's step: rows, jobs and campaigns are added, and a row that had to *)
(* wait is released.                                                        *)

CallWrites ==
    /\ logs' \in Seq(SmsLog) /\ DOMAIN logs \subseteq DOMAIN logs'
    /\ \A i \in DOMAIN logs :
         /\ logs'[i].queue = logs[i].queue /\ logs'[i].accepted = logs[i].accepted
         /\ logs[i].queue = "bulk-sms" => logs'[i] = logs[i]
         /\ logs'[i].status = "Pending" => logs[i].status = "Pending"
    /\ \A i \in DOMAIN logs' \ DOMAIN logs :
         /\ logs'[i].accepted = 0 /\ logs'[i].status \in {"Pending", "Queued"}
         /\ logs'[i].status = "Pending" => logs'[i].queue # "bulk-sms"
    /\ jobs' \in Seq(SmsJob) /\ DOMAIN jobs \subseteq DOMAIN jobs'
    /\ \A j \in DOMAIN jobs : jobs'[j] = jobs[j]
    /\ \A j \in DOMAIN jobs' \ DOMAIN jobs : jobs'[j].state = "waiting"
    /\ campaigns' \in Seq(Campaign) /\ DOMAIN campaigns \subseteq DOMAIN campaigns'
    /\ \A k \in DOMAIN campaigns :
         \/ campaigns'[k] = campaigns[k]
         \/ /\ campaigns[k].status = "Queued" /\ campaigns'[k].status = "Queued"
            /\ \A j \in DOMAIN jobs : jobs[j].campaign # k
    /\ \A k \in DOMAIN campaigns' \ DOMAIN campaigns : campaigns'[k].status = "Queued"

\* What another call has in hand stays its own: the jobs added are for messages or
\* for the mover's campaign, and so is what the mover has in hand after the step.
MoverOnly(c) ==
    /\ caller' \in [Callers -> Call] /\ IsFiniteSet(AtWork')
    /\ \A d \in Callers \ {c} : caller'[d] = caller[d]
    /\ \A j \in DOMAIN jobs' \ DOMAIN jobs :
         \/ jobs'[j].campaign = 0
         \/ c \in Callers /\ CallAt(c, "job") /\ jobs'[j].campaign = caller[c].campaign
    /\ c \in Callers /\ (CallAt(c, "rows")' \/ CallAt(c, "job")') =>
         \/ caller'[c].campaign \notin DOMAIN campaigns
         \/ (CallAt(c, "rows") \/ CallAt(c, "job")) /\ caller'[c].campaign = caller[c].campaign

\* So no other call loses what it has in hand.
LEMMA HandStays ==
    ASSUME SmsTypes, Orderly, CallWrites, NEW c, MoverOnly(c),
           NEW d \in Callers \ {c}
    PROVE  HasInHand(d)'
  <1>1. HasInHand(d) /\ caller'[d] = caller[d] /\ caller[d] \in Call
    BY DEF Orderly, MoverOnly, SmsTypes
  <1>2. CASE CallAt(d, "rows") \/ CallAt(d, "job")
    <2>1. PICK k \in DOMAIN campaigns : k = caller[d].campaign
      BY <1>1, <1>2 DEF HasInHand
    <2>2. k # 0 /\ k \in DOMAIN campaigns'
      BY DEF SmsTypes, CallWrites
    <2>3. /\ campaigns[k].status = "Queued" /\ \A j \in DOMAIN jobs : jobs[j].campaign # k
          /\ \A e \in Callers \ {d} :
               CallAt(e, "rows") \/ CallAt(e, "job") => caller[e].campaign # k
      BY <1>1, <1>2, <2>1 DEF HasInHand
    <2>4. campaigns'[k].status = "Queued"
      BY <2>3 DEF CallWrites
    <2>5. ASSUME NEW j \in DOMAIN jobs'
          PROVE  jobs'[j].campaign # k
      <3>1. CASE j \in DOMAIN jobs
        BY <2>3, <3>1 DEF CallWrites
      <3>2. CASE j \notin DOMAIN jobs
        BY <2>2, <2>3, <3>2 DEF MoverOnly
      <3>3. QED
        BY <3>1, <3>2
    <2>6. ASSUME NEW e \in Callers \ {d}, CallAt(e, "rows")' \/ CallAt(e, "job")'
          PROVE  caller'[e].campaign # k
      <3>1. CASE e = c
        BY <2>3, <2>6, <3>1 DEF MoverOnly
      <3>2. CASE e # c
        BY <2>3, <2>6, <3>2 DEF MoverOnly, CallAt
      <3>3. QED
        BY <3>1, <3>2
    <2>7. QED
      BY <1>1, <1>2, <2>1, <2>2, <2>4, <2>5, <2>6 DEF HasInHand, CallAt
  <1>3. CASE ~(CallAt(d, "rows") \/ CallAt(d, "job"))
    <2>1. CASE CallAt(d, "read") \/ CallAt(d, "mark") \/ CallAt(d, "add")
      <3>1. /\ Head(caller[d].todo) = caller[d].todo[1] /\ 1 \in DOMAIN caller[d].todo
            /\ \A n \in DOMAIN caller[d].todo : caller[d].todo[n] \in DOMAIN logs
        BY <1>1, <2>1 DEF HasInHand, Call
      <3>2. QED
        BY <1>1, <1>3, <2>1, <3>1 DEF HasInHand, CallAt, CallWrites
    <2>2. QED
      BY <1>1, <1>3, <2>1 DEF HasInHand, CallAt
  <1>4. QED
    BY <1>2, <1>3

\* A call's step keeps the tables in order if what it adds or has in hand is.
LEMMA CallKeepsOrder ==
    ASSUME SmsTypes, Orderly, CallWrites, NEW c, MoverOnly(c),
           c \in Callers => HasInHand(c)', CampaignsOwnRows',
           \A j \in DOMAIN jobs' \ DOMAIN jobs : JobOwnsRows(j)'
    PROVE  Orderly'
  <1>1. PendingIsSingle'
    BY DEF Orderly, PendingIsSingle, CallWrites
  <1>2. ASSUME NEW j \in DOMAIN jobs
        PROVE  JobOwnsRows(j)'
    <2>1. JobOwnsRows(j) /\ jobs'[j] = jobs[j]
      BY DEF Orderly, CallWrites
    <2>2. CASE jobs[j].campaign = 0
      BY <2>1, <2>2 DEF JobOwnsRows, CallWrites
    <2>3. CASE jobs[j].campaign # 0
      <3>1. PICK k \in DOMAIN campaigns : k = jobs[j].campaign
        BY <2>1, <2>3 DEF JobOwnsRows
      <3>2. campaigns'[k] = campaigns[k] /\ k \in DOMAIN campaigns'
        BY <3>1 DEF CallWrites
      <3>3. ASSUME NEW l \in DOMAIN jobs' \ {j}
            PROVE  jobs'[l].campaign # k
        <4>1. CASE l \in DOMAIN jobs
          BY <2>1, <2>3, <3>1, <4>1 DEF JobOwnsRows, CallWrites
        <4>2. CASE l \notin DOMAIN jobs
          <5>1. JobOwnsRows(l)' /\ j \in DOMAIN jobs' \ {l}
            BY <4>2 DEF CallWrites
          <5>2. QED
            BY <2>1, <2>3, <3>1, <5>1 DEF JobOwnsRows
        <4>3. QED
          BY <4>1, <4>2
      <3>4. QED
        BY <2>1, <2>3, <3>1, <3>2, <3>3 DEF JobOwnsRows
    <2>4. QED
      BY <2>2, <2>3
  <1>3. ASSUME NEW j \in DOMAIN jobs'
        PROVE  Answered(j)'
    <2>1. CASE j \notin DOMAIN jobs
      BY <2>1 DEF Answered, CallWrites
    <2>2. CASE j \in DOMAIN jobs
      <3>1. Answered(j) /\ JobOwnsRows(j) /\ CampaignsOwnRows /\ jobs'[j] = jobs[j]
        BY <2>2 DEF Orderly, CallWrites
      <3>2. jobs[j].campaign # 0 => \A i \in jobs[j].rows : logs'[i] = logs[i]
        BY <3>1 DEF JobOwnsRows, CampaignsOwnRows, CallWrites
      <3>3. QED
        BY <3>1, <3>2 DEF Answered
    <2>3. QED
      BY <2>1, <2>2
  <1>4. ASSUME NEW k \in DOMAIN campaigns'
        PROVE  CountsAgree(k)'
    <2>1. CASE k \notin DOMAIN campaigns
      BY <2>1 DEF CountsAgree, CallWrites
    <2>2. CASE k \in DOMAIN campaigns /\ campaigns'[k] # campaigns[k]
      BY <2>2 DEF CountsAgree, CallWrites
    <2>3. CASE k \in DOMAIN campaigns /\ campaigns'[k] = campaigns[k]
      <3>1. CountsAgree(k) /\ CampaignsOwnRows
        BY <2>3 DEF Orderly
      <3>2. \A i \in campaigns[k].rows : logs'[i] = logs[i]
        BY <2>3, <3>1 DEF CampaignsOwnRows, CallWrites
      <3>3. QED
        BY <2>3, <3>1, <3>2, CountedStays DEF CallWrites
    <2>4. QED
      BY <2>1, <2>2, <2>3
  <1>5. \A d \in Callers : HasInHand(d)'
    BY HandStays
  <1>6. QED
    BY <1>1, <1>2, <1>3, <1>4, <1>5 DEF Orderly

\* While calls follow each other: the rows released or given a job had none before.
Unjobbed ==
    /\ \A i \in DOMAIN logs : HasJob(i) => logs'[i].status = logs[i].status
    /\ \A i \in DOMAIN logs : ~HasJob(i) => logs'[i].status \in {"Pending", "Queued"}
    /\ \A j, l \in DOMAIN jobs' \ DOMAIN jobs : j = l
    /\ \A j \in DOMAIN jobs' \ DOMAIN jobs : \A i \in jobs'[j].rows :
         i \in DOMAIN logs /\ ~HasJob(i) /\ logs'[i].status = "Queued"

\* And it keeps what was taken once, if it gives jobs only to rows without one.
LEMMA CallKeepsCalm ==
    ASSUME SmsTypes, Orderly, NothingTakenTwice, CallWrites, UNCHANGED faults, Unjobbed,
           \A d, e \in AtWork' : d = e,
           \A c \in Callers :
             /\ CallAt(c, "mark")' \/ CallAt(c, "add")' => ~HasJob(Head(caller[c].todo))'
             /\ CallAt(c, "add")' => logs'[Head(caller'[c].todo)].status = "Queued"
    PROVE  NothingTakenTwice'
  <1>1. \A j \in DOMAIN jobs : jobs'[j] = jobs[j] /\ jobs[j].rows \subseteq DOMAIN logs
    BY RowsApart DEF CallWrites
  <1>2. \A j, l \in DOMAIN jobs' : j # l => jobs'[j].rows \cap jobs'[l].rows = {}
    <2>1. ASSUME NEW j \in DOMAIN jobs', NEW l \in DOMAIN jobs', j # l,
                 NEW i \in jobs'[j].rows, i \in jobs'[l].rows
          PROVE  FALSE
      <3>1. CASE j \in DOMAIN jobs /\ l \in DOMAIN jobs
        BY <1>1, <2>1, <3>1 DEF NothingTakenTwice
      <3>2. CASE j \notin DOMAIN jobs /\ l \in DOMAIN jobs
        BY <1>1, <2>1, <3>2 DEF Unjobbed, HasJob
      <3>3. CASE j \in DOMAIN jobs /\ l \notin DOMAIN jobs
        BY <1>1, <2>1, <3>3 DEF Unjobbed, HasJob
      <3>4. CASE j \notin DOMAIN jobs /\ l \notin DOMAIN jobs
        BY <2>1, <3>4 DEF Unjobbed
      <3>5. QED
        BY <3>1, <3>2, <3>3, <3>4
    <2>2. QED
      BY <2>1
  <1>3. ASSUME NEW i \in DOMAIN logs', ~HasJob(i)'
        PROVE  NotTaken(i, {"Pending", "Queued"})'
    <2>1. CASE i \notin DOMAIN logs
      BY <2>1 DEF NotTaken, CallWrites
    <2>2. CASE i \in DOMAIN logs
      <3>1. ~HasJob(i)
        BY <1>1, <1>3 DEF HasJob, CallWrites
      <3>2. logs[i].accepted = 0
        BY <2>2, <3>1 DEF NothingTakenTwice, NotTaken
      <3>3. QED
        BY <2>2, <3>1, <3>2 DEF NotTaken, CallWrites, Unjobbed
    <2>3. QED
      BY <2>1, <2>2
  <1>4. ASSUME NEW j \in DOMAIN jobs', NEW i \in jobs'[j].rows
        PROVE  RowOfJob(j, i)'
    <2>1. CASE j \in DOMAIN jobs
      <3>1. i \in DOMAIN logs /\ HasJob(i) /\ RowOfJob(j, i)
        BY <1>1, <1>4, <2>1 DEF HasJob, NothingTakenTwice
      <3>2. logs'[i].status = logs[i].status /\ logs'[i].accepted = logs[i].accepted
        BY <3>1 DEF Unjobbed, CallWrites
      <3>3. QED
        BY <1>1, <2>1, <3>1, <3>2 DEF RowOfJob, NotTaken, Told
    <2>2. CASE j \notin DOMAIN jobs
      <3>1. /\ i \in DOMAIN logs /\ ~HasJob(i) /\ logs'[i].status = "Queued"
            /\ jobs'[j].state = "waiting"
        BY <1>4, <2>2 DEF Unjobbed, CallWrites
      <3>2. logs'[i].accepted = 0
        BY <3>1 DEF NothingTakenTwice, NotTaken, CallWrites
      <3>3. QED
        BY <3>1, <3>2 DEF RowOfJob, NotTaken
    <2>3. QED
      BY <2>1, <2>2
  <1>5. QED
    BY <1>2, <1>3, <1>4 DEF NothingTakenTwice

\* Both together, with the types: the call that moves is the only one.
LEMMA CallKeeps ==
    ASSUME SmsInv, Ticks, UNCHANGED faults, NEW c \in Callers, NEW call \in Call,
           Continue(c, call), caller[c].step = "idle" => call.step # "idle",
           CallWrites, MoverOnly(c), HasInHand(c)', CampaignsOwnRows',
           \A j \in DOMAIN jobs' \ DOMAIN jobs : JobOwnsRows(j)',
           calm => /\ Unjobbed
                   /\ call.step \in {"mark", "add"} => ~HasJob(Head(call.todo))'
                   /\ call.step = "add" => logs'[Head(call.todo)].status = "Queued"
    PROVE  SmsInv'
  <1>1. SmsTypes'
    BY DEF SmsInv, SmsTypes, CallWrites, MoverOnly, Ticks
  <1>2. Orderly'
    BY CallKeepsOrder DEF SmsInv
  <1>3. ASSUME calm'
        PROVE  NothingTakenTwice'
    <2>1. calm /\ NothingTakenTwice /\ Cardinality(AtWork') <= 1
      BY <1>3 DEF SmsInv, Ticks
    <2>2. /\ \A d \in Callers \ {c} : caller[d].step = "idle" /\ caller'[d] = caller[d]
          /\ \A d, e \in AtWork' : d = e
      BY <2>1, OthersRest DEF SmsInv, NothingTakenTwice
    <2>3. caller'[c] = call
      BY CallSet DEF SmsInv
    <2>4. \A d \in Callers \ {c} : ~CallAt(d, "mark")' /\ ~CallAt(d, "add")'
      BY <2>2 DEF CallAt
    <2>5. \A d \in Callers :
            /\ CallAt(d, "mark")' \/ CallAt(d, "add")' => ~HasJob(Head(caller[d].todo))'
            /\ CallAt(d, "add")' => logs'[Head(caller'[d].todo)].status = "Queued"
      BY <2>1, <2>3, <2>4 DEF CallAt, HasJob
    <2>6. QED
      BY <2>1, <2>2, <2>5, CallKeepsCalm DEF SmsInv
  <1>4. QED
    BY <1>1, <1>2, <1>3 DEF SmsInv

\* A call that only moves on.
LEMMA CallOnly ==
    ASSUME SmsInv, Ticks, UNCHANGED <<logs, campaigns, jobs, faults>>,
           NEW c \in Callers, NEW call \in Call, Continue(c, call),
           caller[c].step = "idle" => call.step # "idle",
           call.step \in {"idle", "read", "mark"}, HasInHand(c)',
           calm /\ call.step = "mark" => ~HasJob(Head(call.todo))
    PROVE  SmsInv'
  <1>1. CallWrites
    BY DEF CallWrites, SmsInv, SmsTypes
  <1>2. MoverOnly(c)
    BY CallSet DEF MoverOnly, SmsInv, CallAt
  <1>3. CampaignsOwnRows'
    BY DEF SmsInv, Orderly, CampaignsOwnRows
  <1>4. calm => Unjobbed
    BY DEF Unjobbed, SmsInv, NothingTakenTwice, NotTaken
  <1>5. calm /\ call.step = "mark" => ~HasJob(Head(call.todo))'
    BY DEF HasJob
  <1>6. QED
    BY <1>1, <1>2, <1>3, <1>4, <1>5, CallKeeps

\* A release begins with rows of the log.
LEMMA ReleasesInOrder ==
    ASSUME SmsInv, Ticks, NEW c \in Callers, NEW todo \in Seq(DOMAIN logs), todo # << >>,
           CallAt(c, "idle"), Continue(c, [Rested EXCEPT !.step = "read", !.todo = todo]),
           UNCHANGED <<logs, campaigns, jobs, faults>>
    PROVE  SmsInv'
  <1>1. PICK call : call = [Rested EXCEPT !.step = "read", !.todo = todo]
    OBVIOUS
  <1>2. todo \in Seq(Nat)
    BY DEF SmsInv, SmsTypes
  <1>3. call \in Call /\ call.step = "read" /\ call.todo = todo
    BY <1>1, <1>2 DEF Rested, Call, CallSteps
  <1>4. caller'[c] = call
    BY <1>1, <1>3, CallSet DEF SmsInv
  <1>5. \A n \in DOMAIN todo : todo[n] \in DOMAIN logs
    OBVIOUS
  <1>6. HasInHand(c)'
    BY <1>3, <1>4, <1>5 DEF HasInHand, CallAt
  <1>7. QED
    BY <1>1, <1>3, <1>6, CallOnly

\* sendAllPending.
LEMMA ListIsReleased ==
    ASSUME SmsInv, Ticks, NEW c \in Callers, SendAllPending(c)
    PROVE  SmsInv'
  <1>1. PICK todo \in PendingLists :
          /\ Len(todo) > 1
          /\ Continue(c, [Rested EXCEPT !.step = "read", !.todo = todo])
    BY DEF SendAllPending
  <1>2. PICK pending \in SUBSET DOMAIN logs : todo \in [1 .. Cardinality(pending) -> pending]
    BY <1>1 DEF PendingLists
  <1>3. Cardinality(pending) \in Nat
    <2>1. PICK n \in Nat : DOMAIN logs = 1 .. n
      BY DEF SmsInv, SmsTypes
    <2>2. IsFiniteSet(1 .. n)
      BY FS_Interval
    <2>3. QED
      BY <1>2, <2>1, <2>2, FS_Subset, FS_CardinalityType
  <1>4. todo \in Seq(DOMAIN logs)
    <2>1. todo \in [1 .. Cardinality(pending) -> DOMAIN logs]
      BY <1>2
    <2>2. QED
      BY <1>3, <2>1, SeqDef
  <1>5. todo # << >>
    BY <1>1
  <1>6. QED
    BY <1>1, <1>4, <1>5, ReleasesInOrder DEF SendAllPending

\* sendPendingSms.
LEMMA OneIsReleased ==
    ASSUME SmsInv, Ticks, NEW c \in Callers, NEW i \in DOMAIN logs, SendPendingSms(c, i)
    PROVE  SmsInv'
  <1>1. PICK todo : todo = <<i>>
    OBVIOUS
  <1>2. todo \in Seq(DOMAIN logs) /\ todo # << >>
    BY <1>1
  <1>3. QED
    BY <1>1, <1>2, ReleasesInOrder DEF SendPendingSms

\* A call at rest.
LEMMA RestedIsACall ==
    /\ Rested \in Call /\ Rested.step = "idle"
    /\ \A c \in Callers : End(c) => Continue(c, Rested)
  <1>1. << >> \in Seq(Nat)
    OBVIOUS
  <1>2. QED
    BY <1>1 DEF Rested, Call, CallSteps, End

\* The status is read: a row that is Pending has no job.
LEMMA ReadsInOrder ==
    ASSUME SmsInv, Ticks, NEW c \in Callers, ReadPending(c)
    PROVE  SmsInv'
  <1>1. /\ caller[c] \in Call /\ caller[c].step = "read" /\ HasInHand(c)
        /\ UNCHANGED <<logs, campaigns, jobs, faults>>
    BY DEF ReadPending, CallAt, SmsInv, SmsTypes, Orderly
  <1>2. PICK head : head = Head(caller[c].todo)
    OBVIOUS
  <1>3. head \in DOMAIN logs
    BY <1>1, <1>2 DEF HasInHand, CallAt, Call
  <1>4. CASE logs[head].status = "Pending"
    <2>1. PICK call : call = [caller[c] EXCEPT !.step = "mark"]
      OBVIOUS
    <2>2. call \in Call /\ call.step = "mark" /\ call.todo = caller[c].todo
      BY <1>1, <2>1 DEF Call, CallSteps
    <2>3. Continue(c, call)
      BY <1>2, <1>4, <2>1 DEF ReadPending
    <2>4. caller'[c] = call
      BY <2>2, <2>3, CallSet DEF SmsInv
    <2>5. logs[head].queue # "bulk-sms"
      BY <1>3, <1>4 DEF SmsInv, Orderly, PendingIsSingle
    <2>6. HasInHand(c)'
      BY <1>1, <1>2, <2>2, <2>4, <2>5 DEF HasInHand, CallAt
    <2>7. ASSUME calm, HasJob(head)
          PROVE  FALSE
      <3>1. PICK j \in DOMAIN jobs : head \in jobs[j].rows
        BY <2>7 DEF HasJob
      <3>2. RowOfJob(j, head) /\ Answered(j)
        BY <2>7, <3>1 DEF SmsInv, NothingTakenTwice, Orderly
      <3>3. jobs[j].state = "recording" => jobs[j].outcome[head] \in {"Sent", "Failed"}
        BY <3>1, <3>2 DEF Answered, Results
      <3>4. QED
        BY <1>4, <3>2, <3>3 DEF RowOfJob, NotTaken, Told
    <2>8. QED
      BY <1>1, <1>2, <2>2, <2>3, <2>6, <2>7, CallOnly
  <1>5. CASE logs[head].status # "Pending"
    <2>1. Continue(c, Rested)
      BY <1>2, <1>5, RestedIsACall DEF ReadPending
    <2>2. caller'[c] = Rested
      BY <2>1, RestedIsACall, CallSet DEF SmsInv
    <2>3. HasInHand(c)'
      BY <2>2, RestedIsACall DEF HasInHand, CallAt
    <2>4. QED
      BY <1>1, <2>1, <2>3, RestedIsACall, CallOnly
  <1>6. QED
    BY <1>4, <1>5

\* The row is marked Queued.
LEMMA MarksInOrder ==
    ASSUME SmsInv, Ticks, NEW c \in Callers, MarkQueued(c)
    PROVE  SmsInv'
  <1>1. /\ caller[c] \in Call /\ caller[c].step = "mark" /\ HasInHand(c)
        /\ UNCHANGED <<campaigns, jobs, faults>>
    BY DEF MarkQueued, CallAt, SmsInv, SmsTypes, Orderly
  <1>2. PICK head : head = Head(caller[c].todo)
    OBVIOUS
  <1>3. head \in DOMAIN logs /\ logs[head].queue # "bulk-sms"
    BY <1>1, <1>2 DEF HasInHand, CallAt, Call
  <1>4. PICK row : row = [logs[head] EXCEPT !.status = "Queued"]
    OBVIOUS
  <1>5. logs[head] \in SmsLog
    BY <1>3 DEF SmsInv, SmsTypes
  <1>6. /\ row \in SmsLog /\ row.status = "Queued"
        /\ row.queue = logs[head].queue /\ row.accepted = logs[head].accepted
    BY <1>4, <1>5 DEF SmsLog, LogStatuses
  <1>7. /\ logs' \in Seq(SmsLog) /\ DOMAIN logs' = DOMAIN logs
        /\ logs'[head] = row /\ \A i \in DOMAIN logs \ {head} : logs'[i] = logs[i]
    <2>1. logs' = [logs EXCEPT ![head] = row]
      BY <1>2, <1>4 DEF MarkQueued
    <2>2. QED
      BY <1>3, <1>6, <2>1, LogSet DEF SmsInv, SmsTypes
  <1>8. PICK call : call = [caller[c] EXCEPT !.step = "add"]
    OBVIOUS
  <1>9. call \in Call /\ call.step = "add" /\ call.todo = caller[c].todo
    BY <1>1, <1>8 DEF Call, CallSteps
  <1>10. Continue(c, call)
    BY <1>8 DEF MarkQueued
  <1>11. caller'[c] = call /\ MoverOnly(c)
    BY <1>1, <1>9, <1>10, CallSet DEF SmsInv, MoverOnly, CallAt
  <1>12. CallWrites
    BY <1>1, <1>3, <1>6, <1>7 DEF CallWrites, SmsInv, SmsTypes
  <1>13. HasInHand(c)'
    BY <1>1, <1>2, <1>3, <1>6, <1>7, <1>9, <1>11 DEF HasInHand, CallAt
  <1>14. CampaignsOwnRows'
    BY <1>1, <1>12 DEF SmsInv, Orderly, CampaignsOwnRows, CallWrites
  <1>15. calm => /\ Unjobbed
                 /\ ~HasJob(head)'
                 /\ logs'[head].status = "Queued"
    <2>1. ASSUME calm
          PROVE  ~HasJob(head)
      BY <1>1, <1>2, <2>1 DEF SmsInv, NothingTakenTwice, CallAt
    <2>2. ASSUME calm
          PROVE  Unjobbed
      BY <1>1, <1>6, <1>7, <2>1, <2>2 DEF Unjobbed, SmsInv, NothingTakenTwice, NotTaken
    <2>3. HasJob(head)' <=> HasJob(head)
      BY <1>1 DEF HasJob
    <2>4. QED
      BY <1>6, <1>7, <2>1, <2>2, <2>3
  <1>16. QED
    BY <1>1, <1>2, <1>9, <1>10, <1>11, <1>12, <1>13, <1>14, <1>15, CallKeeps

\* A row of its own, with no job yet, is added to the log.
LEMMA OneRowAdded ==
    ASSUME SmsInv, NEW queue \in {"sms", "email"}, NEW status \in {"Pending", "Queued"},
           NewRows(queue, status, 1), UNCHANGED <<campaigns, jobs, faults>>
    PROVE  /\ CallWrites /\ CampaignsOwnRows'
           /\ calm => Unjobbed
           /\ \E new \in Nat :
                /\ new = Len(logs) + 1 /\ new \in DOMAIN logs'
                /\ logs'[new].queue = queue /\ logs'[new].status = status
                /\ \A j \in DOMAIN jobs' : new \notin jobs'[j].rows
  <1>1. PICK new : new = Len(logs) + 1
    OBVIOUS
  <1>2. /\ logs' \in Seq(SmsLog)
        /\ DOMAIN logs' = DOMAIN logs \cup {Len(logs) + i : i \in 1 .. 1}
        /\ \A i \in DOMAIN logs : logs'[i] = logs[i] /\ i <= Len(logs)
        /\ \A i \in 1 .. 1 :
             /\ Len(logs) + i \in Nat \ DOMAIN logs
             /\ logs'[Len(logs) + i] = [queue |-> queue, status |-> status, accepted |-> 0]
    <2>1. logs \in Seq(SmsLog) /\ queue \in Queues /\ status \in LogStatuses /\ 1 \in Nat
      BY DEF SmsInv, SmsTypes, Queues, LogStatuses
    <2>2. QED
      BY <2>1, RowsAdded, Zenon
  <1>3. /\ DOMAIN logs' = DOMAIN logs \cup {new} /\ new \in Nat \ DOMAIN logs
        /\ logs'[new] = [queue |-> queue, status |-> status, accepted |-> 0]
    <2>1. \A i \in 1 .. 1 : i = 1
      OBVIOUS
    <2>2. 1 \in 1 .. 1
      OBVIOUS
    <2>3. QED
      BY <1>1, <1>2, <2>1, <2>2
  <1>4. CallWrites
    BY <1>2, <1>3 DEF CallWrites, SmsInv, SmsTypes
  <1>5. CampaignsOwnRows'
    BY <1>2, <1>3 DEF SmsInv, Orderly, CampaignsOwnRows
  <1>6. calm => Unjobbed
    BY <1>2 DEF Unjobbed, SmsInv, NothingTakenTwice, NotTaken
  <1>7. \A j \in DOMAIN jobs' : new \notin jobs'[j].rows
    BY <1>3, RowsApart DEF SmsInv
  <1>8. QED
    BY <1>1, <1>3, <1>4, <1>5, <1>6, <1>7

\* queueSms and queueEmail.
LEMMA QueuesInOrder ==
    ASSUME SmsInv, Ticks, NEW c \in Callers, NEW queue \in {"sms", "email"},
           QueueMessage(c, queue)
    PROVE  SmsInv'
  <1>1. CallWrites /\ CampaignsOwnRows' /\ (calm => Unjobbed)
    BY OneRowAdded DEF QueueMessage
  <1>2. PICK new \in Nat :
          /\ new = Len(logs) + 1 /\ new \in DOMAIN logs'
          /\ logs'[new].queue = queue /\ logs'[new].status = "Queued"
          /\ \A j \in DOMAIN jobs' : new \notin jobs'[j].rows
    BY OneRowAdded DEF QueueMessage
  <1>3. PICK todo : todo = NewIds(1)
    OBVIOUS
  <1>4. /\ todo \in Seq(Nat) /\ todo # << >> /\ Head(todo) = new
        /\ \A n \in DOMAIN todo : todo[n] = new
    <2>1. todo = [i \in 1 .. 1 |-> Len(logs) + i]
      BY <1>3 DEF NewIds
    <2>2. todo = <<new>>
      BY <1>2, <2>1
    <2>3. QED
      BY <2>2
  <1>5. PICK call : call = [Rested EXCEPT !.step = "add", !.queue = queue, !.todo = todo]
    OBVIOUS
  <1>6. call \in Call /\ call.step = "add" /\ call.todo = todo
    BY <1>4, <1>5 DEF Rested, Call, CallSteps
  <1>7. Continue(c, call) /\ caller[c].step = "idle" /\ UNCHANGED <<campaigns, jobs, faults>>
    BY <1>3, <1>5 DEF QueueMessage, CallAt
  <1>8. caller'[c] = call /\ MoverOnly(c)
    BY <1>6, <1>7, CallSet DEF SmsInv, MoverOnly, CallAt
  <1>9. HasInHand(c)'
    BY <1>2, <1>4, <1>6, <1>8 DEF HasInHand, CallAt
  <1>10. ~HasJob(Head(todo))'
    BY <1>2, <1>3, <1>4 DEF HasJob, QueueMessage
  <1>11. QED
    BY <1>1, <1>2, <1>4, <1>6, <1>7, <1>8, <1>9, <1>10, CallKeeps

\* logPendingSms.
LEMMA PendingInOrder ==
    ASSUME SmsInv, Ticks, LogPendingSms
    PROVE  SmsInv'
  <1>1. /\ CallWrites /\ CampaignsOwnRows'
        /\ calm => Unjobbed
        /\ UNCHANGED <<campaigns, jobs, caller, faults>>
    BY OneRowAdded DEF LogPendingSms
  <1>2. SmsTypes'
    BY <1>1 DEF SmsInv, SmsTypes, CallWrites, AtWork, Ticks
  <1>3. PICK nobody : nobody = Callers
    OBVIOUS
  <1>4. ASSUME NEW d \in Callers
        PROVE  HasInHand(d)'
    <2>1. HasInHand(d) /\ caller'[d] = caller[d] /\ caller[d] \in Call
      BY <1>1 DEF SmsInv, SmsTypes, Orderly
    <2>2. CASE CallAt(d, "read") \/ CallAt(d, "mark") \/ CallAt(d, "add")
      <3>1. /\ Head(caller[d].todo) = caller[d].todo[1] /\ 1 \in DOMAIN caller[d].todo
            /\ \A n \in DOMAIN caller[d].todo : caller[d].todo[n] \in DOMAIN logs
        BY <2>1, <2>2 DEF HasInHand, Call
      <3>2. QED
        BY <1>1, <2>1, <2>2, <3>1 DEF HasInHand, CallAt, CallWrites
    <2>3. QED
      BY <1>1, <2>1, <2>2 DEF HasInHand, CallAt
  <1>5. MoverOnly(nobody)
    BY <1>1, <1>2, <1>4 DEF MoverOnly, SmsTypes, CallAt, HasInHand, SmsInv, Orderly
  <1>6. Orderly'
    BY <1>1, <1>4, <1>5, CallKeepsOrder DEF SmsInv
  <1>7. ASSUME calm'
        PROVE  NothingTakenTwice'
    <2>1. calm /\ NothingTakenTwice
      BY <1>7 DEF SmsInv, Ticks
    <2>2. ASSUME NEW d \in Callers
          PROVE  /\ CallAt(d, "mark")' \/ CallAt(d, "add")' => ~HasJob(Head(caller[d].todo))'
                 /\ CallAt(d, "add")' => logs'[Head(caller'[d].todo)].status = "Queued"
      <3>1. HasInHand(d) /\ caller[d] \in Call
        BY DEF SmsInv, SmsTypes, Orderly
      <3>2. \A i : HasJob(i)' <=> HasJob(i)
        BY <1>1 DEF HasJob
      <3>3. CallAt(d, "add") => Head(caller[d].todo) \in DOMAIN logs
        BY <3>1 DEF HasInHand, Call
      <3>4. QED
        BY <1>1, <2>1, <3>2, <3>3 DEF NothingTakenTwice, CallAt, LogPendingSms, NewRows
    <2>3. QED
      BY <1>1, <2>1, <2>2, CallKeepsCalm DEF SmsInv, NothingTakenTwice, AtWork
  <1>8. QED
    BY <1>2, <1>6, <1>7 DEF SmsInv

\* The job of one message is added.
LEMMA AddsInOrder ==
    ASSUME SmsInv, Ticks, NEW c \in Callers, AddMessageJob(c)
    PROVE  SmsInv'
  <1>1. /\ caller[c] \in Call /\ caller[c].step = "add" /\ HasInHand(c)
        /\ UNCHANGED <<logs, campaigns, faults>>
    BY DEF AddMessageJob, CallAt, SmsInv, SmsTypes, Orderly
  <1>2. PICK todo \in Seq(Nat) : todo = caller[c].todo
    BY <1>1 DEF Call
  <1>3. PICK head : head = Head(todo)
    OBVIOUS
  <1>4. PICK rest : rest = Tail(todo)
    OBVIOUS
  <1>5. /\ head \in DOMAIN logs /\ logs[head].queue # "bulk-sms"
        /\ rest \in Seq(Nat) /\ \A n \in DOMAIN rest : rest[n] \in DOMAIN logs
    <2>1. todo # << >> /\ \A n \in DOMAIN todo : todo[n] \in DOMAIN logs
      BY <1>1, <1>2 DEF HasInHand, CallAt
    <2>2. rest \in Seq(Nat) /\ \A n \in DOMAIN rest : n + 1 \in DOMAIN todo /\ rest[n] = todo[n + 1]
      BY <1>4, <2>1
    <2>3. QED
      BY <1>1, <1>2, <1>3, <2>1, <2>2 DEF HasInHand, CallAt
  <1>6. PICK rows \in SUBSET Nat : rows = {head}
    <2>1. head \in Nat
      BY <1>5 DEF SmsInv, SmsTypes
    <2>2. {head} \in SUBSET Nat
      BY <2>1
    <2>3. QED
      BY <2>2
  <1>7. PICK queue \in Queues : queue = caller[c].queue
    BY <1>1 DEF Call, Queues
  <1>8. AddJob(queue, rows, 0)
    BY <1>2, <1>3, <1>6, <1>7 DEF AddMessageJob
  <1>9. PICK new :
          /\ jobs' \in Seq(SmsJob)
          /\ DOMAIN jobs' = DOMAIN jobs \cup {new} /\ new \notin DOMAIN jobs
          /\ \A j \in DOMAIN jobs : jobs'[j] = jobs[j]
          /\ jobs'[new].rows = rows /\ jobs'[new].campaign = 0
          /\ jobs'[new].state = "waiting"
    <2>1. jobs \in Seq(SmsJob) /\ 0 \in Nat
      BY DEF SmsInv, SmsTypes
    <2>2. PICK new : new = Len(jobs) + 1
      OBVIOUS
    <2>3. /\ jobs' \in Seq(SmsJob)
          /\ DOMAIN jobs' = DOMAIN jobs \cup {new} /\ new \notin DOMAIN jobs
          /\ \A j \in DOMAIN jobs : jobs'[j] = jobs[j]
          /\ JobFor(jobs'[new], rows, 0)
      BY <1>6, <1>7, <1>8, <2>1, <2>2, JobAdded
    <2>4. QED
      BY <2>3 DEF JobFor
  <1>10. CallWrites
    BY <1>1, <1>9 DEF CallWrites, SmsInv, SmsTypes
  <1>11. CampaignsOwnRows'
    BY <1>1 DEF SmsInv, Orderly, CampaignsOwnRows
  <1>12. JobOwnsRows(new)'
    BY <1>1, <1>5, <1>6, <1>9 DEF JobOwnsRows
  <1>13. PICK call \in Call :
           /\ Continue(c, call)
           /\ \/ call.step = "idle"
              \/ call.step = "read" /\ call.todo = rest /\ rest # << >>
    <2>1. CASE rest = << >>
      BY <1>2, <1>4, <2>1, RestedIsACall DEF AddMessageJob
    <2>2. CASE rest # << >>
      <3>1. PICK call : call = [caller[c] EXCEPT !.step = "read", !.todo = rest]
        OBVIOUS
      <3>2. call \in Call /\ call.step = "read" /\ call.todo = rest
        BY <1>1, <1>5, <3>1 DEF Call, CallSteps
      <3>3. Continue(c, call)
        BY <1>2, <1>4, <2>2, <3>1 DEF AddMessageJob
      <3>4. QED
        BY <2>2, <3>2, <3>3
    <2>3. QED
      BY <2>1, <2>2
  <1>14. caller'[c] = call
    BY <1>13, CallSet DEF SmsInv
  <1>15. MoverOnly(c)
    BY <1>9, <1>13, <1>14, CallSet DEF SmsInv, MoverOnly, CallAt
  <1>16. HasInHand(c)'
    BY <1>1, <1>5, <1>13, <1>14 DEF HasInHand, CallAt
  <1>17. ASSUME calm
         PROVE  Unjobbed
    <2>1. /\ ~HasJob(head) /\ logs[head].status = "Queued"
          /\ \A i \in DOMAIN logs : ~HasJob(i) => logs[i].status \in {"Pending", "Queued"}
      BY <1>1, <1>2, <1>3, <1>17 DEF SmsInv, NothingTakenTwice, NotTaken, CallAt
    <2>2. QED
      BY <1>1, <1>5, <1>6, <1>9, <2>1 DEF Unjobbed
  <1>18. QED
    BY <1>1, <1>9, <1>10, <1>11, <1>12, <1>13, <1>15, <1>16, <1>17, CallKeeps

\* sendBulk: the campaign is saved.
LEMMA BulkInOrder ==
    ASSUME SmsInv, Ticks, NEW c \in Callers, SendBulk(c)
    PROVE  SmsInv'
  <1>1. caller[c].step = "idle" /\ UNCHANGED <<logs, jobs, faults>>
    BY DEF SendBulk, CallAt
  <1>2. PICK row : row = [status |-> "Queued", rows |-> {}, sentCount |-> 0, failedCount |-> 0]
    OBVIOUS
  <1>3. row \in Campaign /\ row.status = "Queued" /\ row.rows = {}
    BY <1>2 DEF Campaign
  <1>4. PICK new \in Nat : new = Len(campaigns) + 1
    BY DEF SmsInv, SmsTypes
  <1>5. /\ campaigns' \in Seq(Campaign) /\ campaigns'[new] = row
        /\ DOMAIN campaigns' = DOMAIN campaigns \cup {new} /\ new \notin DOMAIN campaigns
        /\ \A k \in DOMAIN campaigns : campaigns'[k] = campaigns[k]
    <2>1. campaigns' = Append(campaigns, row) /\ campaigns \in Seq(Campaign)
      BY <1>2 DEF SendBulk, SmsInv, SmsTypes
    <2>2. QED
      BY <1>3, <1>4, <2>1
  <1>6. PICK call : call = [Rested EXCEPT !.step = "rows", !.campaign = new]
    OBVIOUS
  <1>7. call \in Call /\ call.step = "rows" /\ call.campaign = new
    <2>1. << >> \in Seq(Nat)
      OBVIOUS
    <2>2. QED
      BY <1>6, <2>1 DEF Rested, Call, CallSteps
  <1>8. Continue(c, call) /\ caller'[c] = call
    BY <1>4, <1>6, <1>7, CallSet DEF SendBulk, SmsInv
  <1>9. CallWrites
    BY <1>1, <1>3, <1>5 DEF CallWrites, SmsInv, SmsTypes
  <1>10. MoverOnly(c)
    BY <1>1, <1>5, <1>7, <1>8, CallSet DEF SmsInv, MoverOnly, CallAt
  <1>11. CampaignsOwnRows'
    BY <1>1, <1>3, <1>5 DEF SmsInv, Orderly, CampaignsOwnRows
  <1>12. HasInHand(c)'
    <2>1. \A j \in DOMAIN jobs : jobs[j].campaign # new
      BY <1>4, <1>5 DEF SmsInv, Orderly, JobOwnsRows
    <2>2. ASSUME NEW d \in Callers \ {c}, CallAt(d, "rows")' \/ CallAt(d, "job")'
          PROVE  caller'[d].campaign # new
      <3>1. caller'[d] = caller[d] /\ HasInHand(d)
        BY <1>10 DEF MoverOnly, SmsInv, Orderly
      <3>2. QED
        BY <1>5, <2>2, <3>1 DEF HasInHand, CallAt
    <2>3. QED
      BY <1>1, <1>3, <1>5, <1>7, <1>8, <2>1, <2>2 DEF HasInHand, CallAt
  <1>13. calm => Unjobbed
    BY <1>1 DEF Unjobbed, SmsInv, NothingTakenTwice, NotTaken
  <1>14. QED
    BY <1>1, <1>7, <1>8, <1>9, <1>10, <1>11, <1>12, <1>13, CallKeeps

\* Its rows are saved.
LEMMA CampaignRowsInOrder ==
    ASSUME SmsInv, Ticks, NEW c \in Callers, SaveCampaignRows(c)
    PROVE  SmsInv'
  <1>1. /\ caller[c] \in Call /\ caller[c].step = "rows" /\ HasInHand(c)
        /\ UNCHANGED <<jobs, faults>>
    BY DEF SaveCampaignRows, CallAt, SmsInv, SmsTypes, Orderly
  <1>2. PICK k \in DOMAIN campaigns : k = caller[c].campaign
    BY <1>1 DEF HasInHand, CallAt
  <1>3. campaigns[k].status = "Queued" /\ \A j \in DOMAIN jobs : jobs[j].campaign # k
    BY <1>1, <1>2 DEF HasInHand, CallAt
  <1>4. PICK rows : rows = {Len(logs) + i : i \in 1 .. Recipients}
    OBVIOUS
  <1>5. ToSet(NewIds(Recipients)) = rows
    BY <1>4 DEF ToSet, NewIds
  <1>6. /\ logs' \in Seq(SmsLog) /\ DOMAIN logs' = DOMAIN logs \cup rows
        /\ \A i \in DOMAIN logs : logs'[i] = logs[i]
        /\ \A i \in rows :
             /\ i \in Nat \ DOMAIN logs
             /\ logs'[i] = [queue |-> "bulk-sms", status |-> "Queued", accepted |-> 0]
    <2>1. /\ logs \in Seq(SmsLog) /\ "bulk-sms" \in Queues /\ "Queued" \in LogStatuses
          /\ NewRows("bulk-sms", "Queued", Recipients)
      BY DEF SmsInv, SmsTypes, Queues, LogStatuses, SaveCampaignRows
    <2>2. /\ logs' \in Seq(SmsLog)
          /\ DOMAIN logs' = DOMAIN logs \cup {Len(logs) + i : i \in 1 .. Recipients}
          /\ \A i \in DOMAIN logs : logs'[i] = logs[i] /\ i <= Len(logs)
          /\ \A i \in 1 .. Recipients :
               /\ Len(logs) + i \in Nat \ DOMAIN logs
               /\ logs'[Len(logs) + i]
                    = [queue |-> "bulk-sms", status |-> "Queued", accepted |-> 0]
      BY <2>1, SmsAssumption, RowsAdded, Zenon
    <2>3. QED
      BY <1>4, <2>2
  <1>7. PICK row : row = [campaigns[k] EXCEPT !.rows = rows]
    OBVIOUS
  <1>8. campaigns[k] \in Campaign /\ rows \subseteq Nat
    BY <1>6 DEF SmsInv, SmsTypes
  <1>9. row \in Campaign /\ row.rows = rows /\ row.status = "Queued"
    BY <1>3, <1>7, <1>8 DEF Campaign
  <1>10. /\ campaigns' \in Seq(Campaign) /\ DOMAIN campaigns' = DOMAIN campaigns
         /\ campaigns'[k] = row /\ \A l \in DOMAIN campaigns \ {k} : campaigns'[l] = campaigns[l]
    <2>1. campaigns' = [campaigns EXCEPT ![k] = row]
      BY <1>2, <1>5, <1>7 DEF SaveCampaignRows
    <2>2. QED
      BY <1>9, <2>1, CampaignSet DEF SmsInv
  <1>11. PICK call : call = [caller[c] EXCEPT !.step = "job"]
    OBVIOUS
  <1>12. call \in Call /\ call.step = "job" /\ call.campaign = k
    BY <1>1, <1>2, <1>11 DEF Call, CallSteps
  <1>13. Continue(c, call) /\ caller'[c] = call
    BY <1>11, <1>12, CallSet DEF SaveCampaignRows, SmsInv
  <1>14. CallWrites
    BY <1>1, <1>3, <1>6, <1>9, <1>10 DEF CallWrites, SmsInv, SmsTypes
  <1>15. MoverOnly(c)
    BY <1>1, <1>2, <1>12, <1>13, CallSet DEF SmsInv, MoverOnly, CallAt
  <1>16. CampaignsOwnRows'
    <2>1. ASSUME NEW l \in DOMAIN campaigns
          PROVE  \A i \in campaigns'[l].rows :
                   /\ i \in DOMAIN logs' /\ logs'[i].queue = "bulk-sms"
                   /\ IF l = k THEN i \notin DOMAIN logs
                      ELSE i \in DOMAIN logs /\ i \in campaigns[l].rows
      BY <1>6, <1>9, <1>10 DEF SmsInv, Orderly, CampaignsOwnRows
    <2>2. QED
      BY <1>10, <2>1 DEF SmsInv, Orderly, CampaignsOwnRows
  <1>17. HasInHand(c)'
    <2>1. ASSUME NEW d \in Callers \ {c}, CallAt(d, "rows")' \/ CallAt(d, "job")'
          PROVE  caller'[d].campaign # k
      BY <1>1, <1>2, <1>15, <2>1 DEF HasInHand, CallAt, MoverOnly
    <2>2. QED
      BY <1>1, <1>3, <1>9, <1>10, <1>12, <1>13, <2>1 DEF HasInHand, CallAt
  <1>18. calm => Unjobbed
    BY <1>1, <1>6 DEF Unjobbed, SmsInv, NothingTakenTwice, NotTaken
  <1>19. QED
    BY <1>1, <1>12, <1>13, <1>14, <1>15, <1>16, <1>17, <1>18, CallKeeps

\* Its one job is added.
LEMMA CampaignJobInOrder ==
    ASSUME SmsInv, Ticks, NEW c \in Callers, AddCampaignJob(c)
    PROVE  SmsInv'
  <1>1. /\ caller[c] \in Call /\ caller[c].step = "job" /\ HasInHand(c)
        /\ UNCHANGED <<logs, campaigns, faults>>
    BY DEF AddCampaignJob, CallAt, SmsInv, SmsTypes, Orderly
  <1>2. PICK k \in DOMAIN campaigns : k = caller[c].campaign
    BY <1>1 DEF HasInHand, CallAt
  <1>3. k \in Nat /\ k # 0 /\ \A j \in DOMAIN jobs : jobs[j].campaign # k
    BY <1>1, <1>2 DEF HasInHand, CallAt, SmsInv, SmsTypes
  <1>4. PICK rows \in SUBSET Nat : rows = campaigns[k].rows
    <2>1. campaigns[k] \in Campaign
      BY DEF SmsInv, SmsTypes
    <2>2. campaigns[k].rows \in SUBSET Nat
      BY <2>1 DEF Campaign
    <2>3. QED
      BY <2>2
  <1>5. AddJob("bulk-sms", rows, k) /\ Continue(c, Rested)
    BY <1>2, <1>4, RestedIsACall DEF AddCampaignJob
  <1>6. PICK new :
          /\ jobs' \in Seq(SmsJob)
          /\ DOMAIN jobs' = DOMAIN jobs \cup {new} /\ new \notin DOMAIN jobs
          /\ \A j \in DOMAIN jobs : jobs'[j] = jobs[j]
          /\ jobs'[new].rows = rows /\ jobs'[new].campaign = k
          /\ jobs'[new].state = "waiting"
    <2>1. jobs \in Seq(SmsJob) /\ "bulk-sms" \in Queues
      BY DEF SmsInv, SmsTypes, Queues
    <2>2. PICK new : new = Len(jobs) + 1
      OBVIOUS
    <2>3. /\ jobs' \in Seq(SmsJob)
          /\ DOMAIN jobs' = DOMAIN jobs \cup {new} /\ new \notin DOMAIN jobs
          /\ \A j \in DOMAIN jobs : jobs'[j] = jobs[j]
          /\ JobFor(jobs'[new], rows, k)
      BY <1>3, <1>4, <1>5, <2>1, <2>2, JobAdded
    <2>4. QED
      BY <2>3 DEF JobFor
  <1>7. CallWrites
    BY <1>1, <1>6 DEF CallWrites, SmsInv, SmsTypes
  <1>8. CampaignsOwnRows'
    BY <1>1 DEF SmsInv, Orderly, CampaignsOwnRows
  <1>9. JobOwnsRows(new)'
    BY <1>1, <1>3, <1>4, <1>6 DEF JobOwnsRows
  <1>10. caller'[c] = Rested
    BY <1>5, RestedIsACall, CallSet DEF SmsInv
  <1>11. MoverOnly(c)
    BY <1>1, <1>2, <1>5, <1>6, <1>10, RestedIsACall, CallSet DEF SmsInv, MoverOnly, CallAt
  <1>12. HasInHand(c)'
    BY <1>10, RestedIsACall DEF HasInHand, CallAt
  <1>13. ASSUME calm
         PROVE  Unjobbed
    <2>1. ASSUME NEW i \in rows
          PROVE  /\ i \in DOMAIN logs /\ logs[i].queue = "bulk-sms"
                 /\ ~HasJob(i)
      <3>1. i \in DOMAIN logs /\ logs[i].queue = "bulk-sms"
        BY <1>4, <2>1 DEF SmsInv, Orderly, CampaignsOwnRows
      <3>2. \A j \in DOMAIN jobs : i \notin jobs[j].rows
        BY <1>3, <1>4, <2>1, RowsApart DEF SmsInv
      <3>3. QED
        BY <3>1, <3>2 DEF HasJob
    <2>2. \A i \in DOMAIN logs : ~HasJob(i) => logs[i].status \in {"Pending", "Queued"}
      BY <1>13 DEF SmsInv, NothingTakenTwice, NotTaken
    <2>3. \A i \in rows : logs[i].status = "Queued"
      BY <2>1, <2>2 DEF SmsInv, Orderly, PendingIsSingle
    <2>4. QED
      BY <1>1, <1>6, <2>1, <2>2, <2>3 DEF Unjobbed
  <1>14. QED
    BY <1>1, <1>5, <1>6, <1>7, <1>8, <1>9, <1>11, <1>12, <1>13, RestedIsACall, CallKeeps

\* A restart, which is not in order: what it interrupts starts over.
LEMMA CrashKeeps ==
    ASSUME SmsInv, Ticks, SmsCrash
    PROVE  SmsInv'
  <1>1. ~calm'
    <2>1. faults \in Nat /\ faults' = faults + 1 /\ (calm' => faults' = 0)
      BY DEF SmsCrash, SmsInv, SmsTypes, Ticks
    <2>2. QED
      BY <2>1
  <1>2. \A c \in Callers : caller'[c] = Rested
    BY DEF SmsCrash
  <1>3. AtWork' = {}
    BY <1>2, RestedIsACall DEF AtWork
  <1>4. caller' \in [Callers -> Call] /\ IsFiniteSet(AtWork')
    BY <1>3, RestedIsACall, FS_EmptySet DEF SmsCrash
  <1> DEFINE After(j) == IF Active(j) THEN [jobs[j] EXCEPT !.state = "waiting", !.outcome = << >>]
                         ELSE jobs[j]
  <1>5. jobs' = [j \in DOMAIN jobs |-> After(j)]
    BY DEF SmsCrash
  <1>6. ASSUME NEW j \in DOMAIN jobs
        PROVE  /\ After(j) \in SmsJob
               /\ After(j).rows = jobs[j].rows /\ After(j).campaign = jobs[j].campaign
               /\ After(j).state = IF jobs[j].state = "done" THEN "done" ELSE "waiting"
    <2>1. jobs[j] \in SmsJob
      BY DEF SmsInv, SmsTypes
    <2>2. PICK none : none = << >>
      OBVIOUS
    <2>3. none \in JobOutcomes
      BY <2>2 DEF JobOutcomes
    <2>4. PICK job : job = [jobs[j] EXCEPT !.state = "waiting", !.outcome = none]
      OBVIOUS
    <2>5. /\ job \in SmsJob /\ job.state = "waiting"
          /\ job.rows = jobs[j].rows /\ job.campaign = jobs[j].campaign
      BY <2>1, <2>3, <2>4 DEF SmsJob, JobStates
    <2>6. After(j) = IF Active(j) THEN job ELSE jobs[j]
      BY <2>2, <2>4
    <2>7. QED
      BY <2>1, <2>5, <2>6 DEF Active
  <1> HIDE DEF After
  <1>7. jobs' \in Seq(SmsJob) /\ DOMAIN jobs' = DOMAIN jobs
    <2>1. DOMAIN jobs = 1 .. Len(jobs) /\ Len(jobs) \in Nat
      BY DEF SmsInv, SmsTypes
    <2>2. jobs' \in [1 .. Len(jobs) -> SmsJob]
      BY <1>5, <1>6, <2>1
    <2>3. QED
      BY <1>5, <2>1, <2>2, SeqDef
  <1>8. \A j \in DOMAIN jobs :
          /\ jobs'[j].rows = jobs[j].rows /\ jobs'[j].campaign = jobs[j].campaign
          /\ jobs'[j].state = IF jobs[j].state = "done" THEN "done" ELSE "waiting"
    BY <1>5, <1>6
  <1>9. UNCHANGED <<logs, campaigns>>
    BY DEF SmsCrash
  <1>10. SmsTypes'
    BY <1>4, <1>7, <1>9 DEF SmsInv, SmsTypes, Ticks
  <1>11. CampaignsOwnRows' /\ PendingIsSingle'
    BY <1>9 DEF SmsInv, Orderly, CampaignsOwnRows, PendingIsSingle
  <1>12. ASSUME NEW j \in DOMAIN jobs
         PROVE  JobOwnsRows(j)' /\ Answered(j)'
    <2>1. JobOwnsRows(j)
      BY DEF SmsInv, Orderly
    <2>2. JobOwnsRows(j)'
      BY <1>7, <1>8, <1>9, <2>1 DEF JobOwnsRows
    <2>3. QED
      BY <1>8, <2>2 DEF Answered
  <1>13. \A c \in Callers : HasInHand(c)'
    BY <1>2, RestedIsACall DEF HasInHand, CallAt
  <1>14. \A k \in DOMAIN campaigns : CountsAgree(k)'
    <2>1. ASSUME NEW k \in DOMAIN campaigns
          PROVE  CountsAgree(k)'
      <3>1. CountsAgree(k)
        BY DEF SmsInv, Orderly
      <3>2. QED
        BY <1>7, <1>8, <1>9, <3>1 DEF CountsAgree
    <2>2. QED
      BY <2>1
  <1>15. Orderly'
    BY <1>7, <1>9, <1>11, <1>12, <1>13, <1>14 DEF Orderly
  <1>16. QED
    BY <1>1, <1>10, <1>15 DEF SmsInv

\* Every step keeps the invariant.
LEMMA SmsStepKeeps ==
    ASSUME SmsInv, SmsNext
    PROVE  SmsInv'
  <1>1. Ticks
    <2>1. faults' \in Nat
      <3>1. UNCHANGED faults \/ faults' = faults + 1
        BY DEF SmsNext, SmsStep, LogPendingSms, CallStep, QueueMessage, SendPendingSms,
               SendAllPending, ReadPending, MarkQueued, AddMessageJob, SendBulk,
               SaveCampaignRows, AddCampaignJob, TakeJob, WorkerStep, GatewayAnswers,
               GatewayThrows, RecordResult, CountCampaign, RecordThrown, AnswerLost, SmsCrash
      <3>2. QED
        BY <3>1 DEF SmsInv, SmsTypes
    <2>2. calm' \in BOOLEAN /\ (calm' => calm /\ faults' = 0 /\ Cardinality(AtWork') <= 1)
      BY DEF SmsNext, AtWork, SmsInv, SmsTypes
    <2>3. QED
      BY <2>1, <2>2 DEF Ticks
  <1>2. ASSUME NEW c \in Callers, CallStep(c)
        PROVE  SmsInv'
    BY <1>1, <1>2, QueuesInOrder, OneIsReleased, ListIsReleased, ReadsInOrder, MarksInOrder,
       AddsInOrder, BulkInOrder, CampaignRowsInOrder, CampaignJobInOrder DEF CallStep
  <1>3. ASSUME NEW j \in DOMAIN jobs, TakeJob(j) \/ WorkerStep(j) \/ AnswerLost(j)
        PROVE  SmsInv'
    BY <1>1, <1>3, TakesInOrder, AnswersInOrder, ThrowsInOrder, RecordsInOrder, CountsInOrder,
       FailsInOrder, LossInOrder DEF WorkerStep
  <1>4. QED
    BY <1>1, <1>2, <1>3, PendingInOrder, CrashKeeps DEF SmsNext, SmsStep

\* Nothing is there at first.
LEMMA SmsStarts == SmsInit => SmsInv
  <1>1. SUFFICES ASSUME SmsInit
                 PROVE  SmsInv
    OBVIOUS
  <1>2. \A c \in Callers : caller[c] = Rested
    BY <1>1 DEF SmsInit
  <1>3. AtWork = {}
    BY <1>2, RestedIsACall DEF AtWork
  <1>4. SmsTypes
    BY <1>1, <1>3, RestedIsACall, FS_EmptySet DEF SmsInit, SmsTypes
  <1>5. DOMAIN logs = {} /\ DOMAIN jobs = {} /\ DOMAIN campaigns = {}
    BY <1>1 DEF SmsInit
  <1>6. \A c \in Callers : HasInHand(c)
    BY <1>2, RestedIsACall DEF HasInHand, CallAt
  <1>7. Orderly
    BY <1>5, <1>6 DEF Orderly, CampaignsOwnRows, PendingIsSingle
  <1>8. NothingTakenTwice
    BY <1>1, <1>2, <1>3, <1>5, RestedIsACall DEF SmsInit, NothingTakenTwice, CallAt
  <1>9. QED
    BY <1>4, <1>7, <1>8 DEF SmsInv

\* sendPendingSms, "it may have already been sent", the adapter's "do not retry" and
\* the counts of bulk-sms.processor: whatever the number of callers, rows, campaigns
\* and jobs, calls that follow each other without a fault make a provider take a
\* message once at most and the row says whether it did; and, retries, restarts, lost
\* answers and calls at once included, a completed campaign counts what its rows say.
THEOREM MessagesAreCounted == SmsSpec => []MessagesCounted
  <1>1. SmsInv => MessagesCounted
    <2>1. SUFFICES ASSUME SmsInv
                   PROVE  SentOnce /\ CampaignCountsRows
      BY DEF MessagesCounted
    <2>2. CampaignCountsRows
      BY <2>1 DEF SmsInv, Orderly, CountsAgree, CampaignCountsRows
    <2>3. ASSUME calm, NEW i \in DOMAIN logs
          PROVE  /\ logs[i].accepted <= 1
                 /\ logs[i].status = "Sent" => logs[i].accepted = 1
                 /\ logs[i].status \in {"Pending", "Failed"} =>
                      \/ logs[i].accepted = 0
                      \/ \E j \in DOMAIN jobs : i \in jobs[j].rows /\ jobs[j].state = "recording"
      <3>1. CASE ~HasJob(i)
        BY <2>1, <2>3, <3>1 DEF SmsInv, NothingTakenTwice, NotTaken
      <3>2. CASE HasJob(i)
        <4>1. PICK j \in DOMAIN jobs : i \in jobs[j].rows
          BY <3>2 DEF HasJob
        <4>2. RowOfJob(j, i)
          BY <2>1, <2>3, <4>1 DEF SmsInv, NothingTakenTwice
        <4>3. QED
          BY <4>1, <4>2 DEF RowOfJob, NotTaken, Told
      <3>3. QED
        BY <3>1, <3>2
    <2>4. QED
      BY <2>2, <2>3 DEF SentOnce
  <1>2. SmsInv /\ [SmsNext]_smsVars => SmsInv'
    <2>1. ASSUME SmsInv, UNCHANGED smsVars
          PROVE  SmsInv'
      <3>1. SmsTypes'
        BY <2>1 DEF smsVars, SmsInv, SmsTypes, AtWork
      <3>2. Orderly'
        <4>1. CampaignsOwnRows' /\ PendingIsSingle'
          BY <2>1 DEF smsVars, SmsInv, Orderly, CampaignsOwnRows, PendingIsSingle
        <4>2. \A j \in DOMAIN jobs : JobOwnsRows(j)' /\ Answered(j)'
          BY <2>1 DEF smsVars, SmsInv, Orderly, JobOwnsRows, Answered
        <4>3. \A c \in Callers : HasInHand(c)'
          BY <2>1 DEF smsVars, SmsInv, Orderly, HasInHand, CallAt
        <4>4. \A k \in DOMAIN campaigns : CountsAgree(k)'
          BY <2>1 DEF smsVars, SmsInv, Orderly, CountsAgree
        <4>5. QED
          BY <2>1, <4>1, <4>2, <4>3, <4>4 DEF smsVars, Orderly
      <3>3. (calm => NothingTakenTwice)'
        BY <2>1
        DEF smsVars, SmsInv, NothingTakenTwice, AtWork, HasJob, NotTaken, Told, RowOfJob, CallAt
      <3>4. QED
        BY <3>1, <3>2, <3>3 DEF SmsInv
    <2>2. QED
      BY <2>1, SmsStepKeeps
  <1>3. QED
    BY <1>1, <1>2, SmsStarts, PTL DEF SmsSpec

-------------------------------------------------------------------------------
(* PolicyLifecycle.                                                         *)

IsCall(c) == c = [step |-> c.step, policy |-> c.policy, read |-> c.read]
IsSweep(s) == s = [step |-> s.step, todo |-> s.todo, at |-> s.at, status |-> s.status]
\* What the sweep listed, and the status it has in hand.
SweepOK(s) ==
    /\ IsSweep(s)
    /\ s.todo \in Seq([policy: Created, row: Row])
    /\ s.step \in {"find", "update"} => s.todo # << >> /\ s.status \in Statuses
\* What a call has read still holds when it writes.
CallOK(c) ==
    /\ IsCall(c)
    /\ c.step # "idle" => c.policy \in Created
    /\ c.step = "renewing" => c.read \in Month /\ c.read >= policy[c.policy].maturity
    /\ c.step = "numbering" => c.read \in Row /\ c.read.maturity = policy[c.policy].maturity
RegisterInv ==
    /\ policy \in [Policies -> Row \cup {NULL}]
    /\ SweepOK(sweep)
    /\ office = [h \in Handlers |-> office[h]]
    /\ \A h \in Handlers : CallOK(office[h])

\* One call of the office at a time.
OneCall == \A g, h \in Handlers : g = h

\* Policies stay, and no maturity is brought forward.
Extends ==
    \A p \in Created : p \in Created' /\ policy'[p].maturity >= policy[p].maturity
\* A step that leaves every maturity as it is.
Keeps ==
    /\ policy' \in [Policies -> Row \cup {NULL}]
    /\ \A p \in Created : p \in Created' /\ policy'[p].maturity = policy[p].maturity

LEMMA CreatedRow ==
    ASSUME RegisterInv, NEW p \in Created
    PROVE  /\ p \in Policies /\ policy[p] \in Row /\ policy[p].maturity \in Nat
           /\ policy[p] = [status |-> policy[p].status, maturity |-> policy[p].maturity]
  <1>1. p \in Policies /\ policy[p] \in Row
    BY DEF Created, RegisterInv
  <1>2. QED
    BY <1>1, PolicyStatusAssumption DEF Row
LEMMA KeepsExtends == ASSUME RegisterInv, Keeps PROVE Extends
  <1>1. ASSUME NEW p \in Created PROVE p \in Created' /\ policy'[p].maturity >= policy[p].maturity
    <2>1. PICK m \in Nat : m = policy[p].maturity
      BY CreatedRow
    <2>2. QED
      BY <2>1 DEF Keeps
  <1>2. QED
    BY <1>1 DEF Extends
LEMMA CallKept ==
    ASSUME Keeps, NEW c, CallOK(c)
    PROVE  CallOK(c)'
  BY DEF Keeps, CallOK
LEMMA SweepKept ==
    ASSUME \A p \in Created : p \in Created', NEW s, SweepOK(s)
    PROVE  SweepOK(s)'
  <1>1. PICK S, T : S = [policy: Created, row: Row] /\ T = [policy: Created', row: Row]
    OBVIOUS
  <1>2. S \subseteq T
    BY <1>1
  <1>3. s.todo \in Seq(T)
    <2>1. s.todo \in Seq(S)
      BY <1>1 DEF SweepOK
    <2>2. QED
      BY <1>2, <2>1
  <1>4. QED
    BY <1>1, <1>3 DEF SweepOK

\* A policy, or none, gets a row of its own.
LEMMA RowWritten ==
    ASSUME RegisterInv, NEW p \in Policies, NEW row \in Row,
           policy' = [policy EXCEPT ![p] = row],
           policy[p] # NULL => row.maturity >= policy[p].maturity
    PROVE  /\ policy' \in [Policies -> Row \cup {NULL}] /\ Extends /\ p \in Created'
           /\ (policy[p] # NULL => row.maturity = policy[p].maturity) => Keeps
  <1>1. row # NULL
    BY PolicyLifecycleAssumption
  <1>2. policy' \in [Policies -> Row \cup {NULL}]
        /\ \A x \in Policies : policy'[x] = IF x = p THEN row ELSE policy[x]
    BY DEF RegisterInv
  <1>3. QED
    BY <1>1, <1>2, CreatedRow DEF Created, Extends, Keeps
LEMMA StatusWritten ==
    ASSUME RegisterInv, NEW p \in Created, NEW status \in AllStatuses,
           policy' = [policy EXCEPT ![p].status = status]
    PROVE  Keeps
  <1>1. PICK row : row = [policy[p] EXCEPT !.status = status]
    OBVIOUS
  <1>2. row \in Row /\ row.maturity = policy[p].maturity /\ policy[p].maturity \in Nat
        /\ p \in Policies
    BY <1>1, CreatedRow DEF Row
  <1>3. policy' = [policy EXCEPT ![p] = row]
    BY <1>1
  <1>4. row.maturity >= policy[p].maturity
    BY <1>2
  <1>5. QED
    BY <1>2, <1>3, <1>4, RowWritten

LEMMA StatusOfRange == \A t, p, r, w : StatusOf(t, p, r, w) \in Statuses
  BY DEF StatusOf, Statuses

LEMMA WorldStep ==
    ASSUME RegisterInv, World
    PROVE  RegisterInv' /\ Extends
  <1>1. UNCHANGED <<sweep, office>>
    BY DEF World, Advance, Create, PayPremium, EditStatus
  <1>2. Keeps
    <2>1. CASE UNCHANGED policy
      BY <2>1 DEF Keeps, RegisterInv, Created
    <2>2. ASSUME NEW p \in Policies, Create(p) PROVE Keeps
      <3>1. PICK row : row = [status |-> "Not Yet Commenced", maturity |-> Book[p].maturity]
        OBVIOUS
      <3>2. row \in Row
        BY <3>1, PolicyLifecycleAssumption DEF Row, AllStatuses, Statuses, Terms
      <3>3. QED
        BY <2>2, <3>1, <3>2, RowWritten DEF Create
    <2>3. ASSUME NEW p \in Policies, NEW status \in OfficeStatus, EditStatus(p, status)
          PROVE  Keeps
      BY <2>3, StatusWritten, PolicyLifecycleAssumption DEF EditStatus, Created
    <2>4. QED
      BY <2>1, <2>2, <2>3 DEF World, Advance, PayPremium
  <1>3. SweepOK(sweep)'
    <2>1. PICK s : s = sweep
      OBVIOUS
    <2>2. QED
      BY <1>1, <1>2, <2>1, SweepKept DEF RegisterInv, Keeps
  <1>4. ASSUME NEW h \in Handlers PROVE CallOK(office[h])'
    <2>1. PICK c : c = office[h]
      OBVIOUS
    <2>2. QED
      BY <1>1, <1>2, <2>1, CallKept DEF RegisterInv
  <1>5. QED
    BY <1>1, <1>2, <1>3, <1>4, KeepsExtends DEF RegisterInv, Keeps

LEMMA SweepStep ==
    ASSUME RegisterInv, IsFiniteSet(Policies), Sweep
    PROVE  RegisterInv' /\ Extends
  <1>1. UNCHANGED office
    BY DEF Sweep, SweepStart, SweepCompute, SweepFind, SweepUpdate
  <1>2. PICK s : s = sweep
    OBVIOUS
  <1>3. SweepOK(s)
    BY <1>2 DEF RegisterInv
  <1>4. s.todo # << >> => /\ Head(s.todo) \in [policy: Created, row: Row]
                          /\ Tail(s.todo) \in Seq([policy: Created, row: Row])
    BY <1>3, HeadTailProperties DEF SweepOK
  <1>5. Keeps
    <2>1. CASE UNCHANGED policy
      BY <2>1 DEF Keeps, RegisterInv, Created
    <2>2. CASE SweepUpdate
      BY <1>2, <1>3, <1>4, <2>2, StatusWritten DEF SweepUpdate, SweepOK, AllStatuses
    <2>3. QED
      BY <2>1, <2>2 DEF Sweep, SweepStart, SweepCompute, SweepFind
  <1>6. ASSUME NEW t, SweepOK(t), sweep' = t PROVE SweepOK(sweep)'
    BY <1>5, <1>6, SweepKept DEF Keeps
  <1>7. SweepOK(NoSweep)
    <2>1. << >> \in Seq([policy: Created, row: Row])
      BY EmptySeq
    <2>2. QED
      BY <2>1 DEF SweepOK, IsSweep, NoSweep
  <1>8. ASSUME s.todo # << >>, NEW t,
               t = [s EXCEPT !.todo = Tail(@)] \/ t = [s EXCEPT !.step = "next", !.todo = Tail(@)],
               s.step = "next" \/ t = [s EXCEPT !.step = "next", !.todo = Tail(@)]
        PROVE  SweepOK(t)
    <2>1. IsSweep(t) /\ t.step = "next" /\ t.todo = Tail(s.todo)
      BY <1>3, <1>8 DEF SweepOK, IsSweep
    <2>2. QED
      BY <1>4, <1>8, <2>1 DEF SweepOK
  <1>9. SweepOK(sweep)'
    <2>1. CASE SweepStart
      <3>1. PICK listed : listed = {p \in Created : policy[p].status # "Cancelled"}
        OBVIOUS
      <3>2. Cardinality(listed) \in Nat
        BY <3>1, FS_Subset, FS_CardinalityType DEF Created
      <3>3. PICK order \in [1 .. Cardinality(listed) -> listed] :
               sweep' = [step |-> "next", at |-> now, status |-> NULL,
                         todo |-> [i \in DOMAIN order |->
                                     [policy |-> order[i], row |-> policy[order[i]]]]]
        BY <2>1, <3>1 DEF SweepStart
      <3>4. PICK todo : todo = [i \in DOMAIN order |->
                                  [policy |-> order[i], row |-> policy[order[i]]]]
        OBVIOUS
      <3>5. todo \in Seq([policy: Created, row: Row])
        <4>1. \A i \in 1 .. Cardinality(listed) : order[i] \in Created /\ policy[order[i]] \in Row
          BY <3>1, CreatedRow
        <4>2. PICK n, S : n = Cardinality(listed) /\ n \in Nat /\ S = [policy: Created, row: Row]
          BY <3>2
        <4>3. todo \in [1 .. n -> S]
          BY <3>4, <4>1, <4>2
        <4>4. todo \in UNION {[1 .. m -> S] : m \in Nat}
          BY <4>2, <4>3, Zenon
        <4>5. todo \in Seq(S)
          BY <4>4, SeqDef, Zenon
        <4>6. QED
          BY <4>2, <4>5
      <3>6. PICK t : t = [step |-> "next", at |-> now, status |-> NULL, todo |-> todo]
        OBVIOUS
      <3>7. SweepOK(t)
        BY <3>5, <3>6 DEF SweepOK, IsSweep
      <3>8. QED
        BY <1>6, <3>3, <3>4, <3>6, <3>7
    <2>2. CASE SweepCompute
      <3>1. CASE s.todo = << >>
        BY <1>2, <1>6, <1>7, <2>2, <3>1 DEF SweepCompute
      <3>2. CASE s.todo # << >>
        <4>1. PICK status : status = Computed(Head(s.todo).policy, Head(s.todo).row, s.at)
          OBVIOUS
        <4>2. status \in Statuses
          BY <4>1, StatusOfRange DEF Computed
        <4>3. PICK t, u : /\ t = [s EXCEPT !.todo = Tail(@)]
                          /\ u = [s EXCEPT !.step = "find", !.status = status]
          OBVIOUS
        <4>4. s.step = "next" /\ sweep' \in {t, u}
          BY <1>2, <2>2, <3>2, <4>1, <4>3 DEF SweepCompute
        <4>5. IsSweep(u) /\ u.step = "find" /\ u.todo = s.todo /\ u.status = status
          BY <1>3, <4>3 DEF SweepOK, IsSweep
        <4>6. SweepOK(u)
          BY <1>3, <3>2, <4>2, <4>5 DEF SweepOK
        <4>7. SweepOK(t)
          BY <1>8, <3>2, <4>3, <4>4
        <4>8. QED
          BY <1>6, <4>4, <4>6, <4>7
      <3>3. QED
        BY <3>1, <3>2
    <2>3. CASE SweepFind
      <3>1. s.step = "find" /\ s.todo # << >>
        BY <1>2, <1>3, <2>3 DEF SweepFind, SweepOK
      <3>2. PICK t, u : /\ t = [s EXCEPT !.step = "next", !.todo = Tail(@)]
                        /\ u = [s EXCEPT !.step = "update"]
        OBVIOUS
      <3>3. sweep' \in {t, u}
        BY <1>2, <2>3, <3>2 DEF SweepFind
      <3>4. IsSweep(u) /\ u.todo = s.todo /\ u.status = s.status
        BY <1>3, <3>2 DEF SweepOK, IsSweep
      <3>5. SweepOK(u)
        BY <1>3, <3>1, <3>4 DEF SweepOK
      <3>6. SweepOK(t)
        BY <1>8, <3>1, <3>2
      <3>7. QED
        BY <1>6, <3>3, <3>5, <3>6
    <2>4. CASE SweepUpdate
      <3>1. s.step = "update" /\ s.todo # << >>
        BY <1>2, <1>3, <2>4 DEF SweepUpdate, SweepOK
      <3>2. PICK t : t = [s EXCEPT !.step = "next", !.todo = Tail(@)]
        OBVIOUS
      <3>3. QED
        BY <1>2, <1>6, <1>8, <2>4, <3>1, <3>2 DEF SweepUpdate
    <2>5. QED
      BY <2>1, <2>2, <2>3, <2>4 DEF Sweep
  <1>10. ASSUME NEW h \in Handlers PROVE CallOK(office[h])'
    <2>1. PICK c : c = office[h]
      OBVIOUS
    <2>2. QED
      BY <1>1, <1>5, <2>1, CallKept DEF RegisterInv
  <1>11. QED
    BY <1>1, <1>5, <1>9, <1>10, KeepsExtends DEF RegisterInv, Keeps

LEMMA OfficeStep ==
    ASSUME RegisterInv, OneCall, NEW h \in Handlers,
           OfficeWrite(h) \/ \E p \in Policies : OfficeCall(h, p)
    PROVE  RegisterInv' /\ Extends
  <1>1. UNCHANGED sweep
    BY DEF OfficeWrite, CheckReinstate, WriteReinstate, WriteRenew, WriteNumber, OfficeCall,
           ReadPayments, ReadRenew, ReadNumber
  <1>2. PICK c : c = office[h]
    OBVIOUS
  <1>3. CallOK(c) /\ CallOK(IdleCall)
    BY <1>2 DEF RegisterInv, CallOK, IsCall, IdleCall
  <1>4. ASSUME NEW d, office' = [office EXCEPT ![h] = d], CallOK(d)',
               policy' \in [Policies -> Row \cup {NULL}], Extends
        PROVE  RegisterInv' /\ Extends
    <2>1. ASSUME NEW g \in Handlers PROVE office'[g] = d
      BY <1>4 DEF OneCall, RegisterInv
    <2>2. SweepOK(sweep)'
      <3>1. PICK s : s = sweep
        OBVIOUS
      <3>2. QED
        BY <1>1, <1>4, <3>1, SweepKept DEF RegisterInv, Extends
    <2>3. office' = [g \in Handlers |-> office'[g]]
      BY <1>4 DEF RegisterInv
    <2>4. QED
      BY <1>4, <2>1, <2>2, <2>3 DEF RegisterInv
  <1>5. CallOK(IdleCall)'
    BY DEF CallOK, IsCall, IdleCall
  <1>6. ASSUME UNCHANGED policy, NEW d, office' = [office EXCEPT ![h] = d], CallOK(d)
        PROVE  RegisterInv' /\ Extends
    <2>1. Keeps
      BY <1>6 DEF Keeps, RegisterInv, Created
    <2>2. QED
      BY <1>4, <1>6, <2>1, CallKept, KeepsExtends DEF Keeps
  <1>7. ASSUME NEW p \in Policies, OfficeCall(h, p) PROVE RegisterInv' /\ Extends
    <2>1. ASSUME NEW step, NEW read, Begin(h, step, p, read), policy[p] # NULL, UNCHANGED policy,
                 step = "renewing" => read \in Month /\ read >= policy[p].maturity,
                 step = "numbering" => read \in Row /\ read.maturity = policy[p].maturity
          PROVE  RegisterInv' /\ Extends
      <3>1. PICK d : d = [step |-> step, policy |-> p, read |-> read]
        OBVIOUS
      <3>2. CallOK(d)
        BY <2>1, <3>1 DEF CallOK, IsCall, Created
      <3>3. QED
        BY <1>6, <2>1, <3>1, <3>2 DEF Begin
    <2>2. CASE ReadPayments(h, p)
      BY <2>1, <2>2 DEF ReadPayments
    <2>3. ASSUME NEW m \in Month, ReadRenew(h, p, m) PROVE RegisterInv' /\ Extends
      <3>1. policy[p].maturity \in Nat /\ m \in Nat
        BY <2>3, CreatedRow, PolicyStatusAssumption DEF ReadRenew, Created
      <3>2. m >= policy[p].maturity
        BY <2>3, <3>1 DEF ReadRenew
      <3>3. QED
        BY <2>1, <2>3, <3>2 DEF ReadRenew
    <2>4. CASE ReadNumber(h, p)
      <3>1. policy[p] \in Row
        BY <2>4, CreatedRow DEF ReadNumber, Created
      <3>2. QED
        BY <2>1, <2>4, <3>1 DEF ReadNumber
    <2>5. QED
      BY <1>7, <2>2, <2>3, <2>4 DEF OfficeCall
  <1>8. CASE CheckReinstate(h)
    <2>1. c.step = "reinstate"
      BY <1>2, <1>8 DEF CheckReinstate
    <2>2. PICK d : d = [c EXCEPT !.step = "reinstating", !.read = NULL]
      OBVIOUS
    <2>3. IsCall(d) /\ d.step = "reinstating" /\ d.policy = c.policy
      BY <1>3, <2>2 DEF CallOK, IsCall
    <2>4. CallOK(d)
      BY <1>3, <2>1, <2>3 DEF CallOK
    <2>5. UNCHANGED policy
      BY <1>8 DEF CheckReinstate
    <2>6. \/ office' = [office EXCEPT ![h].step = "reinstating", ![h].read = NULL]
          \/ office' = [office EXCEPT ![h] = IdleCall]
      BY <1>8 DEF CheckReinstate, Done
    <2>7. [office EXCEPT ![h].step = "reinstating", ![h].read = NULL] = [office EXCEPT ![h] = d]
      <3>1. PICK u : u = [office EXCEPT ![h].step = "reinstating"]
        OBVIOUS
      <3>2. u[h] = [c EXCEPT !.step = "reinstating"]
        BY <1>2, <3>1 DEF RegisterInv
      <3>3. [u EXCEPT ![h].read = NULL] = [office EXCEPT ![h] = d]
        BY <2>2, <3>1, <3>2
      <3>4. QED
        BY <3>1, <3>3
    <2>8. QED
      BY <1>3, <1>6, <2>4, <2>5, <2>6, <2>7
  <1>9. CASE WriteReinstate(h)
    <2>1. c.policy \in Created /\ policy' = [policy EXCEPT ![c.policy].status = "Active"]
      BY <1>2, <1>3, <1>9 DEF WriteReinstate, CallOK
    <2>2. Keeps
      BY <2>1, StatusWritten DEF AllStatuses, Statuses
    <2>3. QED
      BY <1>4, <1>5, <1>9, <2>2, KeepsExtends DEF WriteReinstate, Done, Keeps
  <1>10. CASE WriteRenew(h)
    <2>1. /\ c.policy \in Created /\ policy' = [policy EXCEPT ![c.policy].maturity = c.read]
          /\ c.read \in Month /\ c.read >= policy[c.policy].maturity
      BY <1>2, <1>3, <1>10 DEF WriteRenew, CallOK
    <2>2. PICK row : row = [policy[c.policy] EXCEPT !.maturity = c.read]
      OBVIOUS
    <2>3. row \in Row /\ row.maturity = c.read /\ c.policy \in Policies
      BY <2>1, <2>2, CreatedRow DEF Row
    <2>4. policy' = [policy EXCEPT ![c.policy] = row]
      BY <2>1, <2>2
    <2>5. policy' \in [Policies -> Row \cup {NULL}] /\ Extends
      BY <2>1, <2>3, <2>4, RowWritten
    <2>6. QED
      BY <1>4, <1>5, <1>10, <2>5 DEF WriteRenew, Done
  <1>11. CASE WriteNumber(h)
    <2>1. /\ c.policy \in Created /\ policy' = [policy EXCEPT ![c.policy] = c.read]
          /\ c.read \in Row /\ c.read.maturity = policy[c.policy].maturity
      BY <1>2, <1>3, <1>11 DEF WriteNumber, CallOK
    <2>2. c.policy \in Policies /\ c.read.maturity \in Nat
      BY <2>1, CreatedRow
    <2>3. c.read.maturity >= policy[c.policy].maturity
      BY <2>1, <2>2
    <2>4. policy' \in [Policies -> Row \cup {NULL}] /\ Extends
      BY <2>1, <2>2, <2>3, RowWritten
    <2>5. QED
      BY <1>4, <1>5, <1>11, <2>4 DEF WriteNumber, Done
  <1>12. QED
    BY <1>7, <1>8, <1>9, <1>10, <1>11 DEF OfficeWrite

LEMMA RegisterStep ==
    ASSUME RegisterInv, OneCall, IsFiniteSet(Policies), [Next]_vars
    PROVE  RegisterInv' /\ Extends
  <1>1. CASE UNCHANGED vars
    <2>1. Keeps
      BY <1>1 DEF vars, Keeps, RegisterInv, Created
    <2>2. PICK s : s = sweep
      OBVIOUS
    <2>3. SweepOK(s)'
      BY <2>1, <2>2, SweepKept DEF Keeps, RegisterInv
    <2>4. ASSUME NEW h \in Handlers PROVE CallOK(office[h])'
      <3>1. PICK c : c = office[h]
        OBVIOUS
      <3>2. QED
        BY <1>1, <2>1, <3>1, CallKept DEF vars, RegisterInv
    <2>5. QED
      BY <1>1, <2>1, <2>2, <2>3, <2>4, KeepsExtends DEF vars, RegisterInv, Keeps
  <1>2. QED
    BY <1>1, WorldStep, SweepStep, OfficeStep DEF Next

THEOREM RegisterInvariant ==
    ASSUME OneCall, IsFiniteSet(Policies)
    PROVE  Spec => []RegisterInv
  <1>1. Init => RegisterInv
    <2>1. << >> \in Seq([policy: Created, row: Row])
      BY EmptySeq
    <2>2. SweepOK(NoSweep) /\ CallOK(IdleCall)
      BY <2>1 DEF SweepOK, IsSweep, NoSweep, CallOK, IsCall, IdleCall
    <2>3. QED
      BY <2>2 DEF Init, RegisterInv
  <1>2. RegisterInv /\ [Next]_vars => RegisterInv'
    BY RegisterStep
  <1>3. QED
    BY <1>1, <1>2, PTL DEF Spec

\* renew, "the new maturity date must be after the current one": the date is compared
\* before it is written and the sweep, the payments and the edits of the other columns
\* go on in between; while the office makes one call at a time none of them brings a
\* maturity forward, and none brings back an earlier one that it had read.
THEOREM MaturityOnlyExtendsHolds ==
    ASSUME OneCall, IsFiniteSet(Policies)
    PROVE  Spec => MaturityOnlyExtends
  <1>1. RegisterInv /\ [Next]_vars =>
            [\A p \in Created : policy'[p].maturity >= policy[p].maturity]_vars
    BY RegisterStep DEF Extends
  <1>2. QED
    BY <1>1, RegisterInvariant, PTL DEF Spec, MaturityOnlyExtends
===============================================================================
