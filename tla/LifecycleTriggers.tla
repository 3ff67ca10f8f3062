--------------------------- MODULE LifecycleTriggers ---------------------------
(***************************************************************************)
(* LifecycleTriggersService: every active trigger is run over its          *)
(* candidates; a client or policy that was not greeted by the trigger gets *)
(* a message, and the fire log remembers it.  The nightly job and the      *)
(* "run now" endpoint run the same loop and may overlap.                   *)
(***************************************************************************)
EXTENDS Naturals, Sequences, FiniteSets, SequencesExt

CONSTANTS
    Runs,            \* the nightly job and the calls of "run now"
    Nightly,         \* the one of them that comes back every night
    TriggerRows,     \* sequence: the types of the triggers, in table order
    Entities,        \* clients or policies
    MaxDisturbances  \* bound: restarts, switches of a trigger, changes of the world

VARIABLES
    active,    \* column lifecycle_triggers.active
    due,       \* per trigger: the consenting entities that meet its condition
    fires,     \* table trigger_fires, unique on trigger and entity
    greeted,   \* history: messages dispatched per trigger and entity
    run,       \* what each run is doing
    disturbances,
    apart      \* history: no two runs at once, and no restart during one

triggerVars == <<active, due, fires, greeted, run, disturbances, apart>>

Triggers == DOMAIN TriggerRows
TriggerTypes ==
    {"new_client_welcome", "policy_warning", "policy_lapsed_winback", "renewal_reminder",
     "policy_anniversary", "referral_reward"}
TriggerFire == Triggers \X Entities

\* What these look at (the payments of a policy, the consent of a referrer) is
\* read when the candidate's turn comes; the others filter the list once.
ReadInTurn(t) ==
    TriggerRows[t] \in {"policy_warning", "policy_lapsed_winback", "referral_reward"}
\* The key of an anniversary, "<policy>-<year>", is no uuid: the query of the
\* fire log fails and with it the whole run.
KeyIsUuid(t) == TriggerRows[t] # "policy_anniversary"

Asleep == [step |-> "idle", triggers |-> << >>, candidates |-> {}, at |-> "none"]
AtStep(r, step) == run[r].step = step
Go(r, to) == run' = [run EXCEPT ![r] = to]
Current(r) == Head(run[r].triggers)

TriggerInit ==
    /\ active = [t \in Triggers |-> TRUE]
    /\ due \in [Triggers -> SUBSET Entities]
    /\ fires = {}
    /\ greeted = [f \in TriggerFire |-> 0]
    /\ run = [r \in Runs |-> Asleep]
    /\ disturbances = 0
    /\ apart = TRUE

\* runAllTriggers: the active triggers are listed.
ListTriggers(r) ==
    /\ AtStep(r, "idle")
    /\ Go(r, [Asleep EXCEPT !.step = "list",
                !.triggers = SelectSeq([t \in Triggers |-> t], LAMBDA t : active[t])])
    /\ UNCHANGED <<active, due, fires, greeted, disturbances>>

\* The candidates of one trigger are listed, of some types all there are.
ListCandidates(r) ==
    /\ AtStep(r, "list")
    /\ IF run[r].triggers = << >> THEN Go(r, Asleep)
       ELSE Go(r, [run[r] EXCEPT !.step = "consider",
                     !.candidates = IF ReadInTurn(Current(r)) THEN Entities ELSE due[Current(r)]])
    /\ UNCHANGED <<active, due, fires, greeted, disturbances>>

NoCandidateLeft(r) ==
    /\ AtStep(r, "consider")
    /\ run[r].candidates = {}
    /\ Go(r, [run[r] EXCEPT !.step = "list", !.triggers = Tail(@)])
    /\ UNCHANGED <<active, due, fires, greeted, disturbances>>

\* Fault: whoever meets the condition is greeted, fired before or not.
ConsiderAgain(r) ==
    /\ AtStep(r, "consider")
    /\ \E e \in run[r].candidates :
          IF e \in due[Current(r)]
          THEN Go(r, [run[r] EXCEPT !.step = "dispatch", !.at = e, !.candidates = @ \ {e}])
          ELSE Go(r, [run[r] EXCEPT !.candidates = @ \ {e}])
    /\ UNCHANGED <<active, due, fires, greeted, disturbances>>

\* Fault: a query that fails leaves the run at its candidate for ever.
ConsiderStuck(r) ==
    /\ AtStep(r, "consider")
    /\ \E e \in run[r].candidates :
          IF ~KeyIsUuid(Current(r)) THEN UNCHANGED run
          ELSE IF <<Current(r), e>> \in fires \/ (ReadInTurn(Current(r)) /\ e \notin due[Current(r)])
          THEN Go(r, [run[r] EXCEPT !.candidates = @ \ {e}])
          ELSE Go(r, [run[r] EXCEPT !.step = "dispatch", !.at = e, !.candidates = @ \ {e}])
    /\ UNCHANGED <<active, due, fires, greeted, disturbances>>

\* alreadyFired, and the condition where it is read now.  An error ends the run.
Consider(r) ==
    /\ AtStep(r, "consider")
    /\ \E e \in run[r].candidates :
          IF ~KeyIsUuid(Current(r)) THEN Go(r, Asleep)
          ELSE IF <<Current(r), e>> \in fires \/ (ReadInTurn(Current(r)) /\ e \notin due[Current(r)])
          THEN Go(r, [run[r] EXCEPT !.candidates = @ \ {e}])
          ELSE Go(r, [run[r] EXCEPT !.step = "dispatch", !.at = e, !.candidates = @ \ {e}])
    /\ UNCHANGED <<active, due, fires, greeted, disturbances>>

\* dispatchSms: the message is queued, or kept as Pending.
Dispatch(r) ==
    /\ AtStep(r, "dispatch")
    /\ greeted' = [greeted EXCEPT ![<<Current(r), run[r].at>>] = @ + 1]
    /\ Go(r, [run[r] EXCEPT !.step = "record"])
    /\ UNCHANGED <<active, due, fires, disturbances>>

\* recordFire: the unique key refuses a second row, which ends the run.
RecordFire(r) ==
    LET fire == <<Current(r), run[r].at>>
    IN  /\ AtStep(r, "record")
        /\ fires' = fires \union {fire}
        /\ Go(r, IF fire \in fires THEN Asleep
                 ELSE [run[r] EXCEPT !.step = "consider", !.at = "none"])
        /\ UNCHANGED <<active, due, greeted, disturbances>>

Disturb == disturbances < MaxDisturbances /\ disturbances' = disturbances + 1

\* update of the trigger; a day or a payment changes who meets a condition.
UpdateTrigger(t) ==
    /\ Disturb
    /\ active' = [active EXCEPT ![t] = ~@]
    /\ UNCHANGED <<due, fires, greeted, run>>
WorldChanges(t) ==
    /\ Disturb
    /\ \E now \in SUBSET Entities : due' = [due EXCEPT ![t] = now]
    /\ UNCHANGED <<active, fires, greeted, run>>
\* An anniversary is over the next day.
DayPasses(t) ==
    /\ TriggerRows[t] = "policy_anniversary"
    /\ due[t] # {}
    /\ due' = [due EXCEPT ![t] = {}]
    /\ UNCHANGED <<active, fires, greeted, run, disturbances>>
\* A run is gone with its process: nothing tries it again.
TriggerRestart ==
    /\ Disturb
    /\ run' = [r \in Runs |-> Asleep]
    /\ UNCHANGED <<active, due, fires, greeted>>
-------------------------------------------------------------------------------
RunStep(r) ==
    \/ ListCandidates(r)
    \/ NoCandidateLeft(r)
    \/ Consider(r)
    \/ Dispatch(r)
    \/ RecordFire(r)

TriggerNext ==
    /\ \/ \E r \in Runs : ListTriggers(r) \/ RunStep(r)
       \/ \E t \in Triggers : UpdateTrigger(t) \/ WorldChanges(t) \/ DayPasses(t)
       \/ TriggerRestart
    /\ apart' = /\ apart
                /\ Cardinality({r \in Runs : run'[r].step # "idle"}) <= 1
                /\ (\A r \in Runs : run'[r].step = "idle") =>
                      \A r \in Runs : run[r].step # "record" \/ fires' # fires
-------------------------------------------------------------------------------
(* Properties.                                                              *)

\* runAllTriggers, "running it twice in a row is always safe, never
\* double-sends": as long as runs follow each other nobody is greeted twice by
\* a trigger, and the fire log names exactly those greeted so far.
NeverDoubleSends ==
    apart => \A f \in TriggerFire :
        /\ greeted[f] <= 1
        /\ greeted[f] = 1 <=>
              \/ f \in fires
              \/ \E r \in Runs : AtStep(r, "record") /\ f = <<Current(r), run[r].at>>

\* Who stays due for an active trigger is in the end recorded as greeted by it
\* (an anniversary apart), whatever other triggers, restarts and doubled runs
\* did in between.
ReachesAll ==
    \A t \in Triggers : KeyIsUuid(t) =>
        \A e \in Entities :
            <>[](active[t] /\ e \in due[t]) => <>(<<t, e>> \in fires)
===============================================================================
