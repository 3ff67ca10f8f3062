------------------------------ MODULE LinkedTasks ------------------------------
(***************************************************************************)
(* ActionItemsService and CalendarService: an action item of a meeting and *)
(* the calendar event that reminds its assignee of it are two rows that    *)
(* each service keeps in step with the other.  Every await is a step       *)
(* boundary.  The services store no Missed, they show it: it depends on    *)
(* the clock.  But a request may set an event to any word it likes, and    *)
(* may make an event of its own that names somebody's item.                *)
(***************************************************************************)
EXTENDS Naturals, Sequences

CONSTANTS
    Staff,         \* the users
    Admins,        \* those of them who are Super Admin
    Desks,         \* requests the server works on at the same time
    MaxItems, MaxEvents, MaxTouches,   \* bounds
    MaxHalts                           \* bound: restarts and failed calls of the database

VARIABLES
    items,     \* leadership_action_items, in order of creation
    events,    \* calendar_events, in order of creation
    clock,     \* half days; an item is due on the first day
    desk,      \* what each request is doing
    touches, halts,
    lost,      \* history: items that an event which ended was not able to complete
    inStep     \* history: no request was cut off, failed, overlapped another one, or
               \* used an item's event otherwise than to end it

taskVars == <<items, events, clock, desk, touches, halts, lost, inStep>>

NoId == 0
ActionItem ==
    [assignedTo: Staff, timed: BOOLEAN, status: {"Open", "Completed"}, calendarEventId: Nat]
\* Missed stands for every other word as well: only an end means anything.
CalendarEventStatus == {"Scheduled", "Completed", "Cancelled", "Missed"}
CalendarEvent ==
    [assignedTo: Staff, startAt: Nat, status: CalendarEventStatus, relatedId: Nat,
     there: BOOLEAN]

\* The end of the day when no time is given.
isPastDeadline(item) == (IF item.timed THEN 1 ELSE 2) <= clock
\* With no time the reminder is for nine o'clock.
ItemShown(i) ==
    IF items[i].status = "Open" /\ isPastDeadline(items[i]) THEN "Missed"
    ELSE items[i].status
EventShown(e) ==
    IF events[e].status = "Scheduled" /\ events[e].startAt <= clock THEN "Missed"
    ELSE events[e].status

Free == [step |-> "idle", by |-> CHOOSE u \in Staff : TRUE, item |-> NoId, event |-> NoId,
         to |-> "Scheduled", related |-> NoId]
StepOf(d, step) == desk[d].step = step
Turns(d, to) == desk' = [desk EXCEPT ![d] = to]

TaskInit ==
    /\ items = << >>
    /\ events = << >>
    /\ clock = 0
    /\ desk = [d \in Desks |-> Free]
    /\ touches = 0
    /\ halts = 0
    /\ lost = {}
    /\ inStep = TRUE
-------------------------------------------------------------------------------
(* Action items.                                                            *)

\* create: the item, then its event, then the item's link to the event.
CreateItem(d, a, u, timed) ==
    /\ StepOf(d, "idle")
    /\ a \in Admins
    /\ Len(items) < MaxItems
    /\ items' = Append(items, [assignedTo |-> u, timed |-> timed, status |-> "Open",
                               calendarEventId |-> NoId])
    /\ Turns(d, [Free EXCEPT !.step = "remind", !.item = Len(items) + 1])
    /\ UNCHANGED <<events, clock, touches, halts, lost>>
CreateReminder(d) ==
    /\ StepOf(d, "remind")
    /\ events' = Append(events, [assignedTo |-> items[desk[d].item].assignedTo, startAt |-> 1,
                                 status |-> "Scheduled", relatedId |-> desk[d].item,
                                 there |-> TRUE])
    /\ Turns(d, [desk[d] EXCEPT !.step = "link", !.event = Len(events) + 1])
    /\ UNCHANGED <<items, clock, touches, halts, lost>>
LinkReminder(d) ==
    /\ StepOf(d, "link")
    /\ items' = [items EXCEPT ![desk[d].item].calendarEventId = desk[d].event]
    /\ Turns(d, Free)
    /\ UNCHANGED <<events, clock, touches, halts, lost>>

\* complete: only the assignee's own, or by an administrator; the event that
\* was linked when the item was read is completed afterwards.
ReadItem(d, a, i) ==
    /\ StepOf(d, "idle")
    /\ a = items[i].assignedTo \/ a \in Admins
    /\ touches < MaxTouches
    /\ touches' = touches + 1
    /\ Turns(d, [Free EXCEPT !.step = "complete", !.by = a, !.item = i,
                             !.event = items[i].calendarEventId, !.to = "Completed"])
    /\ UNCHANGED <<items, events, clock, halts, lost>>
CompleteItem(d) ==
    /\ StepOf(d, "complete")
    /\ items' = [items EXCEPT ![desk[d].item].status = "Completed"]
    /\ Turns(d, IF desk[d].event = NoId THEN Free ELSE [desk[d] EXCEPT !.step = "check"])
    /\ UNCHANGED <<events, clock, touches, halts, lost>>
-------------------------------------------------------------------------------
(* Calendar events.                                                         *)

canModify(a, e) == a = events[e].assignedTo \/ a \in Admins

\* The request names the assignee, and what the event is about: nobody checks
\* whether an item it names is the sender's, or has an event already.
CreateEvent(u, i) ==
    /\ Len(events) < MaxEvents
    /\ events' = Append(events, [assignedTo |-> u, startAt |-> 1, status |-> "Scheduled",
                                 relatedId |-> i, there |-> TRUE])
    /\ UNCHANGED <<items, clock, desk, touches, halts, lost>>

CallSetStatus(d, a, e, to) ==
    /\ StepOf(d, "idle")
    /\ touches < MaxTouches
    /\ touches' = touches + 1
    /\ Turns(d, [Free EXCEPT !.step = "check", !.by = a, !.event = e, !.to = to])
    /\ UNCHANGED <<items, events, clock, halts, lost>>

\* setStatus: not found and forbidden end the call; complete() ignores both.
ReadEvent(d) ==
    LET e == desk[d].event
    IN  /\ StepOf(d, "check")
        /\ Turns(d, IF events[e].there /\ canModify(desk[d].by, e)
                    THEN [desk[d] EXCEPT !.step = "status", !.related = events[e].relatedId]
                    ELSE Free)
        /\ UNCHANGED <<items, events, clock, touches, halts, lost>>
Ended(status) == status \in {"Completed", "Cancelled"}
SetStatus(d) ==
    /\ StepOf(d, "status")
    /\ events' = [events EXCEPT ![desk[d].event].status = desk[d].to]
    /\ Turns(d, IF desk[d].related # NoId /\ Ended(desk[d].to)
                THEN [desk[d] EXCEPT !.step = "sync"] ELSE Free)
    /\ UNCHANGED <<items, clock, touches, halts, lost>>
\* Fault: the item follows only an event that was completed.
SyncCompletedItem(d) ==
    /\ StepOf(d, "sync")
    /\ items' = IF desk[d].to = "Completed"
                THEN [items EXCEPT ![desk[d].related].status = "Completed"] ELSE items
    /\ Turns(d, Free)
    /\ UNCHANGED <<events, clock, touches, halts, lost>>
\* The item of an event that has ended is completed.
SyncItem(d) ==
    /\ StepOf(d, "sync")
    /\ items' = [items EXCEPT ![desk[d].related].status = "Completed"]
    /\ Turns(d, Free)
    /\ UNCHANGED <<events, clock, touches, halts, lost>>

\* update and delete, of a new time or a new assignee.
EditEvent(a, e, event) ==
    /\ events[e].there /\ canModify(a, e)
    /\ touches < MaxTouches
    /\ touches' = touches + 1
    /\ events' = [events EXCEPT ![e] = event]
    /\ UNCHANGED <<items, clock, desk, halts, lost>>
UpdateEvent(a, e) ==
    \/ EditEvent(a, e, [events[e] EXCEPT !.startAt = 2])
    \/ \E u \in Staff : EditEvent(a, e, [events[e] EXCEPT !.assignedTo = u])
DeleteEvent(a, e) == EditEvent(a, e, [events[e] EXCEPT !.there = FALSE])
-------------------------------------------------------------------------------
\* A read or a write of the request fails: create and setStatus throw, complete and
\* the update of the item by setStatus ignore it.  What was written stays.
Syncing == {d \in Desks : StepOf(d, "sync")}
CallFails(d) ==
    /\ ~StepOf(d, "idle")
    /\ halts < MaxHalts
    /\ halts' = halts + 1
    /\ lost' = lost \union {desk[c].related : c \in Syncing \intersect {d}}
    /\ Turns(d, Free)
    /\ UNCHANGED <<items, events, clock, touches>>
\* The process restarts while a request is being worked on.
Halt ==
    /\ halts < MaxHalts
    /\ \E d \in Desks : ~StepOf(d, "idle")
    /\ halts' = halts + 1
    /\ lost' = lost \union {desk[d].related : d \in Syncing}
    /\ desk' = [d \in Desks |-> Free]
    /\ UNCHANGED <<items, events, clock, touches>>
Hours ==
    /\ clock < 2
    /\ clock' = clock + 1
    /\ UNCHANGED <<items, events, desk, touches, halts, lost>>

\* What takes item and event apart: a failure, another request at the same time, an
\* end put to another event that names the item, anything but an end put to the
\* item's own, or its own given to somebody else, moved or deleted.
ApartNow ==
    \/ halts' # halts
    \/ \E d, c \in Desks : c # d /\ desk'[d] # Free /\ desk'[c] # Free
    \/ \E d \in Desks :
          LET x == desk'[d]
          IN  /\ x.step = "status" /\ x.related # NoId
              /\ ~(Ended(x.to) <=> items[x.related].calendarEventId = x.event)
    \/ \E e \in DOMAIN events :
          /\ events[e].relatedId # NoId
          /\ \/ events'[e].assignedTo # events[e].assignedTo
             \/ events'[e].startAt # events[e].startAt
             \/ events'[e].there # events[e].there

TaskStep ==
    \/ \E a, u \in Staff, d \in Desks, timed \in BOOLEAN : CreateItem(d, a, u, timed)
    \/ \E d \in Desks :
          \/ CreateReminder(d)
          \/ LinkReminder(d)
          \/ CompleteItem(d)
          \/ ReadEvent(d)
          \/ SetStatus(d)
          \/ SyncItem(d)
          \/ CallFails(d)
          \/ \E a \in Staff, i \in DOMAIN items : ReadItem(d, a, i)
          \/ \E a \in Staff, e \in DOMAIN events, to \in CalendarEventStatus :
                CallSetStatus(d, a, e, to)
    \/ \E u \in Staff, i \in {NoId} \union DOMAIN items : CreateEvent(u, i)
    \/ \E a \in Staff, e \in DOMAIN events : UpdateEvent(a, e) \/ DeleteEvent(a, e)
    \/ Halt
    \/ Hours
TaskNext == TaskStep /\ inStep' = (inStep /\ ~ApartNow)
-------------------------------------------------------------------------------
(* Property.                                                                *)

Reached(i) ==
    \/ i \in {NoId} \union lost
    \/ items[i].status = "Completed"
    \/ \E d \in Syncing : desk[d].related = i
\* "Completing either one can keep the other in sync": a task does not "silently
\* disappear from one side while the Leadership tab still shows it as Open", that
\* is, whatever requests overlap and whatever they set, an item named by an event
\* that has ended is completed, unless that is about to be done or failed.  And
\* while requests come one after the other, do not fail, and only end an item's
\* event, an item with an event is completed exactly when its event has ended, one
\* shown as missed has a reminder shown as missed, and every item has an event.
TasksAgree ==
    /\ \A e \in DOMAIN events : Ended(events[e].status) => Reached(events[e].relatedId)
    /\ inStep /\ (\A d \in Desks : StepOf(d, "idle")) =>
          \A i \in DOMAIN items :
            LET e == items[i].calendarEventId
            IN  /\ e # NoId
                /\ (items[i].status = "Completed") <=> Ended(events[e].status)
                /\ ItemShown(i) = "Missed" => EventShown(e) = "Missed"
===============================================================================
