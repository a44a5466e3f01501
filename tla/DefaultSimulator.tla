-------------------------- MODULE DefaultSimulator --------------------------
(***************************************************************************)
(* The event loop of default-simulator-impl.cc.  The main thread runs the  *)
(* handlers of events, which schedule, cancel and remove events, stop the  *)
(* run or replace the scheduler; another thread schedules events through   *)
(* ScheduleWithContext, under a mutex that the main thread takes only when *)
(* a flag it reads without the mutex tells it to.                          *)
(***************************************************************************)
EXTENDS Schedulers

CONSTANTS
    Kinds,          \* schedulers a program may use
    RemovingKinds,  \* those with which the program calls Remove
    Delays,         \* delays of new events
    MaxEvents,      \* events scheduled, of both threads (bound)
    MaxPushes,      \* of them by the other thread (bound)
    MaxCancels,     \* calls of Cancel and Remove that find their event (bound)
    MaxSwaps        \* calls of SetScheduler (bound)

ASSUME SimulatorAssumption ==
    /\ Kinds \subseteq Kind /\ Kinds # {} /\ RemovingKinds \subseteq Kinds
    /\ Delays \subseteq Nat
    /\ {MaxEvents, MaxPushes, MaxCancels, MaxSwaps} \subseteq Nat

VARIABLES
    queue,        \* m_events
    uid,          \* m_uid - EventId::UID::VALID: events that have been numbered
    now,          \* m_currentTs and m_currentUid
    unscheduled,  \* m_unscheduledEvents
    withContext,  \* m_eventsWithContext: delays
    empty,        \* m_eventsWithContextEmpty
    stop,         \* m_stop
    pc,           \* what the main thread does next
    ids,          \* the EventIds that Schedule has returned, of events that are not
                  \* older than the one executed last
    cancelled,    \* the events among them with m_cancel
    waited,       \* events begun since withContext was last empty (auxiliary)
    calls         \* calls that are bounded: pushes, cancels and swaps

vars == <<queue, uid, now, unscheduled, withContext, empty, stop, pc, ids, cancelled, waited, calls>>

Init ==
    /\ queue \in {NewScheduler(k) : k \in Kinds}
    /\ uid = 0
    /\ now = [ts |-> 0, uid |-> 0]
    /\ unscheduled = 0
    /\ withContext = << >> /\ empty = TRUE /\ waited = 0
    /\ stop = FALSE
    /\ pc = "idle"
    /\ ids = {} /\ cancelled = {}
    /\ calls = [push |-> 0, cancel |-> 0, swap |-> 0]

-----------------------------------------------------------------------------
(***************************************************************************)
(* Calls of the program, from a handler or outside of Run.                 *)
(***************************************************************************)
InProgram == pc \in {"idle", "handler"}

\* Schedule, ScheduleNow and ScheduleWithContext of the main thread.
Schedule(delay) ==
    LET key == [ts |-> now.ts + delay, uid |-> uid + 1]
    IN  /\ InProgram
        /\ uid + Len(withContext) < MaxEvents
        /\ queue' = Insert(queue, key)
        /\ uid' = uid + 1
        /\ unscheduled' = unscheduled + 1
        /\ ids' = ids \cup {key}
        /\ UNCHANGED <<now, withContext, empty, stop, pc, cancelled, waited, calls>>

IsExpired(id) ==
    id.ts < now.ts \/ (id.ts = now.ts /\ id.uid <= now.uid) \/ id \in cancelled

\* A faulty variant: a cancelled event is counted as gone.
CancelAndCount(id) ==
    /\ InProgram
    /\ id \in ids /\ ~ IsExpired(id)
    /\ calls.cancel < MaxCancels /\ calls' = [calls EXCEPT !.cancel = @ + 1]
    /\ cancelled' = cancelled \cup {id}
    /\ unscheduled' = unscheduled - 1
    /\ UNCHANGED <<queue, uid, now, withContext, empty, stop, pc, ids, waited>>

\* The event stays in the list; an expired id is left alone.
Cancel(id) ==
    /\ InProgram
    /\ id \in ids /\ ~ IsExpired(id)
    /\ calls.cancel < MaxCancels /\ calls' = [calls EXCEPT !.cancel = @ + 1]
    /\ cancelled' = cancelled \cup {id}
    /\ UNCHANGED <<queue, uid, now, unscheduled, withContext, empty, stop, pc, ids, waited>>

\* A faulty variant: the counter is not kept.
RemoveEventUncounted(id) ==
    /\ InProgram
    /\ queue.kind \in RemovingKinds
    /\ id \in ids /\ ~ IsExpired(id)
    /\ calls.cancel < MaxCancels /\ calls' = [calls EXCEPT !.cancel = @ + 1]
    /\ queue' = RemoveFrom(queue, id)
    /\ cancelled' = cancelled \cup {id}
    /\ UNCHANGED <<uid, now, unscheduled, withContext, empty, stop, pc, ids, waited>>

\* A faulty variant: an id kept by its owner still looks like a running event.
RemoveEventUncancelled(id) ==
    /\ InProgram
    /\ queue.kind \in RemovingKinds
    /\ id \in ids /\ ~ IsExpired(id)
    /\ id \in Contents(queue)
    /\ queue' = RemoveFrom(queue, id)
    /\ unscheduled' = unscheduled - 1
    /\ UNCHANGED <<uid, now, withContext, empty, stop, pc, ids, cancelled, waited, calls>>

RemoveEvent(id) ==
    /\ InProgram
    /\ queue.kind \in RemovingKinds
    /\ id \in ids /\ ~ IsExpired(id)
    /\ calls.cancel < MaxCancels /\ calls' = [calls EXCEPT !.cancel = @ + 1]
    /\ queue' = RemoveFrom(queue, id)
    /\ cancelled' = cancelled \cup {id}
    /\ unscheduled' = unscheduled - 1
    /\ UNCHANGED <<uid, now, withContext, empty, stop, pc, ids, waited>>

\* Before Run it has no effect.
Stop ==
    /\ pc = "handler"
    /\ stop' = TRUE
    /\ UNCHANGED <<queue, uid, now, unscheduled, withContext, empty, pc, ids, cancelled, waited, calls>>

\* Every event moves, in order, to a new scheduler.
Moved(q, kind) ==
    LET n == Cardinality(Contents(q))
        move[i \in 0 .. n] ==
            IF i = 0 THEN [from |-> q, to |-> NewScheduler(kind)]
            ELSE LET r == RemoveNext(move[i - 1].from)
                 IN  [from |-> r.rest, to |-> Insert(move[i - 1].to, r.event)]
    IN  move[n].to

SetScheduler(kind) ==
    /\ InProgram
    /\ calls.swap < MaxSwaps /\ calls' = [calls EXCEPT !.swap = @ + 1]
    /\ queue' = Moved(queue, kind)
    /\ UNCHANGED <<uid, now, unscheduled, withContext, empty, stop, pc, ids, cancelled, waited>>

-----------------------------------------------------------------------------
(***************************************************************************)
(* Run.                                                                    *)
(***************************************************************************)
Run ==
    /\ pc = "idle"
    /\ stop' = FALSE
    /\ pc' = "check"
    /\ UNCHANGED <<queue, uid, now, unscheduled, withContext, empty, ids, cancelled, waited, calls>>

\* ProcessEventsWithContext, before the mutex.
ReadFlag ==
    /\ pc = "check"
    /\ pc' = IF empty THEN "loop" ELSE "swap"
    /\ UNCHANGED <<queue, uid, now, unscheduled, withContext, empty, stop, ids, cancelled, waited, calls>>

InsertDelayed(q, delays) ==
    LET put[i \in 0 .. Len(delays)] ==
            IF i = 0 THEN q
            ELSE Insert(put[i - 1], [ts |-> now.ts + delays[i], uid |-> uid + i])
    IN  put[Len(delays)]

ProcessEventsWithContext ==
    /\ pc = "swap"
    /\ withContext' = << >> /\ empty' = TRUE /\ waited' = 0
    /\ queue' = InsertDelayed(queue, withContext)
    /\ uid' = uid + Len(withContext)
    /\ unscheduled' = unscheduled + Len(withContext)
    /\ pc' = "loop"
    /\ UNCHANGED <<now, stop, ids, cancelled, calls>>

ProcessOneEvent ==
    LET next == RemoveNext(queue)
    IN  /\ pc = "loop"
        /\ ~ IsEmpty(queue) /\ ~ stop
        /\ queue' = next.rest
        /\ now' = next.event
        /\ unscheduled' = unscheduled - 1
        /\ pc' = IF next.event \in cancelled THEN "check" ELSE "handler"
        /\ waited' = IF withContext = << >> THEN 0 ELSE waited + 1
        /\ ids' = {id \in ids : ~ Less(id, now')}
        /\ cancelled' = cancelled \cap ids'
        /\ UNCHANGED <<uid, withContext, empty, stop, calls>>

\* A faulty variant: the other thread is looked after only when Run starts.
HandlerReturnsToLoop ==
    /\ pc = "handler"
    /\ pc' = "loop"
    /\ UNCHANGED <<queue, uid, now, unscheduled, withContext, empty, stop, ids, cancelled, waited, calls>>

HandlerReturns ==
    /\ pc = "handler"
    /\ pc' = "check"
    /\ UNCHANGED <<queue, uid, now, unscheduled, withContext, empty, stop, ids, cancelled, waited, calls>>

RunReturns ==
    /\ pc = "loop"
    /\ IsEmpty(queue) \/ stop
    /\ pc' = "idle"
    /\ UNCHANGED <<queue, uid, now, unscheduled, withContext, empty, stop, ids, cancelled, waited, calls>>

\* ScheduleWithContext of the other thread.
ScheduleWithContext(delay) ==
    /\ uid + Len(withContext) < MaxEvents
    /\ calls.push < MaxPushes /\ calls' = [calls EXCEPT !.push = @ + 1]
    /\ withContext' = Append(withContext, delay)
    /\ empty' = FALSE
    /\ UNCHANGED <<queue, uid, now, unscheduled, stop, pc, ids, cancelled, waited>>

Next ==
    \/ \E d \in Delays : Schedule(d) \/ ScheduleWithContext(d)
    \/ \E id \in ids : Cancel(id) \/ RemoveEvent(id)
    \/ Stop
    \/ \E k \in Kinds : SetScheduler(k)
    \/ Run \/ ReadFlag \/ ProcessEventsWithContext
    \/ ProcessOneEvent \/ HandlerReturns \/ RunReturns

Spec == Init /\ [][Next]_vars

-----------------------------------------------------------------------------
(***************************************************************************)
(* Properties.                                                             *)
(***************************************************************************)
\* Type invariant.
TypeOK ==
    /\ Contents(queue) \subseteq [ts : Nat, uid : 1 .. MaxEvents]
    /\ uid \in 0 .. MaxEvents /\ unscheduled \in 0 .. MaxEvents
    /\ now \in [ts : Nat, uid : 0 .. MaxEvents]
    /\ withContext \in Seq(Delays) /\ empty \in BOOLEAN /\ stop \in BOOLEAN
    /\ pc \in {"idle", "handler", "check", "swap", "loop"}
    /\ cancelled \subseteq ids

\* Events are executed in the order of time and, at one time, in the order
\* in which they were scheduled, whatever scheduler is used, replaced or
\* resized, and none is executed twice (ProcessOneEvent with the schedulers'
\* Insert, RemoveNext and Remove; the assertion on m_currentTs).  That none is
\* lost is not in it: EventOrder lets an event be removed in any step, and
\* UnscheduledCounts says that it is removed by RemoveNext or Remove only.
Order == INSTANCE EventOrder WITH pending <- Contents(queue)
InOrder == Order!Spec

\* IsExpired, which compares an id with the event executed last and never
\* looks into the list, is true exactly of the events that will not be
\* executed any more: what every IsRunning and IsExpired of the timers of
\* tcp-socket-base.cc relies on.
IsExpiredIsExact ==
    \A id \in ids : IsExpired(id) <=> id \notin Contents(queue) \/ id \in cancelled

\* m_unscheduledEvents counts the events in the list, so that it is 0 when
\* Run ends for lack of events (the assertion at the end of Run).
UnscheduledCounts == unscheduled = Cardinality(Contents(queue))

\* While Run goes on, an event of the other thread waits for the event that is
\* being executed, and for at most one more, before it is in the list.  The
\* flag is a plain bool read without the mutex; the model gives it the value
\* written last (sequential consistency), which the C++ standard does not.
CrossThreadWaits == waited <= 1

\* The assertion in ProcessOneEvent, next.key.m_ts >= m_currentTs: time does not
\* go back.  It fails with HeapScheduler once a program calls Remove, which
\* lets the element that fills the gap sink but never rise.
TimeGoesForward == [][now.ts <= now'.ts]_vars
=============================================================================
