----------------------------- MODULE EventOrder -----------------------------
(***************************************************************************)
(* What the simulator promises to everything that schedules: events are    *)
(* executed one at a time in the order of their time stamp and, for equal  *)
(* time stamps, in the order in which they were scheduled.  Time never     *)
(* goes back, and nothing is scheduled in the past.                        *)
(***************************************************************************)
EXTENDS Integers

VARIABLES
    pending,    \* keys of the events that are scheduled and not executed
    now         \* key of the event executed last

vars == <<pending, now>>

\* Scheduler::EventKey and its operator<.
Less(a, b) == a.ts < b.ts \/ (a.ts = b.ts /\ a.uid < b.uid)

Init == pending = {} /\ now = [ts |-> 0, uid |-> 0]

Schedule ==
    /\ pending \subseteq pending'
    /\ \A k \in pending' \ pending : Less(now, k)
    /\ UNCHANGED now

Execute ==
    \E k \in pending :
        /\ Less(now, k)
        /\ \A other \in pending \ {k} : Less(k, other)
        /\ now' = k
        /\ pending' = pending \ {k}

Remove ==
    \E k \in pending : pending' = pending \ {k} /\ UNCHANGED now

Next == Schedule \/ Execute \/ Remove

Spec == Init /\ [][Next]_vars
=============================================================================
