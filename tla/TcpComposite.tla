---------------------------- MODULE TcpComposite ----------------------------
(***************************************************************************)
(* The congestion control of this fork (tcp-composite.cc): one object that *)
(* runs a first policy, NewReno or Cubic with its two parameters, and at   *)
(* the switch time becomes a second one in the middle of a connection,     *)
(* with whatever Cubic, HyStart and window state the first has left.       *)
(*                                                                         *)
(* The actions are the calls of TcpSocketBase, in the order its handlers   *)
(* make them.  The clock is abstracted to the outcomes of the comparisons  *)
(* made with it (Clock).  A parameter is a number of 1/Scale; unsigned     *)
(* arithmetic is modulo Wrap.                                              *)
(***************************************************************************)
EXTENDS Integers, FiniteSetsExt

CONSTANTS
    SegmentSize,       \* m_segmentSize
    Plans,             \* configurations of the switch, members of Plan
    Scale,             \* parameters are multiples of 1/Scale
    Wrap,              \* 2^32 in the code
    InitialCwnd,       \* the window a connection starts with, in segments
    InitialSsThresh,   \* m_initialSsThresh
    LowWindow,         \* m_hystartLowWindow
    CntClamp,          \* m_cntClamp
    FastConvergence, TcpFriendliness, HyStart,
    DupAckThresh,      \* m_retxThresh of the socket
    Flights,           \* bytes that may be in flight, whatever the window is
    MaxFlight,         \* bound: the most of them
    MaxAcked,          \* bound: segments acknowledged by one ACK
    MaxAbove,          \* bound: growth of the cubic beyond its origin
    MaxCwnd,           \* bound: segments of window beyond which no ACK comes
    MaxAcks            \* bound: number of segments acknowledged in all

Policies == {"TcpNewReno", "TcpCubic"}

\* first, second    the policies and their parameters
\* diff             m_secondCwndDiff
Plan == [first : [policy : Policies, par1 : Nat, par2 : Nat],
         second : [policy : Policies, par1 : Nat, par2 : Nat],
         diff : Int]

ASSUME CompositeAssumption ==
    /\ {SegmentSize, Scale, Wrap, MaxAcked, MaxCwnd, InitialCwnd} \subseteq Nat \ {0}
    /\ {InitialSsThresh, LowWindow, CntClamp, DupAckThresh, MaxAbove, MaxAcks, MaxFlight}
          \subseteq Nat
    /\ Flights \subseteq 0 .. MaxFlight
    /\ {FastConvergence, TcpFriendliness, HyStart} \subseteq BOOLEAN
    /\ Plans \subseteq Plan

\* NewReno's divisor is not 0; K of Cubic and TCP's estimate exist.  In the experiments
\* (genSwitchJobSub.py) Cubic has 0.7 and 0.4, NewReno 1 and 2; in an older list Cubic
\* has 0.5 to 0.9 and 0.4 or 0.8, NewReno 1 to 2 and 1 to 4.
ASSUME PolicyAssumption ==
    \A p \in Plans : \A q \in {p.first, p.second} :
        /\ q.policy = "TcpNewReno" => Scale <= q.par2
        /\ q.policy = "TcpCubic" => Scale <= 5 * q.par1 /\ q.par1 < Scale /\ 0 < q.par2

\* The most a window can be before the switch, in bytes: beyond MaxCwnd no ACK comes,
\* one ACK adds at most MaxAcked segments or, in NewReno, twice its increment, and a
\* recovery may leave what is in flight.
Increment(q) == (q.par1 * SegmentSize) \div Scale
Highest(q) ==
    (InitialCwnd + MaxCwnd + MaxAcked + 3) * SegmentSize + 2 * Increment(q) + MaxFlight

\* The initial threshold and HyStart's lowest window are at least two segments, and the
\* windows stay well below 32 bits.
ASSUME WindowAssumption ==
    /\ 2 <= LowWindow
    /\ 2 * SegmentSize <= InitialSsThresh /\ InitialSsThresh < Wrap
    /\ \A p \in Plans : Highest(p.first) < Wrap /\ Highest(p.first) + p.diff * SegmentSize < Wrap

VARIABLES
    cc,     \* the congestion control object
    tcb,    \* what it reads and writes of the socket's TcpSocketState
    sock,   \* where the socket is: [congState, dupAckCount]
    plan,   \* the attributes of the object
    hist    \* history: [switched, acks, peak], whether the switch is over, the segments
            \* acknowledged, the largest window that grew or met a recovery

vars == <<cc, tcb, sock, plan, hist>>

\* soon      Now() - m_epochStart < m_cubicDelta
\* detect    HyStart sees an ACK train or a delay increase
\* offs      before K, the eighths of (t - K)^3 / K^3; from K on, m_secondPar * (t - K)^3
Clock == [soon : BOOLEAN, detect : BOOLEAN, offs : {-7, -4} \cup 0 .. MaxAbove]

\* PktsAcked alone does not look at offs.
Samples == {x \in Clock : x.offs = 0}

\* The object the socket creates and configures.
\* k stands for m_bicK: K^3 = d / c.  delayKnown, epoch: m_delayMin, m_epochStart
\* are not Time::Min().  failed: the arithmetic that was not defined, by name.
CompositeInit(p) ==
    [policy |-> p.first.policy,
     par1 |-> p.first.par1, par2 |-> p.first.par2,
     cWndCnt |-> 0, lastMaxCwnd |-> 0, origin |-> 0, k |-> [d |-> 0, c |-> 1],
     delayKnown |-> FALSE, epoch |-> FALSE, found |-> FALSE, ackCnt |-> 0, tcpCwnd |-> 0,
     failed |-> {}]

Fail(c, name, bad) == IF bad THEN [c EXCEPT !.failed = @ \cup {name}] ELSE c

CwndInSegments(t) == t.cWnd \div SegmentSize

(***************************************************************************)
(* NewReno.                                                                *)
(***************************************************************************)
SlowStart(s, acked) ==
    IF acked >= 1
    THEN [s EXCEPT !.t.cWnd = (@ + ((s.c.par1 * SegmentSize) \div Scale)) % Wrap]
    ELSE s

CongestionAvoidance(s, acked) ==
    IF acked = 0 THEN s
    ELSE IF s.t.cWnd = 0 THEN [s EXCEPT !.c = Fail(@, "division by cWnd", TRUE)]
    ELSE LET adder == Max({1, (SegmentSize * SegmentSize) \div s.t.cWnd})
         IN  [s EXCEPT !.t.cWnd = (@ + ((s.c.par1 * adder) \div Scale)) % Wrap]

RenoIncrease(s, acked) ==
    LET slow == s.t.cWnd < s.t.ssThresh
        a == IF slow THEN SlowStart(s, acked) ELSE s
        rest == IF slow /\ acked >= 1 THEN acked - 1 ELSE acked
    IN  IF a.t.cWnd >= a.t.ssThresh THEN CongestionAvoidance(a, rest) ELSE a

(***************************************************************************)
(* Cubic.                                                                  *)
(***************************************************************************)
\* A faulty variant: the origin of the epoch before is kept.
StartEpochOldOrigin(c, segCwnd, acked) ==
    [c EXCEPT !.epoch = TRUE, !.ackCnt = acked, !.tcpCwnd = segCwnd,
              !.k = [d |-> Max({0, c.lastMaxCwnd - segCwnd}), c |-> c.par2]]

\* The first ACK after a loss starts an epoch, and a cubic from where it is.
StartEpoch(c, segCwnd, acked) ==
    [c EXCEPT !.epoch = TRUE, !.ackCnt = acked, !.tcpCwnd = segCwnd,
              !.origin = Max({segCwnd, c.lastMaxCwnd}),
              !.k = [d |-> Max({0, c.lastMaxCwnd - segCwnd}), c |-> c.par2]]

\* t < K; m_secondPar * |t - K|^3; and the window the cubic aims at.
BeforeK(c, x) == c.k.d > 0 /\ x.offs < 0

CubicDelta(c, x) ==
    IF BeforeK(c, x) THEN (c.par2 * c.k.d * (0 - x.offs)) \div (c.k.c * 8) ELSE Max({0, x.offs})

BicTarget(c, x) ==
    IF BeforeK(c, x) THEN (c.origin - CubicDelta(c, x)) % Wrap
                     ELSE (c.origin + CubicDelta(c, x)) % Wrap

\* How many ACKs TCP would need to grow by one, and the window it would have:
\* the loop takes delta from m_ackCnt as long as it can.
\* (A faulty variant: the shift comes before the product.)
FriendlyDeltaShiftFirst(c, segCwnd) ==
    (segCwnd \div 8) * ((8 * (Scale + c.par1)) \div (3 * (Scale - c.par1)))

FriendlyDelta(c, segCwnd) ==
    (segCwnd * ((8 * (Scale + c.par1)) \div (3 * (Scale - c.par1)))) \div 8

\* (A faulty variant: it takes delta once more.)
BefriendOnceMore(c, segCwnd) ==
    LET delta == FriendlyDelta(c, segCwnd)
        turns == 1 + (c.ackCnt - 1) \div delta
    IN  [c EXCEPT !.ackCnt = @ - turns * delta, !.tcpCwnd = @ + turns]

Befriend(c, segCwnd) ==
    LET delta == FriendlyDelta(c, segCwnd)
        turns == IF c.ackCnt > delta THEN (c.ackCnt - 1) \div delta ELSE 0
    IN  IF c.par1 >= Scale THEN Fail(c, "scale", TRUE)
        ELSE IF delta = 0 /\ c.ackCnt > 0 THEN Fail(c, "endless loop", TRUE)
        ELSE [c EXCEPT !.ackCnt = @ - turns * delta, !.tcpCwnd = @ + turns]

\* Update: the ACKs to wait for before the window grows by a segment, in .cnt.
Update(c, segCwnd, acked, x) ==
    LET e == IF c.epoch THEN [c EXCEPT !.ackCnt = @ + acked] ELSE StartEpoch(c, segCwnd, acked)
        target == BicTarget(e, x)
        byTarget == IF target > segCwnd THEN segCwnd \div (target - segCwnd) ELSE 100 * segCwnd
        clamped == IF e.lastMaxCwnd = 0 THEN Min({byTarget, CntClamp}) ELSE byTarget
        f == IF TcpFriendliness THEN Befriend(e, segCwnd) ELSE e
        cnt == IF TcpFriendliness /\ f.tcpCwnd > segCwnd
               THEN Min({clamped, segCwnd \div (f.tcpCwnd - segCwnd)}) ELSE clamped
    IN  [c   |-> Fail(Fail(f, "delay unknown", ~ c.delayKnown),
                      "below origin", BeforeK(e, x) /\ CubicDelta(e, x) > e.origin),
         cnt |-> Max({cnt, 2})]

CubicIncrease(s, acked, x) ==
    IF s.t.cWnd < s.t.ssThresh
    THEN [s EXCEPT !.t.cWnd = (@ + acked * SegmentSize) % Wrap]
    ELSE IF acked = 0 THEN s
    ELSE LET u == Update([s.c EXCEPT !.cWndCnt = @ + acked], CwndInSegments(s.t), acked, x)
         IN  IF u.c.cWndCnt >= u.cnt
             THEN [c |-> [u.c EXCEPT !.cWndCnt = @ - u.cnt],
                   t |-> [s.t EXCEPT !.cWnd = (@ + SegmentSize) % Wrap]]
             ELSE [s EXCEPT !.c = u.c]

(***************************************************************************)
(* What the socket calls.                                                  *)
(***************************************************************************)
IncreaseWindow(s, acked, x) ==
    CASE s.c.policy = "TcpNewReno" -> RenoIncrease(s, acked)
      [] s.c.policy = "TcpCubic" -> CubicIncrease(s, acked, x)
      [] OTHER -> s

HystartUpdate(s, x) ==
    IF s.c.found \/ ~ x.detect THEN s
    ELSE [c |-> [s.c EXCEPT !.found = TRUE],
          t |-> IF s.c.policy = "TcpCubic" THEN [s.t EXCEPT !.ssThresh = s.t.cWnd] ELSE s.t]

PktsAcked(s, x) ==
    LET known == [s EXCEPT !.c.delayKnown = TRUE]
    IN  IF s.c.epoch /\ x.soon THEN s
        ELSE IF HyStart /\ s.t.cWnd <= s.t.ssThresh /\ s.t.cWnd >= LowWindow * SegmentSize
        THEN HystartUpdate(known, x)
        ELSE known

\* Faulty variants: the epoch outlives the loss; fast convergence raises the plateau.
GetSsThreshKeepEpoch(s, inFlight) ==
    [s EXCEPT !.t.ssThresh = 2 * SegmentSize, !.c.lastMaxCwnd = CwndInSegments(s.t)]

GetSsThreshUnhalved(s, inFlight) ==
    LET segCwnd == CwndInSegments(s.t)
    IN  [s EXCEPT !.t.ssThresh = 2 * SegmentSize, !.c.epoch = FALSE,
                  !.c.lastMaxCwnd = IF segCwnd < s.c.lastMaxCwnd
                                    THEN (segCwnd * (Scale + s.c.par1)) \div Scale ELSE segCwnd]

GetSsThresh(s, inFlight) ==
    LET segCwnd == CwndInSegments(s.t)
        max == IF segCwnd < s.c.lastMaxCwnd /\ FastConvergence
               THEN (segCwnd * (Scale + s.c.par1)) \div (2 * Scale) ELSE segCwnd
        c == [s.c EXCEPT !.lastMaxCwnd = max, !.epoch = FALSE]
    IN  CASE c.policy = "TcpNewReno" /\ c.par2 < Scale ->
                [s EXCEPT !.c = Fail(c, "division by beta", TRUE)]
          [] c.policy = "TcpNewReno" /\ c.par2 >= Scale ->
                [c |-> c, t |-> [s.t EXCEPT !.ssThresh =
                    Max({2 * SegmentSize, inFlight \div (c.par2 \div Scale)})]]
          [] c.policy = "TcpCubic" ->
                [c |-> c, t |-> [s.t EXCEPT !.ssThresh =
                    Max({2, (segCwnd * c.par1) \div Scale}) * SegmentSize]]
          [] OTHER -> [c |-> c, t |-> [s.t EXCEPT !.ssThresh = Wrap - 1]]

\* A faulty variant: HyStart stays disarmed.
CubicResetKeepFound(c) ==
    [c EXCEPT !.lastMaxCwnd = 0, !.origin = 0, !.k = [d |-> 0, c |-> 1],
              !.ackCnt = 0, !.tcpCwnd = 0, !.delayKnown = FALSE]

\* On CA_LOSS; m_epochStart is left alone, GetSsThresh has reset it.
CubicReset(c) ==
    [c EXCEPT !.lastMaxCwnd = 0, !.origin = 0, !.k = [d |-> 0, c |-> 1],
              !.ackCnt = 0, !.tcpCwnd = 0, !.delayKnown = FALSE, !.found = FALSE]

\* A faulty variant: the difference is taken for bytes.
ChangeCwndBytes(t, diff) == [t EXCEPT !.cWnd = (@ + diff) % Wrap]

\* diff is converted to unsigned: a negative one wraps around.
ChangeCwnd(t, diff) == [t EXCEPT !.cWnd = (@ + diff * SegmentSize) % Wrap]

(***************************************************************************)
(* The handlers of the socket, as far as they call the object.             *)
(***************************************************************************)
Now == [c |-> cc, t |-> tcb]
Become(s) == cc' = s.c /\ tcb' = s.t

Reacts == tcb.cWnd <= MaxCwnd * SegmentSize

\* The windows a recovery algorithm may leave on entry and at a later ACK.  The classic
\* one takes the threshold and then keeps the window; TcpPrrRecovery takes the bytes in
\* flight and what it means to send, at first at least a segment.
EntryWindows(s, inFlight) ==
    {s.t.ssThresh} \cup {w \in Flights : w >= SegmentSize /\ w >= inFlight}
RecoveryWindows == {tcb.cWnd} \cup Flights

\* n more segments are acknowledged, when the window is w.
Record(n, w) ==
    /\ hist.acks + n <= MaxAcks
    /\ hist' = [hist EXCEPT !.acks = @ + n, !.peak = Max({@, w})]

Init ==
    /\ plan \in Plans
    /\ cc = CompositeInit(plan)
    /\ tcb = [cWnd |-> InitialCwnd * SegmentSize, ssThresh |-> InitialSsThresh]
    /\ sock = [congState |-> "CA_OPEN", dupAckCount |-> 0]
    /\ hist = [switched |-> FALSE, acks |-> 0, peak |-> 0]

\* An ACK of n segments in CA_OPEN.
AckInOpen(n, x) ==
    /\ Reacts /\ sock.congState = "CA_OPEN"
    /\ Become(IncreaseWindow(PktsAcked(Now, x), n, x))
    /\ Record(n, tcb.cWnd)
    /\ UNCHANGED <<sock, plan>>

\* The segments were reordered, not lost; the RTT sample is used only if more is
\* acknowledged than was by duplicates.
AckInDisorder(n, x) ==
    LET told == IF n >= sock.dupAckCount THEN PktsAcked(Now, x) ELSE Now
    IN  /\ Reacts /\ sock.congState = "CA_DISORDER"
        /\ Become(IncreaseWindow(told, n, x))
        /\ Record(n, tcb.cWnd)
        /\ sock' = [congState |-> "CA_OPEN", dupAckCount |-> 0]
        /\ UNCHANGED plan

\* A duplicate ACK that starts no recovery.  With SACK it may acknowledge new data
\* too, but less than the duplicates did: then it gives no sample.
DupAck(x) ==
    /\ sock.congState \in {"CA_OPEN", "CA_DISORDER"}
    /\ sock.dupAckCount + 1 < DupAckThresh
    /\ \/ Become(PktsAcked(Now, x))
       \/ sock.congState = "CA_DISORDER" /\ UNCHANGED <<cc, tcb>>
    /\ sock' = [congState |-> "CA_DISORDER", dupAckCount |-> sock.dupAckCount + 1]
    /\ UNCHANGED <<plan, hist>>

\* One that does: the last of DupAckThresh, or any when the scoreboard tells that the
\* head is lost.
EnterRecovery(inFlight, x) ==
    /\ sock.congState \in {"CA_OPEN", "CA_DISORDER"}
    /\ LET s == GetSsThresh(Now, inFlight)
       IN  \E w \in EntryWindows(s, inFlight) : Become(PktsAcked([s EXCEPT !.t.cWnd = w], x))
    /\ sock' = [congState |-> "CA_RECOVERY", dupAckCount |-> sock.dupAckCount + 1]
    /\ Record(0, tcb.cWnd)
    /\ UNCHANGED plan

\* A duplicate or partial ACK in recovery.
AckInRecovery(x) ==
    /\ sock.congState = "CA_RECOVERY"
    /\ \E w \in RecoveryWindows : Become(PktsAcked([Now EXCEPT !.t.cWnd = w], x))
    /\ UNCHANGED <<sock, plan, hist>>

\* A repeated ACK that counts as no duplicate: nothing new is sacked, or CA_LOSS.
RepeatedAck(x) ==
    /\ Become(PktsAcked(Now, x))
    /\ UNCHANGED <<sock, plan, hist>>

\* The ACK that ends it; a duplicate one is first given to the recovery algorithm.
ExitRecovery(n, x) ==
    /\ Reacts /\ sock.congState = "CA_RECOVERY"
    /\ \E w \in RecoveryWindows :
          LET told == PktsAcked([Now EXCEPT !.t.cWnd = w], x)
          IN  /\ Become(IncreaseWindow([told EXCEPT !.t.cWnd = told.t.ssThresh], n, x))
              /\ Record(n, told.t.ssThresh)
    /\ sock' = [congState |-> "CA_OPEN", dupAckCount |-> 0]
    /\ UNCHANGED plan

\* A new ACK after a timeout, below the recovery point or not.
AckInLoss(n, x) ==
    /\ Reacts /\ sock.congState = "CA_LOSS"
    /\ Become(IncreaseWindow(PktsAcked(Now, x), n, x))
    /\ Record(n, tcb.cWnd)
    /\ \E st \in {"CA_LOSS", "CA_OPEN"} : sock' = [sock EXCEPT !.congState = st]
    /\ UNCHANGED plan

\* GetSsThresh is called in CA_LOSS too: SetSentListLost has just cleared the mark that
\* IsHeadRetransmitted looks at.
ReTxTimeout(inFlight) ==
    LET s == GetSsThresh(Now, inFlight)
    IN  /\ Become([c |-> CubicReset(s.c), t |-> [s.t EXCEPT !.cWnd = SegmentSize]])
        /\ sock' = [congState |-> "CA_LOSS", dupAckCount |-> 0]
        /\ UNCHANGED <<plan, hist>>

\* The four events Init schedules for the switch time.  They have one timestamp
\* and consecutive numbers, so the simulator runs no other event between them.
SwitchPolicy ==
    /\ ~ hist.switched
    /\ cc' = [cc EXCEPT !.policy = plan.second.policy,
                        !.par1 = plan.second.par1, !.par2 = plan.second.par2]
    /\ tcb' = ChangeCwnd(tcb, plan.diff)
    /\ hist' = [hist EXCEPT !.switched = TRUE]
    /\ UNCHANGED <<sock, plan>>

Next ==
    \/ \E n \in 0 .. MaxAcked, x \in Clock :
          AckInOpen(n, x) \/ AckInDisorder(n, x) \/ ExitRecovery(n, x) \/ AckInLoss(n, x)
    \/ \E x \in Samples : DupAck(x) \/ AckInRecovery(x) \/ RepeatedAck(x)
    \/ \E f \in Flights, x \in Samples : EnterRecovery(f, x)
    \/ \E f \in Flights : ReTxTimeout(f)
    \/ SwitchPolicy

Spec == Init /\ [][Next]_vars

-----------------------------------------------------------------------------
(***************************************************************************)
(* Properties.                                                             *)
(***************************************************************************)

\* The counters are natural numbers, and window and threshold fit their 32 bits.
TypeOK ==
    /\ cc.policy \in Policies
    /\ {cc.cWndCnt, cc.lastMaxCwnd, cc.origin, cc.ackCnt, cc.tcpCwnd, cc.k.d} \subseteq Nat
    /\ tcb \in [cWnd : 0 .. (Wrap - 1), ssThresh : 0 .. (Wrap - 1)]

\* Update adds m_delayMin to the time in the epoch, and must never find it at
\* Time::Min().  PktsAcked drops samples in the first m_cubicDelta of an epoch, and a
\* timeout forgets m_delayMin but not the epoch: what saves the sum is that GetSsThresh
\* ends the epoch before every timeout, and that every handler samples before it grows.
DelayIsKnown == "delay unknown" \notin cc.failed

\* Before K the target of the cubic is below its origin ("// below origin" in Update):
\* the unsigned subtraction m_bicOriginPoint - delta does not wrap around.  It relies on
\* K, computed when the epoch began, and m_secondPar, read at every ACK, belonging
\* together: a switch between two Cubics inside an epoch keeps them so only if the two
\* have the same second parameter (SameCurve).
TargetIsBelowOrigin == "below origin" \notin cc.failed

SameCurve ==
    \A p \in Plans : p.first.policy = "TcpCubic" /\ p.second.policy = "TcpCubic"
                      => p.first.par2 = p.second.par2

\* The loop of Update that estimates the window of standard TCP subtracts delta until
\* m_ackCnt is at most delta.  It ends only if delta is not 0, that is if congestion
\* avoidance is never entered with a window too small: whatever set the window and the
\* threshold, a loss, a timeout, HyStart, the recovery algorithm or the switch.
UpdateTerminates == "endless loop" \notin cc.failed

\* Cubic aims at no plateau that the window never reached ("Last maximum cWnd",
\* tcp-composite.h): neither the plateau it takes over from NewReno at the switch nor
\* fast convergence, a recovery that leaves another window or HyStart in it makes
\* m_lastMaxCwnd or m_bicOriginPoint larger than any window that ever grew or met a loss.
\* GetSsThresh takes fast convergence's factor from m_firstPar of either policy: the
\* first parameter of a NewReno that goes first must not be above 1 (ModestFirst).
PlateauWasReached ==
    cc.policy = "TcpCubic"
    => /\ cc.lastMaxCwnd * SegmentSize <= hist.peak
       /\ cc.origin * SegmentSize <= hist.peak

ModestFirst == \A p \in Plans : p.first.policy = "TcpNewReno" => p.first.par1 <= Scale

\* HyStart watches every slow start of a connection that began with Cubic ("Either one of
\* two conditions are met, we exit from slow start immediately"): m_found, which disarms
\* it, is never left set by an earlier slow start, a recovery or a timeout.  (After a
\* switch from NewReno it can be, for HyStart sets it there too.)
SlowStartIsWatched ==
    /\ cc.policy = "TcpCubic" /\ ~ hist.switched
    /\ sock.congState = "CA_OPEN" /\ tcb.cWnd < tcb.ssThresh
    => ~ cc.found

\* The switch changes the window by m_secondCwndDiff segments, "Difference between the
\* cwnd of the two policies" (GetTypeId).
SwitchChangesByDiff ==
    [][~ hist.switched /\ hist'.switched => tcb'.cWnd - tcb.cWnd = plan.diff * SegmentSize]_vars
=============================================================================
