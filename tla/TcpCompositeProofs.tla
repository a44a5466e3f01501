------------------------- MODULE TcpCompositeProofs -------------------------
(***************************************************************************)
(* Proofs about the composite congestion control, for every plan of the    *)
(* switch, segment size, window and bound that the assumptions of          *)
(* TcpComposite allow.                                                     *)
(*                                                                         *)
(* Each operator has a lemma that says what it keeps and what it changes;  *)
(* from these follow the steps of the handlers (a sample, growth, a loss,  *)
(* a recovery, the switch), and from those the invariant CompositeInv.     *)
(***************************************************************************)
EXTENDS TcpComposite, TLAPS

(***************************************************************************)
(* Types, and the parts of the invariant.                                  *)
(***************************************************************************)

Word == 0 .. (Wrap - 1)

\* The names Fail is called with.
Failures == {"division by cWnd", "division by beta", "scale", "endless loop",
             "delay unknown", "below origin"}

CompositeType ==
    [policy : Policies, par1 : Nat, par2 : Nat, cWndCnt : Nat, lastMaxCwnd : Nat, origin : Nat,
     k : [d : Nat, c : Nat \ {0}], delayKnown : BOOLEAN, epoch : BOOLEAN, found : BOOLEAN,
     ackCnt : Nat, tcpCwnd : Nat, failed : SUBSET Failures]

TcbType == [cWnd : Word, ssThresh : Word]

StateType == [c : CompositeType, t : TcbType]

\* The parameters of a policy, as PolicyAssumption has them.
Configured(c) ==
    /\ c.policy = "TcpNewReno" => Scale <= c.par2
    /\ c.policy = "TcpCubic" => Scale <= 5 * c.par1 /\ c.par1 < Scale /\ 0 < c.par2

\* The parts of the object that no ACK changes.
SamePolicy(a, b) == a.policy = b.policy /\ a.par1 = b.par1 /\ a.par2 = b.par2

\* In an epoch K belongs to the origin, and to the parameter unless a switch changed it.
CubicShape(c) == c.epoch => c.k.d <= c.origin /\ (SameCurve => c.k.c = c.par2)

\* None of the three things that can go wrong in Update has.
Sound(c) ==
    /\ "delay unknown" \notin c.failed
    /\ SameCurve => "below origin" \notin c.failed
    /\ "endless loop" \notin c.failed

(***************************************************************************)
(* Arithmetic.                                                             *)
(***************************************************************************)
LEMMA MaxPair ==
    ASSUME NEW a \in Int, NEW b \in Int
    PROVE  Max({a, b}) = IF a > b THEN a ELSE b
BY DEF Max

LEMMA MinPair ==
    ASSUME NEW a \in Int, NEW b \in Int
    PROVE  Min({a, b}) = IF a < b THEN a ELSE b
BY DEF Min

LEMMA DivNat ==
    ASSUME NEW a \in Nat, NEW b \in Nat \ {0}
    PROVE  a \div b \in Nat /\ (a \div b) * b <= a /\ a \div b <= a
OBVIOUS

LEMMA ModWord == ASSUME NEW a \in Int PROVE a % Wrap \in Word /\ (a \in Word => a % Wrap = a)
BY CompositeAssumption DEF Word

(***************************************************************************)
(* Cubic: an epoch, the target, and TCP's estimate.                        *)
(***************************************************************************)
LEMMA FailType ==
    ASSUME NEW c \in CompositeType, NEW name \in Failures, NEW bad \in BOOLEAN
    PROVE  /\ Fail(c, name, bad) \in CompositeType
           /\ Fail(c, name, bad) = [c EXCEPT !.failed = IF bad THEN @ \cup {name} ELSE @]
BY DEF Fail, CompositeType

\* A new epoch: K belongs to the parameter, and the cubic is below its origin.
LEMMA StartEpochType ==
    ASSUME NEW c \in CompositeType, NEW segCwnd \in Nat, NEW acked \in Nat, 0 < c.par2
    PROVE  LET e == StartEpoch(c, segCwnd, acked)
           IN  /\ e \in CompositeType /\ SamePolicy(e, c)
               /\ e.epoch = TRUE /\ e.k.d <= e.origin /\ e.k.c = c.par2
               /\ e.lastMaxCwnd = c.lastMaxCwnd /\ (e.origin = segCwnd \/ e.origin = c.lastMaxCwnd)
               /\ e.cWndCnt = c.cWndCnt /\ e.delayKnown = c.delayKnown /\ e.found = c.found
               /\ e.failed = c.failed
<1> DEFINE o == Max({segCwnd, c.lastMaxCwnd})
           d == Max({0, c.lastMaxCwnd - segCwnd})
           kk == [d |-> d, c |-> c.par2]
<1>1. c.lastMaxCwnd - segCwnd \in Int /\ c.lastMaxCwnd \in Nat /\ c.par2 \in Nat
  BY DEF CompositeType
<1>2. o \in Nat /\ d \in Nat /\ d <= o /\ o \in {segCwnd, c.lastMaxCwnd}
  BY <1>1, MaxPair
<1>3. StartEpoch(c, segCwnd, acked) =
        [c EXCEPT !.epoch = TRUE, !.ackCnt = acked, !.tcpCwnd = segCwnd, !.origin = o, !.k = kk]
  BY Zenon DEF StartEpoch
<1> HIDE DEF o, d
<1>4. kk \in [d : Nat, c : Nat \ {0}] /\ kk.d = d /\ kk.c = c.par2
  BY <1>1, <1>2
<1> HIDE DEF kk
<1> QED
  BY <1>2, <1>3, <1>4 DEF CompositeType, SamePolicy

\* TCP needs at least one ACK to grow a window of two segments.
LEMMA FriendlyDeltaNat ==
    ASSUME NEW c \in CompositeType, NEW segCwnd \in Nat, c.par1 < Scale
    PROVE  /\ FriendlyDelta(c, segCwnd) \in Nat
           /\ Scale <= 5 * c.par1 /\ 2 <= segCwnd => 1 <= FriendlyDelta(c, segCwnd)
<1> DEFINE num == 8 * (Scale + c.par1)
           den == 3 * (Scale - c.par1)
           q == num \div den
<1>1. c.par1 \in Nat /\ Scale \in Nat \ {0}
  BY CompositeAssumption DEF CompositeType
<1>2. num \in Nat /\ den \in Nat \ {0} /\ (Scale <= 5 * c.par1 => 4 * den <= num)
  BY <1>1
<1>3. q \in Nat /\ (4 * den <= num => 4 <= q)
  <2> HIDE DEF num, den
  <2> QED BY <1>2
<1>4. segCwnd * q \in Nat /\ (4 <= q /\ 2 <= segCwnd => 8 <= segCwnd * q)
  <2> HIDE DEF q
  <2>1. segCwnd * q \in Nat
    BY <1>3
  <2>2. ASSUME 4 <= q, 2 <= segCwnd PROVE 8 <= segCwnd * q
    BY <1>3, <2>2
  <2> QED BY <2>1, <2>2
<1>5. FriendlyDelta(c, segCwnd) = (segCwnd * q) \div 8
  BY DEF FriendlyDelta
<1> HIDE DEF q
<1> QED
  BY <1>2, <1>3, <1>4, <1>5

\* The estimate takes from m_ackCnt no more than there is.
LEMMA BefriendKeeps ==
    ASSUME NEW c \in CompositeType, NEW segCwnd \in Nat, c.par1 < Scale
    PROVE  LET f == Befriend(c, segCwnd)
           IN  /\ f \in CompositeType
               /\ SamePolicy(f, c)
               /\ f.cWndCnt = c.cWndCnt /\ f.lastMaxCwnd = c.lastMaxCwnd /\ f.origin = c.origin
               /\ f.k = c.k /\ f.delayKnown = c.delayKnown /\ f.epoch = c.epoch
               /\ f.found = c.found
               /\ f.failed \subseteq c.failed \cup {"endless loop"}
               /\ Scale <= 5 * c.par1 /\ 2 <= segCwnd => f.failed = c.failed
<1> DEFINE delta == FriendlyDelta(c, segCwnd)
           turns == IF c.ackCnt > delta THEN (c.ackCnt - 1) \div delta ELSE 0
           left == c.ackCnt - turns * delta
           est == c.tcpCwnd + turns
<1>1. c.ackCnt \in Nat /\ c.tcpCwnd \in Nat /\ c.par1 \in Nat /\ Scale \in Nat
  BY CompositeAssumption DEF CompositeType
<1>2. delta \in Nat /\ (Scale <= 5 * c.par1 /\ 2 <= segCwnd => 1 <= delta)
  BY FriendlyDeltaNat
<1>3. Befriend(c, segCwnd) = IF delta = 0 /\ c.ackCnt > 0 THEN Fail(c, "endless loop", TRUE)
                             ELSE [c EXCEPT !.ackCnt = left, !.tcpCwnd = est]
  <2>1. Befriend(c, segCwnd) =
          IF c.par1 >= Scale THEN Fail(c, "scale", TRUE)
          ELSE IF delta = 0 /\ c.ackCnt > 0 THEN Fail(c, "endless loop", TRUE)
          ELSE [c EXCEPT !.ackCnt = left, !.tcpCwnd = est]
    BY Zenon DEF Befriend
  <2>2. ~ (c.par1 >= Scale)
    BY <1>1
  <2> QED
    BY <2>1, <2>2, Zenon
<1> HIDE DEF delta
<1>4. CASE delta = 0 /\ c.ackCnt > 0
  <2> DEFINE F == c.failed \cup {"endless loop"}
  <2>1. Befriend(c, segCwnd) = [c EXCEPT !.failed = F]
    BY <1>3, <1>4 DEF Fail
  <2>2. F \in SUBSET Failures /\ F \subseteq c.failed \cup {"endless loop"}
    BY DEF CompositeType, Failures
  <2>3. ~ (Scale <= 5 * c.par1 /\ 2 <= segCwnd)
    BY <1>2, <1>4
  <2> HIDE DEF F
  <2> QED
    BY <2>1, <2>2, <2>3 DEF CompositeType, SamePolicy
<1>5. CASE ~ (delta = 0 /\ c.ackCnt > 0)
  <2>1. left \in Nat /\ est \in Nat
    <3>1. CASE c.ackCnt > delta
      <4>1. delta \in Nat \ {0} /\ c.ackCnt - 1 \in Nat
        BY <1>1, <1>2, <1>5, <3>1
      <4>2. turns \in Nat /\ turns * delta <= c.ackCnt - 1
        BY <3>1, <4>1, DivNat
      <4>3. turns * delta \in Nat
        <5> HIDE DEF turns
        <5> QED BY <4>1, <4>2
      <4> HIDE DEF turns
      <4> QED BY <1>1, <4>2, <4>3
    <3>2. CASE ~ (c.ackCnt > delta)
      BY <1>1, <1>2, <3>2
    <3> QED BY <3>1, <3>2
  <2> HIDE DEF left, est
  <2> QED
    BY <1>3, <1>5, <2>1 DEF CompositeType, SamePolicy
<1> QED
  BY <1>4, <1>5

\* Before K the cubic is below its origin, by at most d if K belongs to the parameter.
LEMMA CubicDeltaBelow ==
    ASSUME NEW c \in CompositeType, NEW x \in Clock, c.k.d <= c.origin
    PROVE  /\ CubicDelta(c, x) \in Nat
           /\ BicTarget(c, x) \in Nat
           /\ c.k.c = c.par2 => ~ (BeforeK(c, x) /\ CubicDelta(c, x) > c.origin)
<1>1. /\ c.par2 \in Nat /\ c.k.c \in Nat \ {0} /\ c.k.d \in Nat /\ c.origin \in Nat
      /\ x.offs \in {-7, -4} \/ x.offs \in Nat
  BY CompositeAssumption DEF CompositeType, Clock
<1>2. CASE BeforeK(c, x)
  <2>1. x.offs = -7 \/ x.offs = -4
    BY <1>1, <1>2 DEF BeforeK
  <2> DEFINE e == 0 - x.offs
             p == c.par2
             k == c.k.c
             d == c.k.d
  <2>2. CubicDelta(c, x) = (p * d * e) \div (k * 8)
    BY <1>2 DEF CubicDelta
  <2>3. e \in Nat /\ e <= 8
    BY <2>1
  <2>4. p \in Nat /\ k \in Nat \ {0} /\ d \in Nat
    BY <1>1
  <2> HIDE DEF e, p, k, d
  <2>5. d * e \in Nat /\ d * e <= d * 8
    BY <2>3, <2>4
  <2>6. (p * d * e) \div (k * 8) \in Nat
    <3>1. p * d * e \in Nat /\ k * 8 \in Nat \ {0}
      BY <2>3, <2>4
    <3> QED BY <3>1, DivNat
  <2>7. k = p => (p * d * e) \div (k * 8) = (d * e) \div 8
    BY <2>3, <2>4, <2>5
  <2>8. (d * e) \div 8 \in Nat /\ (d * e) \div 8 <= d
    BY <2>4, <2>5
  <2>9. /\ CubicDelta(c, x) \in Nat
        /\ c.k.c = c.par2 => CubicDelta(c, x) <= c.origin
    BY <1>1, <2>2, <2>6, <2>7, <2>8 DEF d, k, p
  <2>10. BicTarget(c, x) \in Nat
    <3>1. c.origin - CubicDelta(c, x) \in Int
      BY <1>1, <2>9
    <3> QED
      BY <1>2, <3>1, ModWord DEF BicTarget, Word
  <2> QED
    BY <1>1, <2>9, <2>10
<1>3. CASE ~ BeforeK(c, x)
  <2>1. CubicDelta(c, x) \in Nat
    BY <1>1, <1>3, MaxPair DEF CubicDelta
  <2>2. c.origin + CubicDelta(c, x) \in Int
    BY <1>1, <2>1
  <2> QED
    BY <1>3, <2>1, <2>2, ModWord DEF BicTarget, Word
<1> QED
  BY <1>2, <1>3

\* What an Update leaves: it keeps the policy, what is not Cubic's and the shape of
\* the cubic, starts it at the last maximum or the window, waits for at least two ACKs,
\* and nothing goes wrong in it.
LEMMA UpdateKeeps ==
    ASSUME NEW c \in CompositeType, NEW segCwnd \in Nat, NEW acked \in Nat, NEW x \in Clock,
           c.policy = "TcpCubic", Configured(c), CubicShape(c)
    PROVE  LET u == Update(c, segCwnd, acked, x)
           IN  /\ u.c \in CompositeType
               /\ u.cnt \in Nat /\ 2 <= u.cnt
               /\ SamePolicy(u.c, c) /\ CubicShape(u.c)
               /\ u.c.cWndCnt = c.cWndCnt /\ u.c.delayKnown = c.delayKnown
               /\ u.c.found = c.found
               /\ u.c.lastMaxCwnd = c.lastMaxCwnd
               /\ u.c.origin \in {c.origin, segCwnd, c.lastMaxCwnd}
               /\ Sound(c) /\ c.delayKnown /\ 2 <= segCwnd => Sound(u.c)
<1> DEFINE e == IF c.epoch THEN [c EXCEPT !.ackCnt = @ + acked] ELSE StartEpoch(c, segCwnd, acked)
           target == BicTarget(e, x)
           byTarget == IF target > segCwnd THEN segCwnd \div (target - segCwnd) ELSE 100 * segCwnd
           clamped == IF e.lastMaxCwnd = 0 THEN Min({byTarget, CntClamp}) ELSE byTarget
           f == IF TcpFriendliness THEN Befriend(e, segCwnd) ELSE e
           cnt == IF TcpFriendliness /\ f.tcpCwnd > segCwnd
                  THEN Min({clamped, segCwnd \div (f.tcpCwnd - segCwnd)}) ELSE clamped
           bad == BeforeK(e, x) /\ CubicDelta(e, x) > e.origin
           r == Fail(Fail(f, "delay unknown", ~ c.delayKnown), "below origin", bad)
           u == [c |-> r, cnt |-> Max({cnt, 2})]
<1>0. Update(c, segCwnd, acked, x) = u
  BY Zenon DEF Update
<1>1. c.par1 < Scale /\ Scale <= 5 * c.par1 /\ 0 < c.par2 /\ CntClamp \in Nat
      /\ TcpFriendliness \in BOOLEAN
  BY CompositeAssumption DEF Configured
<1>2. /\ e \in CompositeType /\ SamePolicy(e, c) /\ e.epoch = TRUE
      /\ e.k.d <= e.origin /\ (SameCurve => e.k.c = e.par2)
      /\ e.lastMaxCwnd = c.lastMaxCwnd /\ e.origin \in {c.origin, segCwnd, c.lastMaxCwnd}
      /\ e.cWndCnt = c.cWndCnt /\ e.delayKnown = c.delayKnown /\ e.found = c.found
      /\ e.failed = c.failed
  <2>1. CASE c.epoch
    <3>1. c.ackCnt + acked \in Nat
      BY DEF CompositeType
    <3> QED
      BY <2>1, <3>1 DEF CompositeType, SamePolicy, CubicShape
  <2>2. CASE ~ c.epoch
    <3>1. e = StartEpoch(c, segCwnd, acked)
      BY <2>2, Zenon
    <3> HIDE DEF e
    <3>2. e \in CompositeType /\ SamePolicy(e, c)
      BY <1>1, <3>1, StartEpochType, Zenon
    <3>3. e.epoch = TRUE /\ e.k.d <= e.origin /\ e.k.c = c.par2
      BY <1>1, <3>1, StartEpochType, Zenon
    <3>4. /\ e.cWndCnt = c.cWndCnt /\ e.delayKnown = c.delayKnown /\ e.found = c.found
          /\ e.failed = c.failed
      BY <1>1, <3>1, StartEpochType, Zenon
    <3>5. e.lastMaxCwnd = c.lastMaxCwnd /\ (e.origin = segCwnd \/ e.origin = c.lastMaxCwnd)
      BY <1>1, <3>1, StartEpochType, Zenon
    <3> QED
      BY <3>2, <3>3, <3>4, <3>5 DEF SamePolicy
  <2> QED BY <2>1, <2>2
<1> HIDE DEF e
<1>3. /\ f \in CompositeType /\ SamePolicy(f, e) /\ f.epoch = TRUE
      /\ f.k = e.k /\ f.origin = e.origin /\ f.lastMaxCwnd = e.lastMaxCwnd
      /\ f.cWndCnt = e.cWndCnt /\ f.delayKnown = e.delayKnown /\ f.found = e.found
      /\ 2 <= segCwnd => f.failed = e.failed
  <2>1. e.par1 < Scale /\ Scale <= 5 * e.par1
    BY <1>1, <1>2 DEF SamePolicy
  <2> QED
    BY <1>2, <2>1, BefriendKeeps DEF SamePolicy
<1>4. target \in Nat /\ (SameCurve => ~ bad)
  BY <1>2, CubicDeltaBelow
<1>5. r = Fail(Fail(f, "delay unknown", ~ c.delayKnown), "below origin", bad) /\ bad \in BOOLEAN
  BY Zenon
<1> HIDE DEF f, target, bad
<1>6. Max({cnt, 2}) \in Nat /\ 2 <= Max({cnt, 2})
  <2>1. byTarget \in Nat
    BY <1>4
  <2> HIDE DEF byTarget
  <2>2. clamped \in Nat
    BY <1>1, <2>1, MinPair
  <2> HIDE DEF clamped
  <2>3. f.tcpCwnd \in Nat
    BY <1>3 DEF CompositeType
  <2>4. cnt \in Nat
    <3>1. CASE f.tcpCwnd > segCwnd
      <4>1. segCwnd \div (f.tcpCwnd - segCwnd) \in Nat
        BY <2>3, <3>1
      <4> QED
        BY <2>2, <4>1, MinPair
    <3>2. CASE ~ (f.tcpCwnd > segCwnd)
      BY <2>2, <3>2
    <3> QED BY <3>1, <3>2
  <2> HIDE DEF cnt
  <2> QED
    BY <2>4, MaxPair
<1> HIDE DEF cnt
<1>7. /\ r \in CompositeType /\ SamePolicy(r, f) /\ r.epoch = f.epoch
      /\ r.k = f.k /\ r.origin = f.origin /\ r.lastMaxCwnd = f.lastMaxCwnd
      /\ r.cWndCnt = f.cWndCnt /\ r.delayKnown = f.delayKnown /\ r.found = f.found
      /\ c.delayKnown => r.failed \subseteq f.failed \cup {"below origin"}
      /\ c.delayKnown /\ ~ bad => r.failed = f.failed
  <2> DEFINE g == Fail(f, "delay unknown", ~ c.delayKnown)
             F == IF c.delayKnown THEN f.failed ELSE f.failed \cup {"delay unknown"}
             G == IF bad THEN F \cup {"below origin"} ELSE F
  <2> HIDE DEF r
  <2>1. c.delayKnown \in BOOLEAN /\ (~ c.delayKnown) \in BOOLEAN
    BY DEF CompositeType
  <2>2. g \in CompositeType /\ g = [f EXCEPT !.failed = F]
    <3>1. "delay unknown" \in Failures
      BY DEF Failures
    <3> QED
      BY <1>3, <2>1, <3>1, FailType
  <2>3. F \in SUBSET Failures /\ G \in SUBSET Failures
    BY <1>3 DEF CompositeType, Failures
  <2>4. r = IF bad THEN [g EXCEPT !.failed = g.failed \cup {"below origin"}] ELSE g
    BY <1>5, Zenon DEF Fail
  <2> HIDE DEF g
  <2>5. g.failed = F
    <3> HIDE DEF F
    <3> QED BY <1>3, <2>2 DEF CompositeType
  <2>6. r = [f EXCEPT !.failed = G]
    <3>1. CASE bad
      <4> HIDE DEF F
      <4> QED BY <1>3, <2>2, <2>4, <2>5, <3>1 DEF CompositeType
    <3>2. CASE ~ bad
      BY <2>2, <2>4, <3>2
    <3> QED BY <3>1, <3>2
  <2>7. /\ c.delayKnown => G \subseteq f.failed \cup {"below origin"}
        /\ c.delayKnown /\ ~ bad => G = f.failed
    OBVIOUS
  <2> HIDE DEF G
  <2> QED
    BY <1>3, <2>3, <2>6, <2>7 DEF CompositeType, SamePolicy
<1> HIDE DEF r
<1>8. u.c = r /\ u.cnt = Max({cnt, 2})
  OBVIOUS
<1> HIDE DEF u
<1>9. ASSUME Sound(c), c.delayKnown, 2 <= segCwnd PROVE Sound(r)
  <2>1. f.failed = c.failed /\ r.failed \subseteq f.failed \cup {"below origin"}
        /\ (SameCurve => r.failed = f.failed)
    BY <1>2, <1>3, <1>4, <1>7, <1>9
  <2> QED
    BY <1>9, <2>1 DEF Sound
<1>10. SamePolicy(r, c) /\ CubicShape(r)
  BY <1>2, <1>3, <1>7 DEF SamePolicy, CubicShape
<1> QED
  BY <1>0, <1>2, <1>3, <1>6, <1>7, <1>8, <1>9, <1>10

(***************************************************************************)
(* The operations of the object.                                           *)
(***************************************************************************)
\* The most IncreaseWindow adds for an ACK of n segments.
MostAdded(s, n) ==
    IF s.c.policy = "TcpCubic"
    THEN IF s.t.cWnd < s.t.ssThresh THEN n * SegmentSize ELSE SegmentSize
    ELSE IF s.t.cWnd < s.t.ssThresh THEN 2 * Increment(s.c) ELSE Increment(s.c)

\* From a to b by at most g, if that does not wrap around.
Grows(a, b, g) == a + g < Wrap => a <= b /\ b <= a + g

\* An unsigned addition grows if it does not wrap around.
LEMMA WrapGrows ==
    ASSUME NEW a \in Nat, NEW g \in Nat, NEW h \in Nat, g <= h
    PROVE  (a + g) % Wrap \in Word /\ Grows(a, (a + g) % Wrap, h)
<1>1. a + g \in Int /\ Wrap \in Nat \ {0}
  BY CompositeAssumption
<1>2. (a + g) % Wrap \in Word
  BY <1>1, ModWord
<1>3. ASSUME a + h < Wrap PROVE (a + g) % Wrap = a + g
  <2>1. a + g \in Word
    BY <1>1, <1>3 DEF Word
  <2> QED BY <1>1, <2>1, ModWord
<1> QED
  BY <1>2, <1>3 DEF Grows

\* The fields of a state, and its window in segments.
LEMMA StateFields ==
    ASSUME NEW s \in StateType
    PROVE  /\ s.c \in CompositeType
           /\ s.t \in TcbType
           /\ s.t.cWnd \in Nat /\ s.t.cWnd < Wrap
           /\ s.t.ssThresh \in Nat /\ s.t.ssThresh < Wrap
           /\ CwndInSegments(s.t) \in Nat
           /\ CwndInSegments(s.t) * SegmentSize <= s.t.cWnd
           /\ 2 * SegmentSize <= s.t.cWnd => 2 <= CwndInSegments(s.t)
<1>1. s.c \in CompositeType /\ s.t \in TcbType
  BY DEF StateType
<1>2. /\ s.t.cWnd \in Nat /\ s.t.cWnd < Wrap
      /\ s.t.ssThresh \in Nat /\ s.t.ssThresh < Wrap
  BY <1>1, CompositeAssumption DEF TcbType, Word
<1>3. SegmentSize \in Nat \ {0}
  BY CompositeAssumption
<1> QED
  BY <1>1, <1>2, <1>3 DEF CwndInSegments

\* Cubic in slow start and in avoidance; there the window is two segments or more.
LEMMA CubicIncreaseKeeps ==
    ASSUME NEW s \in StateType, NEW n \in Nat, NEW x \in Clock,
           s.c.policy = "TcpCubic", Configured(s.c), CubicShape(s.c)
    PROVE  LET r == CubicIncrease(s, n, x)
           IN  /\ r \in StateType /\ SamePolicy(r.c, s.c)
               /\ r.t.ssThresh = s.t.ssThresh
               /\ r.c.delayKnown = s.c.delayKnown /\ r.c.found = s.c.found
               /\ r.c.lastMaxCwnd = s.c.lastMaxCwnd
               /\ r.c.origin \in {s.c.origin, s.c.lastMaxCwnd, CwndInSegments(s.t)}
               /\ CubicShape(r.c)
               /\ Sound(s.c) /\ s.c.delayKnown /\ 2 * SegmentSize <= s.t.ssThresh => Sound(r.c)
               /\ Grows(s.t.cWnd, r.t.cWnd, MostAdded(s, n))
<1>1. SegmentSize \in Nat \ {0} /\ Wrap \in Nat \ {0}
  BY CompositeAssumption
<1>2. CASE s.t.cWnd < s.t.ssThresh
  <2> DEFINE w == (s.t.cWnd + n * SegmentSize) % Wrap
  <2>1. CubicIncrease(s, n, x) = [s EXCEPT !.t.cWnd = w]
    BY <1>2 DEF CubicIncrease
  <2>2. n * SegmentSize \in Nat
    BY <1>1
  <2>3. w \in Word /\ Grows(s.t.cWnd, w, MostAdded(s, n))
    <3>1. MostAdded(s, n) = n * SegmentSize /\ s.t.cWnd \in Nat
      BY <1>2, StateFields DEF MostAdded
    <3> QED
      BY <2>2, <3>1, WrapGrows
  <2> HIDE DEF w
  <2>4. LET r == [s EXCEPT !.t.cWnd = w]
        IN  /\ r \in StateType /\ r.c = s.c /\ r.t.ssThresh = s.t.ssThresh /\ r.t.cWnd = w
    BY <2>3 DEF StateType, TcbType
  <2> QED
    BY <2>1, <2>3, <2>4 DEF SamePolicy
<1>3. CASE ~ (s.t.cWnd < s.t.ssThresh) /\ n = 0
  <2>1. CubicIncrease(s, n, x) = s
    BY <1>3 DEF CubicIncrease
  <2> QED
    BY <1>1, <1>3, <2>1, StateFields DEF SamePolicy, Grows, MostAdded
<1>4. CASE ~ (s.t.cWnd < s.t.ssThresh) /\ n # 0
  <2> DEFINE c == [s.c EXCEPT !.cWndCnt = @ + n]
             u == Update(c, CwndInSegments(s.t), n, x)
             w == (s.t.cWnd + SegmentSize) % Wrap
             r == IF u.c.cWndCnt >= u.cnt
                  THEN [c |-> [u.c EXCEPT !.cWndCnt = @ - u.cnt], t |-> [s.t EXCEPT !.cWnd = w]]
                  ELSE [s EXCEPT !.c = u.c]
  <2>1. CubicIncrease(s, n, x) = r
    BY <1>4, Zenon DEF CubicIncrease
  <2>2. /\ c \in CompositeType /\ SamePolicy(c, s.c)
        /\ c.delayKnown = s.c.delayKnown /\ c.found = s.c.found
        /\ c.epoch = s.c.epoch /\ c.k = s.c.k /\ c.origin = s.c.origin /\ c.failed = s.c.failed
        /\ c.lastMaxCwnd = s.c.lastMaxCwnd
    <3>1. s.c \in CompositeType
      BY StateFields
    <3>2. s.c.cWndCnt + n \in Nat
      BY <3>1 DEF CompositeType
    <3> QED
      BY <3>1, <3>2 DEF CompositeType, SamePolicy
  <2>3. c.policy = "TcpCubic" /\ Configured(c) /\ CubicShape(c) /\ (Sound(s.c) => Sound(c))
    BY <2>2 DEF SamePolicy, Configured, CubicShape, Sound
  <2>4. CwndInSegments(s.t) \in Nat
    BY StateFields
  <2> HIDE DEF c
  <2>5. /\ u.c \in CompositeType
        /\ u.cnt \in Nat /\ 2 <= u.cnt
        /\ SamePolicy(u.c, c) /\ CubicShape(u.c)
        /\ u.c.cWndCnt = c.cWndCnt /\ u.c.delayKnown = c.delayKnown
        /\ u.c.found = c.found
        /\ u.c.lastMaxCwnd = c.lastMaxCwnd
        /\ u.c.origin \in {c.origin, CwndInSegments(s.t), c.lastMaxCwnd}
        /\ Sound(c) /\ c.delayKnown /\ 2 <= CwndInSegments(s.t) => Sound(u.c)
    BY <2>2, <2>3, <2>4, UpdateKeeps, Zenon
  <2> HIDE DEF u
  <2>6. w \in Word /\ Grows(s.t.cWnd, w, MostAdded(s, n))
    <3>1. MostAdded(s, n) = SegmentSize /\ s.t.cWnd \in Nat
      BY <1>4, StateFields DEF MostAdded
    <3> QED
      BY <1>1, <3>1, WrapGrows
  <2> HIDE DEF w
  <2>7. /\ r \in StateType /\ SamePolicy(r.c, u.c) /\ CubicShape(r.c)
        /\ r.t.ssThresh = s.t.ssThresh
        /\ r.c.delayKnown = u.c.delayKnown /\ r.c.found = u.c.found
        /\ r.c.failed = u.c.failed
        /\ r.c.lastMaxCwnd = u.c.lastMaxCwnd /\ r.c.origin = u.c.origin
        /\ r.t.cWnd = s.t.cWnd \/ r.t.cWnd = w
    <3>1. CASE u.c.cWndCnt >= u.cnt
      <4> DEFINE left == u.c.cWndCnt - u.cnt
                 v == [u.c EXCEPT !.cWndCnt = left]
                 t == [s.t EXCEPT !.cWnd = w]
      <4>1. r = [c |-> v, t |-> t]
        BY <3>1
      <4>2. left \in Nat
        BY <2>5, <3>1 DEF CompositeType
      <4> HIDE DEF left
      <4>3. v \in CompositeType /\ SamePolicy(v, u.c) /\ CubicShape(v)
            /\ v.delayKnown = u.c.delayKnown /\ v.found = u.c.found /\ v.failed = u.c.failed
            /\ v.lastMaxCwnd = u.c.lastMaxCwnd /\ v.origin = u.c.origin
        BY <2>5, <4>2 DEF CompositeType, SamePolicy, CubicShape
      <4>4. t \in TcbType /\ t.cWnd = w /\ t.ssThresh = s.t.ssThresh
        BY <2>6, StateFields DEF TcbType
      <4> HIDE DEF v, t, r
      <4> QED
        BY <4>1, <4>3, <4>4 DEF StateType
    <3>2. CASE ~ (u.c.cWndCnt >= u.cnt)
      <4>1. r = [s EXCEPT !.c = u.c]
        BY <3>2
      <4> HIDE DEF r
      <4>2. r \in StateType /\ r.c = u.c /\ r.t = s.t
        BY <2>5, <4>1 DEF StateType
      <4> QED
        BY <2>5, <4>2 DEF SamePolicy
    <3> QED BY <3>1, <3>2
  <2> HIDE DEF r
  <2>8. Grows(s.t.cWnd, r.t.cWnd, MostAdded(s, n))
    <3>1. MostAdded(s, n) = SegmentSize
      BY <1>4 DEF MostAdded
    <3> QED
      BY <1>1, <2>6, <2>7, <3>1, StateFields DEF Grows
  <2>9. 2 * SegmentSize <= s.t.ssThresh => 2 <= CwndInSegments(s.t)
    BY <1>1, <1>4, StateFields
  <2> QED
    BY <2>1, <2>2, <2>3, <2>5, <2>7, <2>8, <2>9 DEF SamePolicy, Sound
<1> QED
  BY <1>2, <1>3, <1>4

\* NewReno adds its increment in slow start, and at most that in avoidance.
LEMMA RenoIncreaseKeeps ==
    ASSUME NEW s \in StateType, NEW n \in Nat, s.c.policy = "TcpNewReno",
           2 * SegmentSize <= s.t.ssThresh
    PROVE  LET r == RenoIncrease(s, n)
           IN  /\ r \in StateType /\ r.c = s.c
               /\ r.t.ssThresh = s.t.ssThresh
               /\ Grows(s.t.cWnd, r.t.cWnd, MostAdded(s, n))
<1> DEFINE inc == Increment(s.c)
           slow == s.t.cWnd < s.t.ssThresh
           w == (s.t.cWnd + inc) % Wrap
           a == IF slow THEN SlowStart(s, n) ELSE s
           rest == IF slow /\ n >= 1 THEN n - 1 ELSE n
           r == IF a.t.cWnd >= a.t.ssThresh THEN CongestionAvoidance(a, rest) ELSE a
<1>0. RenoIncrease(s, n) = r
  BY Zenon DEF RenoIncrease
<1>1. /\ SegmentSize \in Nat \ {0} /\ Wrap \in Nat \ {0} /\ Scale \in Nat \ {0}
      /\ s.c.par1 \in Nat /\ s.t.cWnd \in Nat /\ s.t.ssThresh \in Nat
  BY CompositeAssumption, StateFields DEF CompositeType
<1>2. inc \in Nat /\ s.c.par1 * SegmentSize \in Nat
  <2>1. s.c.par1 * SegmentSize \in Nat
    BY <1>1
  <2> QED
    BY <1>1, <2>1 DEF Increment
<1>3. MostAdded(s, n) = IF slow THEN 2 * inc ELSE inc
  BY DEF MostAdded
<1>4. /\ a \in StateType /\ a.c = s.c /\ a.t.ssThresh = s.t.ssThresh
      /\ Grows(s.t.cWnd, a.t.cWnd, IF slow THEN inc ELSE 0)
  <2>1. CASE slow /\ n >= 1
    <3>1. a = [s EXCEPT !.t.cWnd = w]
      BY <2>1 DEF SlowStart, Increment
    <3>2. w \in Word /\ Grows(s.t.cWnd, w, inc)
      BY <1>1, <1>2, WrapGrows
    <3> HIDE DEF w, a
    <3>3. /\ a \in StateType /\ a.c = s.c /\ a.t.ssThresh = s.t.ssThresh /\ a.t.cWnd = w
      BY <3>1, <3>2 DEF StateType, TcbType
    <3> QED
      BY <2>1, <3>2, <3>3
  <2>2. CASE ~ (slow /\ n >= 1)
    <3>1. a = s
      BY <2>2 DEF SlowStart
    <3> QED
      BY <1>1, <1>2, <3>1 DEF Grows
  <2> QED BY <2>1, <2>2
<1> HIDE DEF a, inc
<1>5. a.t.cWnd \in Nat /\ a.t.cWnd < Wrap
  BY <1>4, StateFields
<1>6. CASE a.t.cWnd >= a.t.ssThresh /\ rest # 0
  <2> DEFINE q == (SegmentSize * SegmentSize) \div a.t.cWnd
             adder == Max({1, q})
             g == (s.c.par1 * adder) \div Scale
             v == (a.t.cWnd + g) % Wrap
  <2>1. a.t.cWnd \in Nat \ {0} /\ SegmentSize <= a.t.cWnd
    BY <1>1, <1>4, <1>5, <1>6
  <2>2. q \in Nat /\ q <= SegmentSize
    <3>1. SegmentSize * SegmentSize \in Nat /\ SegmentSize * SegmentSize <= SegmentSize * a.t.cWnd
      BY <1>1, <2>1
    <3> QED
      BY <1>1, <2>1, <3>1
  <2> HIDE DEF q
  <2>3. adder \in Nat /\ adder <= SegmentSize
    BY <1>1, <2>2, MaxPair
  <2>4. r = [a EXCEPT !.t.cWnd = v]
    BY <1>4, <1>6, <2>1 DEF CongestionAvoidance, q
  <2> HIDE DEF adder
  <2>5. g \in Nat /\ g <= inc
    <3>1. s.c.par1 * adder \in Nat /\ s.c.par1 * adder <= s.c.par1 * SegmentSize
      BY <1>1, <2>3
    <3> QED
      BY <1>1, <1>2, <3>1 DEF Increment, inc
  <2> HIDE DEF g
  <2>6. v \in Word /\ Grows(a.t.cWnd, v, inc)
    BY <1>2, <1>5, <2>5, WrapGrows
  <2> HIDE DEF v, r
  <2>7. r \in StateType /\ r.c = a.c /\ r.t.ssThresh = a.t.ssThresh /\ r.t.cWnd = v
    BY <1>4, <2>4, <2>6 DEF StateType, TcbType
  <2>8. Grows(s.t.cWnd, v, MostAdded(s, n))
    BY <1>1, <1>2, <1>3, <1>4, <1>5, <2>6 DEF Grows, Word
  <2> QED
    BY <1>0, <1>4, <2>7, <2>8
<1>7. CASE ~ (a.t.cWnd >= a.t.ssThresh /\ rest # 0)
  <2>1. r = a
    BY <1>7 DEF CongestionAvoidance
  <2> QED
    BY <1>0, <1>1, <1>2, <1>3, <1>4, <1>5, <2>1 DEF Grows
<1> QED
  BY <1>6, <1>7

\* IncreaseWindow, whichever the policy.
LEMMA IncreaseKeeps ==
    ASSUME NEW s \in StateType, NEW n \in Nat, NEW x \in Clock, Configured(s.c),
           s.c.policy = "TcpCubic" => CubicShape(s.c), 2 * SegmentSize <= s.t.ssThresh
    PROVE  LET r == IncreaseWindow(s, n, x)
           IN  /\ r \in StateType /\ SamePolicy(r.c, s.c)
               /\ r.t.ssThresh = s.t.ssThresh
               /\ r.c.delayKnown = s.c.delayKnown /\ r.c.found = s.c.found
               /\ r.c.lastMaxCwnd = s.c.lastMaxCwnd
               /\ r.c.origin \in {s.c.origin, s.c.lastMaxCwnd, CwndInSegments(s.t)}
               /\ s.c.policy = "TcpCubic" => CubicShape(r.c)
               /\ s.c.policy = "TcpNewReno" => r.c.epoch = s.c.epoch
               /\ Sound(s.c) /\ s.c.delayKnown => Sound(r.c)
               /\ Grows(s.t.cWnd, r.t.cWnd, MostAdded(s, n))
<1> DEFINE r == IncreaseWindow(s, n, x)
<1>1. CASE s.c.policy = "TcpNewReno"
  <2>1. r = RenoIncrease(s, n)
    BY <1>1 DEF IncreaseWindow
  <2> HIDE DEF r
  <2>2. /\ r \in StateType /\ r.c = s.c
        /\ r.t.ssThresh = s.t.ssThresh
        /\ Grows(s.t.cWnd, r.t.cWnd, MostAdded(s, n))
    BY <1>1, <2>1, RenoIncreaseKeeps, Zenon
  <2>3. s.c.policy # "TcpCubic"
    BY <1>1
  <2> QED
    BY <2>2, <2>3, Zenon DEF r, SamePolicy
<1>2. CASE s.c.policy = "TcpCubic"
  <2>1. r = CubicIncrease(s, n, x)
    BY <1>2 DEF IncreaseWindow
  <2> HIDE DEF r
  <2>2. /\ r \in StateType /\ SamePolicy(r.c, s.c)
        /\ r.t.ssThresh = s.t.ssThresh
        /\ r.c.delayKnown = s.c.delayKnown /\ r.c.found = s.c.found
        /\ r.c.lastMaxCwnd = s.c.lastMaxCwnd
        /\ r.c.origin \in {s.c.origin, s.c.lastMaxCwnd, CwndInSegments(s.t)}
        /\ CubicShape(r.c)
        /\ Sound(s.c) /\ s.c.delayKnown => Sound(r.c)
        /\ Grows(s.t.cWnd, r.t.cWnd, MostAdded(s, n))
    BY <1>2, <2>1, CubicIncreaseKeeps, Zenon
  <2>3. s.c.policy # "TcpNewReno"
    BY <1>2
  <2> QED
    BY <2>2, <2>3, Zenon DEF r
<1>3. s.c.policy = "TcpNewReno" \/ s.c.policy = "TcpCubic"
  BY StateFields DEF CompositeType, Policies
<1> QED
  BY <1>1, <1>2, <1>3

\* What an RTT sample changes: it makes the delay known, and HyStart may end slow start
\* at a window of at least two segments.
LEMMA PktsAckedKeeps ==
    ASSUME NEW s \in StateType, NEW x \in Clock
    PROVE  LET r == PktsAcked(s, x)
           IN  /\ r \in StateType /\ SamePolicy(r.c, s.c)
               /\ r.c.epoch = s.c.epoch /\ r.c.k = s.c.k /\ r.c.origin = s.c.origin
               /\ r.c.failed = s.c.failed /\ r.c.lastMaxCwnd = s.c.lastMaxCwnd
               /\ s.c.delayKnown => r.c.delayKnown
               /\ (s.c.epoch => s.c.delayKnown) => r.c.delayKnown
               /\ r.t.cWnd = s.t.cWnd
               /\ \/ r.t.ssThresh = s.t.ssThresh
                  \/ /\ r.t.ssThresh = s.t.cWnd /\ s.t.cWnd <= s.t.ssThresh
                     /\ LowWindow * SegmentSize <= s.t.cWnd
               /\ r.c.found /\ s.c.policy = "TcpCubic" =>
                     \/ s.c.found /\ r.t.ssThresh = s.t.ssThresh
                     \/ r.t.ssThresh = s.t.cWnd
<1> DEFINE r == PktsAcked(s, x)
           known == [s EXCEPT !.c.delayKnown = TRUE]
           guard == HyStart /\ s.t.cWnd <= s.t.ssThresh /\ s.t.cWnd >= LowWindow * SegmentSize
<1>1. r = IF s.c.epoch /\ x.soon THEN s ELSE IF guard THEN HystartUpdate(known, x) ELSE known
  BY Zenon DEF PktsAcked
<1>2. /\ known \in StateType /\ SamePolicy(known.c, s.c)
      /\ known.c.epoch = s.c.epoch /\ known.c.k = s.c.k /\ known.c.origin = s.c.origin
      /\ known.c.failed = s.c.failed /\ known.c.delayKnown = TRUE /\ known.c.found = s.c.found
      /\ known.c.lastMaxCwnd = s.c.lastMaxCwnd /\ known.t = s.t
  BY DEF StateType, CompositeType, SamePolicy
<1> HIDE DEF known, r
<1>3. CASE s.c.epoch /\ x.soon
  BY <1>1, <1>3, Zenon DEF r, SamePolicy
<1>4. CASE ~ (s.c.epoch /\ x.soon) /\ (~ guard \/ known.c.found \/ ~ x.detect)
  <2>1. r = known
    BY <1>1, <1>4 DEF HystartUpdate
  <2> QED
    BY <1>2, <2>1, Zenon DEF r
<1>5. CASE ~ (s.c.epoch /\ x.soon) /\ guard /\ ~ (known.c.found \/ ~ x.detect)
  <2> DEFINE c == [known.c EXCEPT !.found = TRUE]
             t == IF s.c.policy = "TcpCubic" THEN [s.t EXCEPT !.ssThresh = s.t.cWnd] ELSE s.t
  <2>1. r = [c |-> c, t |-> t]
    BY <1>1, <1>2, <1>5 DEF HystartUpdate, SamePolicy
  <2>2. /\ c \in CompositeType /\ SamePolicy(c, s.c)
        /\ c.epoch = s.c.epoch /\ c.k = s.c.k /\ c.origin = s.c.origin
        /\ c.failed = s.c.failed /\ c.delayKnown = TRUE /\ c.lastMaxCwnd = s.c.lastMaxCwnd
    BY <1>2, StateFields DEF CompositeType, SamePolicy
  <2>3. /\ t \in TcbType /\ t.cWnd = s.t.cWnd
        /\ IF s.c.policy = "TcpCubic" THEN t.ssThresh = s.t.cWnd ELSE t.ssThresh = s.t.ssThresh
    BY StateFields DEF TcbType
  <2> HIDE DEF c, t
  <2>4. r \in StateType /\ r.c = c /\ r.t = t
    BY <2>1, <2>2, <2>3 DEF StateType
  <2>5. s.t.cWnd <= s.t.ssThresh /\ LowWindow * SegmentSize <= s.t.cWnd
    BY <1>5, StateFields, CompositeAssumption
  <2> QED
    BY <2>2, <2>3, <2>4, <2>5, Zenon DEF r
<1> QED
  BY <1>3, <1>4, <1>5

\* A loss ends the epoch; the new threshold is two segments, or more and then below the
\* window by a segment (Cubic) or at most what was in flight (NewReno); the last maximum
\* is at most the window, if the first parameter is at most 1.
LEMMA GetSsThreshReduces ==
    ASSUME NEW s \in StateType, Configured(s.c), NEW f \in Flights, MaxFlight < Wrap
    PROVE  LET r == GetSsThresh(s, f)
           IN  /\ r \in StateType /\ SamePolicy(r.c, s.c) /\ r.c.epoch = FALSE
               /\ r.c.delayKnown = s.c.delayKnown /\ r.c.found = s.c.found
               /\ r.c.failed = s.c.failed /\ r.c.origin = s.c.origin
               /\ s.c.par1 <= Scale => r.c.lastMaxCwnd <= CwndInSegments(s.t)
               /\ r.t.cWnd = s.t.cWnd
               /\ 2 * SegmentSize <= r.t.ssThresh
               /\ \/ r.t.ssThresh = 2 * SegmentSize
                  \/ IF s.c.policy = "TcpCubic" THEN r.t.ssThresh + SegmentSize <= s.t.cWnd
                                                ELSE r.t.ssThresh <= MaxFlight
<1> DEFINE r == GetSsThresh(s, f)
           seg == CwndInSegments(s.t)
           max == IF seg < s.c.lastMaxCwnd /\ FastConvergence
                  THEN (seg * (Scale + s.c.par1)) \div (2 * Scale) ELSE seg
           c == [s.c EXCEPT !.lastMaxCwnd = max, !.epoch = FALSE]
<1>1. /\ SegmentSize \in Nat \ {0} /\ Scale \in Nat \ {0}
      /\ 2 * SegmentSize < Wrap /\ Wrap \in Nat /\ MaxFlight \in Nat
      /\ f \in Nat /\ f <= MaxFlight
  BY CompositeAssumption, WindowAssumption
<1>2. /\ s.c \in CompositeType /\ s.t \in TcbType /\ s.t.cWnd \in Nat /\ s.t.cWnd < Wrap
      /\ seg \in Nat /\ seg * SegmentSize <= s.t.cWnd /\ s.c.par1 \in Nat /\ s.c.par2 \in Nat
  BY StateFields DEF CompositeType
<1>3. max \in Nat /\ (s.c.par1 <= Scale => max <= seg)
  <2> DEFINE a == seg * (Scale + s.c.par1)
             b == 2 * Scale
  <2> HIDE DEF seg
  <2>1. a \in Nat /\ b \in Nat \ {0} /\ (s.c.par1 <= Scale => a <= seg * b)
    BY <1>1, <1>2
  <2>2. max = IF seg < s.c.lastMaxCwnd /\ FastConvergence THEN a \div b ELSE seg
    OBVIOUS
  <2> HIDE DEF a, b, max
  <2>3. a \div b \in Nat /\ (a <= seg * b => a \div b <= seg)
    BY <1>2, <2>1
  <2> QED
    BY <1>2, <2>1, <2>2, <2>3
<1> HIDE DEF max
<1>4. /\ c \in CompositeType /\ SamePolicy(c, s.c) /\ c.epoch = FALSE
      /\ c.delayKnown = s.c.delayKnown /\ c.found = s.c.found /\ c.failed = s.c.failed
      /\ c.origin = s.c.origin /\ (s.c.par1 <= Scale => c.lastMaxCwnd <= seg)
  BY <1>2, <1>3 DEF CompositeType, SamePolicy
<1>5. ASSUME NEW h, h \in Word, r = [c |-> c, t |-> [s.t EXCEPT !.ssThresh = h]]
      PROVE  r \in StateType /\ r.c = c /\ r.t.cWnd = s.t.cWnd /\ r.t.ssThresh = h
  <2> HIDE DEF r, c
  <2> QED
    BY <1>2, <1>4, <1>5 DEF StateType, TcbType
<1>6. s.c.policy = "TcpNewReno" \/ s.c.policy = "TcpCubic"
  BY <1>2 DEF CompositeType, Policies
<1>7. CASE s.c.policy = "TcpNewReno"
  <2> DEFINE b == s.c.par2 \div Scale
             h == Max({2 * SegmentSize, f \div b})
  <2>1. b \in Nat /\ 1 <= b
    BY <1>1, <1>2, <1>7 DEF Configured
  <2>2. r = [c |-> c, t |-> [s.t EXCEPT !.ssThresh = h]]
    <3>1. c.policy = "TcpNewReno" /\ c.par2 = s.c.par2 /\ c.par2 >= Scale /\ ~ (c.par2 < Scale)
      BY <1>1, <1>2, <1>4, <1>7 DEF SamePolicy, Configured
    <3>2. r = CASE c.policy = "TcpNewReno" /\ c.par2 < Scale ->
                [s EXCEPT !.c = Fail(c, "division by beta", TRUE)]
          [] c.policy = "TcpNewReno" /\ c.par2 >= Scale ->
                [c |-> c, t |-> [s.t EXCEPT !.ssThresh =
                    Max({2 * SegmentSize, f \div (c.par2 \div Scale)})]]
          [] c.policy = "TcpCubic" ->
                [c |-> c, t |-> [s.t EXCEPT !.ssThresh =
                    Max({2, (seg * c.par1) \div Scale}) * SegmentSize]]
          [] OTHER -> [c |-> c, t |-> [s.t EXCEPT !.ssThresh = Wrap - 1]]
      BY Zenon DEF GetSsThresh, max
    <3> HIDE DEF c, r
    <3> QED
      BY <3>1, <3>2
  <2> HIDE DEF b
  <2>3. f \div b \in Nat /\ f \div b <= f
    BY <1>1, <2>1, DivNat
  <2>4. h \in Nat /\ 2 * SegmentSize <= h /\ (h = 2 * SegmentSize \/ h = f \div b)
    BY <1>1, <2>3, MaxPair
  <2> HIDE DEF h
  <2>5. 2 * SegmentSize <= h /\ (h = 2 * SegmentSize \/ h <= MaxFlight)
    BY <1>1, <2>3, <2>4
  <2>6. h \in Word
    BY <1>1, <1>2, <2>4, <2>5 DEF Word
  <2>7. r \in StateType /\ r.c = c /\ r.t.cWnd = s.t.cWnd /\ r.t.ssThresh = h
    BY <1>5, <2>2, <2>6
  <2>8. s.c.policy # "TcpCubic"
    BY <1>7
  <2> HIDE DEF r, c
  <2> QED
    BY <1>4, <2>5, <2>7, <2>8, Zenon DEF r
<1>8. CASE s.c.policy = "TcpCubic"
  <2> DEFINE q == (seg * s.c.par1) \div Scale
             v == Max({2, q})
             h == v * SegmentSize
  <2>1. r = [c |-> c, t |-> [s.t EXCEPT !.ssThresh = h]]
    <3>1. c.policy = "TcpCubic" /\ c.par1 = s.c.par1 /\ c.policy # "TcpNewReno"
      BY <1>4, <1>8 DEF SamePolicy
    <3>2. r = CASE c.policy = "TcpNewReno" /\ c.par2 < Scale ->
                [s EXCEPT !.c = Fail(c, "division by beta", TRUE)]
          [] c.policy = "TcpNewReno" /\ c.par2 >= Scale ->
                [c |-> c, t |-> [s.t EXCEPT !.ssThresh =
                    Max({2 * SegmentSize, f \div (c.par2 \div Scale)})]]
          [] c.policy = "TcpCubic" ->
                [c |-> c, t |-> [s.t EXCEPT !.ssThresh =
                    Max({2, (seg * c.par1) \div Scale}) * SegmentSize]]
          [] OTHER -> [c |-> c, t |-> [s.t EXCEPT !.ssThresh = Wrap - 1]]
      BY Zenon DEF GetSsThresh, max
    <3> HIDE DEF c, r
    <3> QED
      BY <3>1, <3>2
  <2>2. q \in Nat /\ (0 < seg => q < seg) /\ (seg = 0 => q = 0)
    <3>1. s.c.par1 < Scale
      BY <1>8 DEF Configured
    <3>2. seg * s.c.par1 \in Nat /\ (0 < seg => seg * s.c.par1 < seg * Scale)
          /\ (seg = 0 => seg * s.c.par1 = 0)
      <4> HIDE DEF seg
      <4> QED BY <1>1, <1>2, <3>1
    <3> HIDE DEF seg
    <3> QED BY <1>1, <1>2, <3>2
  <2> HIDE DEF q
  <2>3. v = 2 \/ (v \in Nat /\ 2 < v /\ v + 1 <= seg)
    BY <1>2, <2>2, MaxPair
  <2> HIDE DEF v, seg
  <2>4. h = 2 * SegmentSize
        \/ (h \in Nat /\ 2 * SegmentSize < h /\ h + SegmentSize <= seg * SegmentSize)
    <3>1. CASE v = 2
      BY <3>1
    <3>2. CASE v \in Nat /\ 2 < v /\ v + 1 <= seg
      <4>1. h \in Nat /\ 2 * SegmentSize < h
        BY <1>1, <3>2
      <4>2. (v + 1) * SegmentSize <= seg * SegmentSize
        BY <1>1, <1>2, <3>2
      <4>3. (v + 1) * SegmentSize = h + SegmentSize
        BY <1>1, <3>2
      <4> QED BY <4>1, <4>2, <4>3
    <3> QED BY <2>3, <3>1, <3>2
  <2>5. seg * SegmentSize \in Nat
    BY <1>1, <1>2
  <2> HIDE DEF h
  <2>6. 2 * SegmentSize <= h /\ (h = 2 * SegmentSize \/ h + SegmentSize <= s.t.cWnd)
    BY <1>1, <1>2, <2>4, <2>5
  <2>7. h \in Word
    BY <1>1, <1>2, <2>4, <2>6 DEF Word
  <2>8. r \in StateType /\ r.c = c /\ r.t.cWnd = s.t.cWnd /\ r.t.ssThresh = h
    BY <1>5, <2>1, <2>7
  <2> HIDE DEF r, c
  <2> QED
    BY <1>4, <1>8, <2>6, <2>8, Zenon DEF r, seg
<1> QED
  BY <1>6, <1>7, <1>8

\* CubicReset arms HyStart again; it leaves the epoch alone.
LEMMA CubicResetKeeps ==
    ASSUME NEW c \in CompositeType
    PROVE  LET r == CubicReset(c)
           IN  /\ r \in CompositeType /\ SamePolicy(r, c)
               /\ r.epoch = c.epoch /\ r.failed = c.failed /\ r.found = FALSE
               /\ r.lastMaxCwnd = 0 /\ r.origin = 0
<1> DEFINE kk == [d |-> 0, c |-> 1]
<1>1. kk \in [d : Nat, c : Nat \ {0}]
  OBVIOUS
<1> DEFINE a == [c EXCEPT !.lastMaxCwnd = 0, !.origin = 0, !.k = kk]
           b == [a EXCEPT !.ackCnt = 0, !.tcpCwnd = 0, !.delayKnown = FALSE, !.found = FALSE]
<1>2. CubicReset(c) = b
  BY Zenon DEF CubicReset
<1> HIDE DEF kk
<1>3. /\ a \in CompositeType /\ SamePolicy(a, c) /\ a.epoch = c.epoch /\ a.failed = c.failed
      /\ a.lastMaxCwnd = 0 /\ a.origin = 0
  BY <1>1 DEF CompositeType, SamePolicy
<1> HIDE DEF a
<1>4. /\ b \in CompositeType /\ SamePolicy(b, a) /\ b.epoch = a.epoch /\ b.failed = a.failed
      /\ b.found = FALSE /\ b.lastMaxCwnd = a.lastMaxCwnd /\ b.origin = a.origin
  BY <1>3 DEF CompositeType, SamePolicy
<1> HIDE DEF b
<1> QED
  BY <1>2, <1>3, <1>4 DEF SamePolicy

(***************************************************************************)
(* The invariant.                                                          *)
(***************************************************************************)
CongStates == {"CA_OPEN", "CA_DISORDER", "CA_RECOVERY", "CA_LOSS"}

\* What an ACK adds outside slow start.
Step(q) == IF q.policy = "TcpCubic" THEN SegmentSize ELSE Increment(q)

\* - the object runs the plan;
\* - its cubic is the one its parameters describe, and there is none before the switch
\*   from NewReno;
\* - whoever can reach Update without a sample (in an epoch, or in CA_DISORDER) knows
\*   the delay;
\* - nothing went wrong in Update so far, and the threshold, hence the window in
\*   avoidance, is at least two segments;
\* - before the switch the window has not wrapped around, in recovery neither will it
\*   when it becomes the threshold, and outside HyStart is disarmed only past slow start.
Healthy(s, cong, p, switched) ==
    /\ s \in StateType
    /\ SamePolicy(s.c, IF switched THEN p.second ELSE p.first)
    /\ s.c.policy = "TcpCubic" => CubicShape(s.c)
    /\ ~ switched /\ s.c.policy = "TcpNewReno" => s.c.epoch = FALSE
    /\ s.c.epoch \/ cong = "CA_DISORDER" => s.c.delayKnown
    /\ Sound(s.c)
    /\ 2 * SegmentSize <= s.t.ssThresh
    /\ ~ switched =>
          /\ s.t.cWnd <= Highest(p.first)
          /\ cong = "CA_RECOVERY" => s.t.ssThresh + Step(p.first) <= Highest(p.first)
          /\ s.c.policy = "TcpCubic" /\ s.c.found /\ cong # "CA_RECOVERY"
                => s.t.ssThresh <= s.t.cWnd

\* Cubic's plateau, or the one NewReno keeps for it, is at most the peak.
Plateau(s, switched, peak) ==
    ModestFirst /\ (s.c.policy = "TcpCubic" \/ ~ switched)
    => s.c.lastMaxCwnd * SegmentSize <= peak /\ s.c.origin * SegmentSize <= peak

CompositeInv ==
    /\ sock \in [congState : CongStates, dupAckCount : Nat]
    /\ plan \in Plans
    /\ hist \in [switched : BOOLEAN, acks : Nat, peak : Nat]
    /\ Healthy(Now, sock.congState, plan, hist.switched)
    /\ Plateau(Now, hist.switched, hist.peak)

\* The assumptions, for one plan.
LEMMA PlanFacts ==
    ASSUME NEW p \in Plans
    PROVE  /\ p.first \in [policy : Policies, par1 : Nat, par2 : Nat]
           /\ p.second \in [policy : Policies, par1 : Nat, par2 : Nat]
           /\ p.diff \in Int
           /\ Configured(p.first) /\ Configured(p.second)
           /\ MaxFlight \in Nat /\ MaxFlight < Wrap /\ MaxFlight <= Highest(p.first)
           /\ MaxFlight + Increment(p.first) <= Highest(p.first)
           /\ SegmentSize \in Nat \ {0} /\ Scale \in Nat \ {0} /\ Wrap \in Nat \ {0}
           /\ Increment(p.first) \in Nat /\ Step(p.first) \in Nat
           /\ Highest(p.first) \in Nat /\ Highest(p.first) < Wrap
           /\ Highest(p.first) + p.diff * SegmentSize < Wrap
           /\ InitialCwnd * SegmentSize <= Highest(p.first)
           /\ 3 * SegmentSize <= Highest(p.first)
           /\ 2 * SegmentSize + Step(p.first) <= Highest(p.first)
           /\ \A w \in Nat, n \in 0 .. MaxAcked :
                 w <= MaxCwnd * SegmentSize =>
                     /\ w + n * SegmentSize <= Highest(p.first)
                     /\ w + SegmentSize <= Highest(p.first)
                     /\ w + 2 * Increment(p.first) <= Highest(p.first)
                     /\ w + Increment(p.first) <= Highest(p.first)
<1> DEFINE inc == Increment(p.first)
           h == Highest(p.first)
           M == MaxCwnd * SegmentSize
           A == MaxAcked * SegmentSize
           I == InitialCwnd * SegmentSize
<1>1. /\ SegmentSize \in Nat \ {0} /\ Scale \in Nat \ {0} /\ Wrap \in Nat \ {0}
      /\ MaxCwnd \in Nat /\ MaxAcked \in Nat /\ InitialCwnd \in Nat /\ MaxFlight \in Nat
  BY CompositeAssumption
<1>2. /\ p.first \in [policy : Policies, par1 : Nat, par2 : Nat]
      /\ p.second \in [policy : Policies, par1 : Nat, par2 : Nat]
      /\ p.diff \in Int
  BY CompositeAssumption DEF Plan
<1>3. Configured(p.first) /\ Configured(p.second)
  BY PolicyAssumption DEF Configured
<1>4. h < Wrap /\ h + p.diff * SegmentSize < Wrap
  BY WindowAssumption
<1>5. inc \in Nat
  <2>1. p.first.par1 * SegmentSize \in Nat
    BY <1>1, <1>2
  <2> QED
    BY <1>1, <2>1, DivNat DEF Increment
<1>6. /\ M \in Nat /\ A \in Nat /\ I \in Nat
      /\ (InitialCwnd + MaxCwnd + MaxAcked + 3) * SegmentSize = I + M + A + 3 * SegmentSize
  BY <1>1
<1>7. h = I + M + A + 3 * SegmentSize + 2 * inc + MaxFlight
  BY <1>6 DEF Highest
<1>8. ASSUME NEW n \in 0 .. MaxAcked PROVE n * SegmentSize \in Nat /\ n * SegmentSize <= A
  BY <1>1
<1> HIDE DEF inc, h, M, A, I
<1>9. p.first.policy = "TcpNewReno" \/ p.first.policy = "TcpCubic"
  BY <1>2 DEF Policies
<1>10. ASSUME NEW w \in Nat, NEW n \in 0 .. MaxAcked, w <= M
       PROVE  /\ w + n * SegmentSize <= h
              /\ w + SegmentSize <= h
              /\ w + 2 * inc <= h
              /\ w + inc <= h
  <2> DEFINE y == n * SegmentSize
  <2>1. y \in Nat /\ y <= A
    BY <1>8
  <2> HIDE DEF y
  <2> QED
    BY <1>1, <1>5, <1>6, <1>7, <1>10, <2>1 DEF y
<1>11. Step(p.first) = inc \/ Step(p.first) = SegmentSize
  BY DEF Step, inc
<1>12. /\ h \in Nat /\ Step(p.first) \in Nat /\ I <= h /\ 3 * SegmentSize <= h
       /\ 2 * SegmentSize + Step(p.first) <= h
       /\ MaxFlight < Wrap /\ MaxFlight <= h /\ MaxFlight + inc <= h
  BY <1>1, <1>4, <1>5, <1>6, <1>7, <1>11
<1> QED
  BY <1>1, <1>2, <1>3, <1>4, <1>5, <1>10, <1>12 DEF inc, h, M, I

\* A sample keeps the state healthy, and after it the delay is known.
LEMMA SampleIsHealthy ==
    ASSUME NEW s, NEW cong \in CongStates, NEW p \in Plans, NEW sw \in BOOLEAN, NEW x \in Clock,
           Healthy(s, cong, p, sw)
    PROVE  Healthy(PktsAcked(s, x), cong, p, sw) /\ PktsAcked(s, x).c.delayKnown
<1> DEFINE r == PktsAcked(s, x)
<1>1. s \in StateType
  BY DEF Healthy
<1>2. /\ r \in StateType /\ SamePolicy(r.c, s.c)
      /\ r.c.epoch = s.c.epoch /\ r.c.k = s.c.k /\ r.c.origin = s.c.origin
      /\ r.c.failed = s.c.failed
      /\ s.c.delayKnown => r.c.delayKnown
      /\ (s.c.epoch => s.c.delayKnown) => r.c.delayKnown
      /\ r.t.cWnd = s.t.cWnd
      /\ \/ r.t.ssThresh = s.t.ssThresh
         \/ /\ r.t.ssThresh = s.t.cWnd /\ s.t.cWnd <= s.t.ssThresh
            /\ LowWindow * SegmentSize <= s.t.cWnd
      /\ r.c.found /\ s.c.policy = "TcpCubic" =>
            \/ s.c.found /\ r.t.ssThresh = s.t.ssThresh
            \/ r.t.ssThresh = s.t.cWnd
  BY <1>1, PktsAckedKeeps, Zenon
<1> HIDE DEF r
<1>3. 2 * SegmentSize <= LowWindow * SegmentSize /\ LowWindow * SegmentSize \in Nat
  BY CompositeAssumption, WindowAssumption
<1>4. /\ s.t.cWnd \in Nat /\ s.t.ssThresh \in Nat /\ r.t.ssThresh \in Nat
      /\ Step(p.first) \in Nat /\ Highest(p.first) \in Nat /\ SegmentSize \in Nat
  BY <1>1, <1>2, StateFields, PlanFacts
<1>5. 2 * SegmentSize <= r.t.ssThresh /\ r.t.ssThresh <= s.t.ssThresh
  BY <1>2, <1>3, <1>4 DEF Healthy
<1>6. SamePolicy(r.c, IF sw THEN p.second ELSE p.first)
  BY <1>2 DEF Healthy, SamePolicy
<1>7. r.c.policy = "TcpCubic" => CubicShape(r.c)
  BY <1>2 DEF Healthy, SamePolicy, CubicShape
<1>8. r.c.delayKnown /\ Sound(r.c) /\ (~ sw /\ r.c.policy = "TcpNewReno" => r.c.epoch = FALSE)
  BY <1>2 DEF Healthy, SamePolicy, Sound
<1>9. ~ sw => /\ r.t.cWnd <= Highest(p.first)
              /\ cong = "CA_RECOVERY" => r.t.ssThresh + Step(p.first) <= Highest(p.first)
  BY <1>2, <1>4, <1>5 DEF Healthy
<1>10. ~ sw /\ r.c.policy = "TcpCubic" /\ r.c.found /\ cong # "CA_RECOVERY"
         => r.t.ssThresh <= r.t.cWnd
  BY <1>2, <1>4 DEF Healthy, SamePolicy
<1> QED
  BY <1>2, <1>5, <1>6, <1>7, <1>8, <1>9, <1>10 DEF Healthy, r

\* So does growth, once the delay is known, if the window has room.
LEMMA GrowthIsHealthy ==
    ASSUME NEW s, NEW p \in Plans, NEW sw \in BOOLEAN, NEW x \in Clock, NEW n \in 0 .. MaxAcked,
           NEW cong \in CongStates \ {"CA_RECOVERY"}, NEW to \in CongStates \ {"CA_RECOVERY"},
           Healthy(s, cong, p, sw), s.c.delayKnown,
           ~ sw => s.t.cWnd + MostAdded(s, n) <= Highest(p.first)
    PROVE  Healthy(IncreaseWindow(s, n, x), to, p, sw)
<1> DEFINE r == IncreaseWindow(s, n, x)
           q == IF sw THEN p.second ELSE p.first
<1>1. s \in StateType /\ n \in Nat /\ 2 * SegmentSize <= s.t.ssThresh
  BY CompositeAssumption DEF Healthy
<1>2. Configured(s.c) /\ (s.c.policy = "TcpCubic" => CubicShape(s.c))
  <2>1. Configured(q)
    BY PlanFacts
  <2>2. SamePolicy(s.c, q)
    BY DEF Healthy
  <2> HIDE DEF q
  <2> QED
    BY <2>1, <2>2 DEF Healthy, Configured, SamePolicy
<1>3. /\ r \in StateType /\ SamePolicy(r.c, s.c)
      /\ r.t.ssThresh = s.t.ssThresh
      /\ r.c.delayKnown = s.c.delayKnown /\ r.c.found = s.c.found
      /\ s.c.policy = "TcpCubic" => CubicShape(r.c)
      /\ s.c.policy = "TcpNewReno" => r.c.epoch = s.c.epoch
      /\ Sound(s.c) /\ s.c.delayKnown => Sound(r.c)
      /\ Grows(s.t.cWnd, r.t.cWnd, MostAdded(s, n))
  BY <1>1, <1>2, IncreaseKeeps, Zenon
<1> HIDE DEF r
<1>4. /\ s.t.cWnd \in Nat /\ s.t.ssThresh \in Nat /\ r.t.cWnd \in Nat
      /\ Highest(p.first) \in Nat /\ Highest(p.first) < Wrap /\ Wrap \in Nat
  BY <1>1, <1>3, StateFields, PlanFacts
<1>5. MostAdded(s, n) \in Nat
  <2>1. SegmentSize \in Nat /\ n * SegmentSize \in Nat
    BY <1>1, CompositeAssumption
  <2>2. Increment(s.c) \in Nat
    <3>1. s.c.par1 \in Nat /\ Scale \in Nat \ {0}
      BY <1>1, StateFields, CompositeAssumption DEF CompositeType
    <3>2. s.c.par1 * SegmentSize \in Nat
      BY <2>1, <3>1
    <3> QED
      BY <3>1, <3>2, DivNat DEF Increment
  <2> QED
    BY <2>1, <2>2 DEF MostAdded
<1>6. ~ sw => s.t.cWnd <= r.t.cWnd /\ r.t.cWnd <= Highest(p.first)
  BY <1>3, <1>4, <1>5 DEF Grows
<1>7. SamePolicy(r.c, q)
  BY <1>3 DEF Healthy, SamePolicy
<1>8. /\ r.c.policy = "TcpCubic" => CubicShape(r.c)
      /\ ~ sw /\ r.c.policy = "TcpNewReno" => r.c.epoch = FALSE
      /\ r.c.delayKnown /\ Sound(r.c)
  BY <1>3 DEF Healthy, SamePolicy
<1>9. ~ sw /\ r.c.policy = "TcpCubic" /\ r.c.found => r.t.ssThresh <= r.t.cWnd
  BY <1>3, <1>4, <1>6 DEF Healthy, SamePolicy
<1> QED
  BY <1>1, <1>3, <1>6, <1>7, <1>8, <1>9 DEF Healthy, r

\* The room an ACK finds: the window is bounded where the socket still reacts to ACKs, and
\* at the end of a recovery it is the threshold.
LEMMA RoomToGrow ==
    ASSUME NEW s \in StateType, NEW p \in Plans, SamePolicy(s.c, p.first), NEW n \in 0 .. MaxAcked
    PROVE  /\ s.t.cWnd <= MaxCwnd * SegmentSize
                 => s.t.cWnd + MostAdded(s, n) <= Highest(p.first)
           /\ ~ (s.t.cWnd < s.t.ssThresh) => MostAdded(s, n) = Step(p.first)
<1>1. Increment(s.c) = Increment(p.first)
  BY DEF SamePolicy, Increment
<1>2. s.t.cWnd \in Nat
  BY StateFields
<1>3. s.c.policy = p.first.policy
  BY DEF SamePolicy
<1>4. s.t.cWnd <= MaxCwnd * SegmentSize =>
          /\ s.t.cWnd + n * SegmentSize <= Highest(p.first)
          /\ s.t.cWnd + SegmentSize <= Highest(p.first)
          /\ s.t.cWnd + 2 * Increment(p.first) <= Highest(p.first)
          /\ s.t.cWnd + Increment(p.first) <= Highest(p.first)
  BY <1>2, PlanFacts
<1> QED
  BY <1>1, <1>3, <1>4 DEF MostAdded, Step

\* A loss: the epoch is over, and the threshold is one that a window can have.
LEMMA LossIsHealthy ==
    ASSUME NEW s, NEW cong \in CongStates, NEW p \in Plans, NEW sw \in BOOLEAN,
           Healthy(s, cong, p, sw), NEW f \in Flights
    PROVE  LET r == GetSsThresh(s, f)
           IN  /\ r \in StateType /\ SamePolicy(r.c, IF sw THEN p.second ELSE p.first)
               /\ r.c.epoch = FALSE /\ Sound(r.c) /\ r.c.origin = s.c.origin
               /\ s.c.par1 <= Scale => r.c.lastMaxCwnd <= CwndInSegments(s.t)
               /\ 2 * SegmentSize <= r.t.ssThresh
               /\ ~ sw => r.t.ssThresh + Step(p.first) <= Highest(p.first)
<1> DEFINE r == GetSsThresh(s, f)
           q == IF sw THEN p.second ELSE p.first
<1>1. s \in StateType /\ SamePolicy(s.c, q) /\ Configured(s.c)
  <2>1. Configured(q)
    BY PlanFacts
  <2>2. SamePolicy(s.c, q)
    BY DEF Healthy
  <2> HIDE DEF q
  <2> QED
    BY <2>1, <2>2 DEF Healthy, Configured, SamePolicy
<1>2. /\ r \in StateType /\ SamePolicy(r.c, s.c) /\ r.c.epoch = FALSE
      /\ r.c.delayKnown = s.c.delayKnown /\ r.c.found = s.c.found
      /\ r.c.failed = s.c.failed /\ r.c.origin = s.c.origin
      /\ s.c.par1 <= Scale => r.c.lastMaxCwnd <= CwndInSegments(s.t)
      /\ r.t.cWnd = s.t.cWnd
      /\ 2 * SegmentSize <= r.t.ssThresh
      /\ \/ r.t.ssThresh = 2 * SegmentSize
         \/ IF s.c.policy = "TcpCubic" THEN r.t.ssThresh + SegmentSize <= s.t.cWnd
                                       ELSE r.t.ssThresh <= MaxFlight
  <2>1. MaxFlight < Wrap
    BY PlanFacts
  <2> QED
    BY <1>1, <2>1, GetSsThreshReduces, Zenon
<1> HIDE DEF r
<1>3. SamePolicy(r.c, q) /\ Sound(r.c)
  BY <1>1, <1>2 DEF SamePolicy, Sound, Healthy
<1>4. ASSUME ~ sw PROVE r.t.ssThresh + Step(p.first) <= Highest(p.first)
  <2>1. /\ SegmentSize \in Nat /\ Increment(p.first) \in Nat /\ Highest(p.first) \in Nat
        /\ 2 * SegmentSize + Step(p.first) <= Highest(p.first)
        /\ MaxFlight \in Nat /\ MaxFlight + Increment(p.first) <= Highest(p.first)
    BY PlanFacts
  <2>2. s.t.cWnd \in Nat /\ r.t.ssThresh \in Nat /\ s.t.cWnd <= Highest(p.first)
    BY <1>1, <1>2, <1>4, StateFields DEF Healthy
  <2>3. s.c.policy = p.first.policy
    BY <1>1, <1>4 DEF SamePolicy
  <2> QED
    BY <1>2, <2>1, <2>2, <2>3 DEF Step
<1> QED
  BY <1>2, <1>3, <1>4, Zenon DEF r

\* The recovery algorithm sets the window to what it likes.
LEMMA RecoveryIsHealthy ==
    ASSUME NEW s \in StateType, NEW p \in Plans, NEW sw \in BOOLEAN,
           SamePolicy(s.c, IF sw THEN p.second ELSE p.first),
           s.c.policy = "TcpCubic" => CubicShape(s.c),
           ~ sw /\ s.c.policy = "TcpNewReno" => s.c.epoch = FALSE,
           s.c.epoch => s.c.delayKnown, Sound(s.c),
           2 * SegmentSize <= s.t.ssThresh,
           ~ sw => s.t.ssThresh + Step(p.first) <= Highest(p.first),
           NEW w \in Word, ~ sw => w <= Highest(p.first)
    PROVE  /\ Healthy([s EXCEPT !.t.cWnd = w], "CA_RECOVERY", p, sw)
           /\ [s EXCEPT !.t.cWnd = w].c = s.c
<1> DEFINE r == [s EXCEPT !.t.cWnd = w]
<1>1. r \in StateType /\ r.c = s.c /\ r.t.ssThresh = s.t.ssThresh /\ r.t.cWnd = w
  BY DEF StateType, TcbType
<1> HIDE DEF r
<1> QED
  BY <1>1 DEF Healthy, r

\* The windows it chooses from are such.
LEMMA RecoveryWindowsFit ==
    ASSUME NEW p \in Plans, NEW w \in Flights
    PROVE  w \in Word /\ w <= Highest(p.first)
<1>1. /\ MaxFlight \in Nat /\ MaxFlight < Wrap /\ MaxFlight <= Highest(p.first)
      /\ Highest(p.first) \in Nat /\ Wrap \in Nat
  BY PlanFacts
<1>2. w \in Nat /\ w <= MaxFlight
  BY CompositeAssumption
<1> QED
  BY <1>1, <1>2 DEF Word

\* A sample leaves the plateau alone; growth may put it at the window, and so may a loss,
\* or lower: the factor of fast convergence is at most 1.
LEMMA SampleLeavesPlateau ==
    ASSUME NEW s \in StateType, NEW x \in Clock, NEW sw \in BOOLEAN, NEW a \in Nat,
           Plateau(s, sw, a)
    PROVE  Plateau(PktsAcked(s, x), sw, a)
<1> DEFINE r == PktsAcked(s, x)
<1>1. SamePolicy(r.c, s.c) /\ r.c.origin = s.c.origin /\ r.c.lastMaxCwnd = s.c.lastMaxCwnd
  BY PktsAckedKeeps, Zenon
<1> HIDE DEF r
<1> QED
  BY <1>1 DEF Plateau, SamePolicy, r

LEMMA GrowthReachesPlateau ==
    ASSUME NEW s, NEW cong \in CongStates, NEW p \in Plans, NEW sw \in BOOLEAN, NEW x \in Clock,
           NEW n \in 0 .. MaxAcked, Healthy(s, cong, p, sw),
           NEW a \in Nat, NEW b \in Nat, a <= b, s.t.cWnd <= b, Plateau(s, sw, a)
    PROVE  Plateau(IncreaseWindow(s, n, x), sw, b)
<1> DEFINE r == IncreaseWindow(s, n, x)
           q == IF sw THEN p.second ELSE p.first
           seg == CwndInSegments(s.t)
<1>1. s \in StateType /\ n \in Nat /\ 2 * SegmentSize <= s.t.ssThresh
  BY CompositeAssumption DEF Healthy
<1>2. Configured(s.c) /\ (s.c.policy = "TcpCubic" => CubicShape(s.c))
  <2>1. Configured(q)
    BY PlanFacts
  <2>2. SamePolicy(s.c, q)
    BY DEF Healthy
  <2> HIDE DEF q
  <2> QED
    BY <2>1, <2>2 DEF Healthy, Configured, SamePolicy
<1>3. /\ SamePolicy(r.c, s.c) /\ r.c.lastMaxCwnd = s.c.lastMaxCwnd
      /\ r.c.origin \in {s.c.origin, s.c.lastMaxCwnd, seg}
  BY <1>1, <1>2, IncreaseKeeps, Zenon
<1>4. seg * SegmentSize <= s.t.cWnd /\ seg \in Nat /\ s.t.cWnd \in Nat /\ s.c \in CompositeType
  BY <1>1, StateFields
<1>5. SegmentSize \in Nat /\ s.c.lastMaxCwnd \in Nat /\ s.c.origin \in Nat
  BY <1>4, CompositeAssumption DEF CompositeType
<1> HIDE DEF r, seg
<1>6. /\ seg * SegmentSize \in Nat /\ s.c.lastMaxCwnd * SegmentSize \in Nat
      /\ s.c.origin * SegmentSize \in Nat
  BY <1>4, <1>5
<1> QED
  BY <1>3, <1>4, <1>6 DEF Plateau, SamePolicy, r

LEMMA LossReachesPlateau ==
    ASSUME NEW s, NEW cong \in CongStates, NEW p \in Plans, NEW sw \in BOOLEAN,
           Healthy(s, cong, p, sw), NEW f \in Flights,
           NEW a \in Nat, NEW b \in Nat, a <= b, s.t.cWnd <= b, Plateau(s, sw, a)
    PROVE  Plateau(GetSsThresh(s, f), sw, b)
<1> DEFINE r == GetSsThresh(s, f)
           q == IF sw THEN p.second ELSE p.first
           seg == CwndInSegments(s.t)
<1>1. /\ r \in StateType /\ SamePolicy(r.c, q) /\ r.c.origin = s.c.origin
      /\ s.c.par1 <= Scale => r.c.lastMaxCwnd <= seg
  BY LossIsHealthy, Zenon
<1>2. s \in StateType /\ SamePolicy(s.c, q)
  BY DEF Healthy
<1>3. ModestFirst /\ (s.c.policy = "TcpCubic" \/ ~ sw) => s.c.par1 <= Scale
  <2>1. /\ Configured(p.first) /\ Configured(p.second) /\ Scale \in Nat
        /\ p.first \in [policy : Policies, par1 : Nat, par2 : Nat]
        /\ p.second \in [policy : Policies, par1 : Nat, par2 : Nat]
    BY PlanFacts
  <2>2. p.first.policy = "TcpNewReno" \/ p.first.policy = "TcpCubic"
    BY <2>1 DEF Policies
  <2> QED
    BY <1>2, <2>1, <2>2 DEF SamePolicy, Configured, ModestFirst
<1>4. seg * SegmentSize <= s.t.cWnd /\ seg \in Nat /\ s.t.cWnd \in Nat /\ s.c \in CompositeType
  BY <1>2, StateFields
<1>5. SegmentSize \in Nat /\ s.c.origin \in Nat /\ r.c.lastMaxCwnd \in Nat
  BY <1>1, <1>4, CompositeAssumption DEF CompositeType, StateType
<1> HIDE DEF r, seg
<1>6. /\ seg * SegmentSize \in Nat /\ r.c.lastMaxCwnd * SegmentSize \in Nat
      /\ s.c.origin * SegmentSize \in Nat
      /\ r.c.lastMaxCwnd <= seg => r.c.lastMaxCwnd * SegmentSize <= seg * SegmentSize
  BY <1>4, <1>5
<1>7. r.c.policy = s.c.policy
  BY <1>1, <1>2 DEF SamePolicy
<1> QED
  BY <1>1, <1>3, <1>4, <1>6, <1>7 DEF Plateau, r

(***************************************************************************)
(* The handlers.                                                           *)
(***************************************************************************)
LEMMA InitIsHealthy == Init => CompositeInv
<1> SUFFICES ASSUME Init PROVE CompositeInv
  OBVIOUS
<1>1. plan \in Plans /\ hist.switched = FALSE /\ sock.congState = "CA_OPEN"
  BY DEF Init
<1>2. /\ SegmentSize \in Nat \ {0} /\ InitialCwnd * SegmentSize \in Nat
      /\ InitialCwnd * SegmentSize <= Highest(plan.first)
      /\ Highest(plan.first) < Wrap /\ Wrap \in Nat /\ Highest(plan.first) \in Nat
      /\ InitialSsThresh \in Nat /\ InitialSsThresh < Wrap /\ 2 * SegmentSize <= InitialSsThresh
  BY <1>1, PlanFacts, CompositeAssumption, WindowAssumption
<1>3. /\ tcb \in TcbType /\ tcb.cWnd <= Highest(plan.first) /\ 2 * SegmentSize <= tcb.ssThresh
  <2> DEFINE I == InitialCwnd * SegmentSize
  <2>1. I \in Word /\ InitialSsThresh \in Word
    BY <1>2 DEF Word
  <2>2. tcb = [cWnd |-> I, ssThresh |-> InitialSsThresh]
    BY DEF Init
  <2> HIDE DEF I
  <2>3. tcb \in TcbType /\ tcb.cWnd = I /\ tcb.ssThresh = InitialSsThresh
    BY <2>1, <2>2 DEF TcbType
  <2> QED
    BY <1>2, <2>3 DEF I
<1>4. /\ cc \in CompositeType /\ SamePolicy(cc, plan.first)
      /\ cc.epoch = FALSE /\ cc.found = FALSE /\ cc.failed = {}
      /\ cc.lastMaxCwnd = 0 /\ cc.origin = 0
  <2> DEFINE kk == [d |-> 0, c |-> 1]
             q == plan.first
  <2>1. kk \in [d : Nat, c : Nat \ {0}]
    OBVIOUS
  <2>2. q \in [policy : Policies, par1 : Nat, par2 : Nat]
    BY <1>1, PlanFacts
  <2>3. cc = [policy |-> q.policy, par1 |-> q.par1, par2 |-> q.par2,
              cWndCnt |-> 0, lastMaxCwnd |-> 0, origin |-> 0, k |-> kk,
              delayKnown |-> FALSE, epoch |-> FALSE, found |-> FALSE, ackCnt |-> 0,
              tcpCwnd |-> 0, failed |-> {}]
    BY Zenon DEF Init, CompositeInit
  <2> HIDE DEF kk, q
  <2>4. /\ cc \in CompositeType /\ SamePolicy(cc, q)
        /\ cc.epoch = FALSE /\ cc.found = FALSE /\ cc.failed = {}
        /\ cc.lastMaxCwnd = 0 /\ cc.origin = 0
    BY <2>1, <2>2, <2>3 DEF CompositeType, SamePolicy
  <2> QED BY <2>4 DEF q
<1>5. Now \in StateType /\ Now.c = cc /\ Now.t = tcb
  BY <1>3, <1>4 DEF Now, StateType
<1>6. Healthy(Now, "CA_OPEN", plan, FALSE)
  BY <1>3, <1>4, <1>5 DEF Healthy, CubicShape, Sound
<1>7. /\ sock \in [congState : CongStates, dupAckCount : Nat]
      /\ hist \in [switched : BOOLEAN, acks : Nat, peak : Nat]
  BY DEF Init, CongStates
<1>8. Plateau(Now, FALSE, hist.peak)
  <2>1. hist.peak = 0 /\ 0 * SegmentSize = 0
    BY <1>2 DEF Init
  <2> QED
    BY <1>4, <1>5, <2>1 DEF Plateau
<1> QED
  BY <1>1, <1>6, <1>7, <1>8 DEF CompositeInv

\* The invariant after a step that becomes s.
LEMMA Becomes ==
    ASSUME NEW s, Become(s), plan' = plan, plan \in Plans,
           sock' \in [congState : CongStates, dupAckCount : Nat],
           hist' \in [switched : BOOLEAN, acks : Nat, peak : Nat],
           Healthy(s, sock'.congState, plan, hist'.switched),
           Plateau(s, hist'.switched, hist'.peak)
    PROVE  CompositeInv'
<1>1. s \in StateType
  BY DEF Healthy
<1>2. Now' = s
  <2>1. s = [c |-> s.c, t |-> s.t]
    BY <1>1 DEF StateType
  <2> QED
    BY <2>1 DEF Now, Become
<1> QED
  BY <1>2 DEF CompositeInv

LEMMA RecordKeeps ==
    ASSUME CompositeInv, NEW n \in Nat, NEW w \in Nat, Record(n, w)
    PROVE  /\ hist' \in [switched : BOOLEAN, acks : Nat, peak : Nat]
           /\ hist'.switched = hist.switched
           /\ hist.peak <= hist'.peak /\ w <= hist'.peak
<1> DEFINE a == hist.acks + n
           b == Max({hist.peak, w})
<1>1. hist' = [hist EXCEPT !.acks = a, !.peak = b]
  BY DEF Record
<1>2. hist \in [switched : BOOLEAN, acks : Nat, peak : Nat]
  BY DEF CompositeInv
<1>3. a \in Nat /\ b \in Nat /\ hist.peak <= b /\ w <= b
  BY <1>2, MaxPair
<1> HIDE DEF a, b
<1> QED
  BY <1>1, <1>2, <1>3

\* An ACK outside recovery: a sample, or none in CA_DISORDER, and growth.
LEMMA AckGrows ==
    ASSUME CompositeInv, NEW n \in 0 .. MaxAcked, NEW x \in Clock, Reacts,
           Record(n, tcb.cWnd),
           sock.congState # "CA_RECOVERY",
           NEW told, told = PktsAcked(Now, x) \/ (told = Now /\ sock.congState = "CA_DISORDER"),
           Become(IncreaseWindow(told, n, x)), plan' = plan,
           sock' \in [congState : CongStates \ {"CA_RECOVERY"}, dupAckCount : Nat]
    PROVE  CompositeInv'
<1> DEFINE cong == sock.congState
           sw == hist.switched
<1>1. /\ plan \in Plans /\ cong \in CongStates /\ sw \in BOOLEAN
      /\ Healthy(Now, cong, plan, sw)
      /\ Plateau(Now, sw, hist.peak) /\ hist.peak \in Nat
  BY DEF CompositeInv
<1>2. Healthy(told, cong, plan, sw) /\ told.c.delayKnown
  <2>1. CASE told = PktsAcked(Now, x)
    BY <1>1, <2>1, SampleIsHealthy
  <2>2. CASE told = Now /\ sock.congState = "CA_DISORDER"
    BY <1>1, <2>2 DEF Healthy
  <2> QED BY <2>1, <2>2
<1>3. told \in StateType /\ told.t.cWnd = tcb.cWnd
  <2>1. Now \in StateType /\ Now.t.cWnd = tcb.cWnd
    BY <1>1 DEF Healthy, Now
  <2>2. PktsAcked(Now, x).t.cWnd = Now.t.cWnd
    BY <2>1, PktsAckedKeeps, Zenon
  <2> QED
    BY <1>2, <2>1, <2>2 DEF Healthy
<1>4. ~ sw => told.t.cWnd + MostAdded(told, n) <= Highest(plan.first)
  BY <1>1, <1>2, <1>3, RoomToGrow DEF Reacts, Healthy
<1>5. /\ sock'.congState \in CongStates \ {"CA_RECOVERY"}
      /\ sock' \in [congState : CongStates, dupAckCount : Nat]
  OBVIOUS
<1>6. cong \in CongStates \ {"CA_RECOVERY"}
  BY <1>1
<1>7. Healthy(IncreaseWindow(told, n, x), sock'.congState, plan, sw)
  BY <1>1, <1>2, <1>4, <1>5, <1>6, GrowthIsHealthy
<1>8. /\ hist' \in [switched : BOOLEAN, acks : Nat, peak : Nat]
      /\ hist'.switched = sw /\ hist.peak <= hist'.peak /\ tcb.cWnd <= hist'.peak
  <2>1. n \in Nat /\ tcb.cWnd \in Nat
    BY <1>3, StateFields, CompositeAssumption
  <2> QED
    BY <2>1, RecordKeeps
<1>9. Plateau(IncreaseWindow(told, n, x), sw, hist'.peak)
  <2>1. Plateau(told, sw, hist.peak)
    <3>1. Now \in StateType
      BY <1>1 DEF Healthy
    <3> QED
      BY <1>1, <3>1, SampleLeavesPlateau
  <2> QED
    BY <1>1, <1>2, <1>3, <1>8, <2>1, GrowthReachesPlateau
<1> QED
  BY <1>1, <1>5, <1>7, <1>8, <1>9, Becomes

\* A sample alone, with the window as it is.
LEMMA SampleOnly ==
    ASSUME CompositeInv, NEW x \in Clock, plan' = plan, hist' = hist,
           Become(PktsAcked(Now, x)),
           sock' \in [congState : CongStates, dupAckCount : Nat],
           \/ sock'.congState = sock.congState
           \/ sock'.congState = "CA_DISORDER" /\ sock.congState = "CA_OPEN"
    PROVE  CompositeInv'
<1> DEFINE r == PktsAcked(Now, x)
<1>1. /\ plan \in Plans /\ sock.congState \in CongStates /\ hist.switched \in BOOLEAN
      /\ Healthy(Now, sock.congState, plan, hist.switched)
      /\ hist \in [switched : BOOLEAN, acks : Nat, peak : Nat]
      /\ Plateau(Now, hist.switched, hist.peak)
  BY DEF CompositeInv
<1>2. Healthy(r, sock.congState, plan, hist.switched) /\ r.c.delayKnown
  BY <1>1, SampleIsHealthy
<1>3. Plateau(r, hist.switched, hist.peak)
  <2>1. Now \in StateType
    BY <1>1 DEF Healthy
  <2> QED
    BY <1>1, <2>1, SampleLeavesPlateau
<1> HIDE DEF r
<1>4. Healthy(r, sock'.congState, plan, hist.switched)
  BY <1>2 DEF Healthy
<1> QED
  BY <1>1, <1>3, <1>4, Becomes DEF r

LEMMA EnterRecoveryKeeps ==
    ASSUME CompositeInv, NEW f \in Flights, NEW x \in Clock, EnterRecovery(f, x)
    PROVE  CompositeInv' /\ hist'.switched = hist.switched
<1> DEFINE s == GetSsThresh(Now, f)
           sw == hist.switched
<1>1. /\ plan \in Plans /\ sock.congState \in CongStates /\ sw \in BOOLEAN
      /\ Healthy(Now, sock.congState, plan, sw)
      /\ Plateau(Now, sw, hist.peak) /\ hist.peak \in Nat /\ sock.dupAckCount \in Nat
  BY DEF CompositeInv
<1>2. Now \in StateType /\ Now.t.cWnd = tcb.cWnd /\ tcb.cWnd \in Nat
  BY <1>1, StateFields DEF Healthy, Now
<1>3. /\ s \in StateType /\ SamePolicy(s.c, IF sw THEN plan.second ELSE plan.first)
      /\ s.c.epoch = FALSE /\ Sound(s.c)
      /\ 2 * SegmentSize <= s.t.ssThresh
      /\ ~ sw => s.t.ssThresh + Step(plan.first) <= Highest(plan.first)
  BY <1>1, LossIsHealthy, Zenon
<1>4. /\ hist' \in [switched : BOOLEAN, acks : Nat, peak : Nat]
      /\ hist'.switched = sw /\ hist.peak <= hist'.peak /\ tcb.cWnd <= hist'.peak
  BY <1>2, RecordKeeps DEF EnterRecovery
<1>5. Plateau(s, sw, hist'.peak)
  BY <1>1, <1>2, <1>4, LossReachesPlateau
<1>6. PICK w \in EntryWindows(s, f) : Become(PktsAcked([s EXCEPT !.t.cWnd = w], x))
  BY DEF EnterRecovery
<1> HIDE DEF s
<1>7. w \in Word /\ (~ sw => w <= Highest(plan.first))
  <2>1. CASE w = s.t.ssThresh
    <3>1. /\ s.t.ssThresh \in Word /\ s.t.ssThresh \in Nat /\ Step(plan.first) \in Nat
          /\ Highest(plan.first) \in Nat
      BY <1>1, <1>3, StateFields, PlanFacts DEF StateType, TcbType
    <3> QED
      BY <1>3, <2>1, <3>1
  <2>2. CASE w \in Flights
    BY <1>1, <2>2, RecoveryWindowsFit
  <2> QED
    BY <1>6, <2>1, <2>2 DEF EntryWindows
<1> DEFINE u == [s EXCEPT !.t.cWnd = w]
<1>8. Healthy(u, "CA_RECOVERY", plan, sw) /\ u.c = s.c
  <2>1. s.c.policy = "TcpCubic" => CubicShape(s.c)
    BY <1>3 DEF CubicShape
  <2>2. s.c.epoch => s.c.delayKnown
    BY <1>3
  <2> QED
    BY <1>1, <1>3, <1>7, <2>1, <2>2, RecoveryIsHealthy
<1>9. "CA_RECOVERY" \in CongStates
  BY DEF CongStates
<1>10. Become(PktsAcked(u, x))
  BY <1>6
<1> HIDE DEF u
<1>11. Healthy(PktsAcked(u, x), "CA_RECOVERY", plan, sw)
  BY <1>1, <1>8, <1>9, SampleIsHealthy
<1>12. Plateau(PktsAcked(u, x), sw, hist'.peak)
  <2>1. u \in StateType /\ Plateau(u, sw, hist'.peak)
    BY <1>5, <1>8 DEF Healthy, Plateau
  <2> QED
    BY <1>1, <1>4, <2>1, SampleLeavesPlateau
<1>13. sock' \in [congState : CongStates, dupAckCount : Nat] /\ sock'.congState = "CA_RECOVERY"
       /\ plan' = plan
  BY <1>1, <1>9 DEF EnterRecovery
<1> QED
  BY <1>1, <1>4, <1>10, <1>11, <1>12, <1>13, Becomes

\* The state in recovery with another window, before the sample.
LEMMA WindowInRecovery ==
    ASSUME CompositeInv, sock.congState = "CA_RECOVERY", NEW w \in RecoveryWindows
    PROVE  /\ Healthy([Now EXCEPT !.t.cWnd = w], "CA_RECOVERY", plan, hist.switched)
           /\ Plateau([Now EXCEPT !.t.cWnd = w], hist.switched, hist.peak)
<1> DEFINE sw == hist.switched
           u == [Now EXCEPT !.t.cWnd = w]
<1>1. /\ plan \in Plans /\ sw \in BOOLEAN
      /\ Healthy(Now, "CA_RECOVERY", plan, sw) /\ Plateau(Now, sw, hist.peak)
  BY DEF CompositeInv
<1>2. Now \in StateType /\ Now.t = tcb
  BY <1>1 DEF Healthy, Now
<1>3. w \in Word /\ (~ sw => w <= Highest(plan.first))
  <2>1. CASE w = tcb.cWnd
    BY <1>1, <1>2, <2>1 DEF Healthy, StateType, TcbType
  <2>2. CASE w \in Flights
    BY <1>1, <2>2, RecoveryWindowsFit
  <2> QED
    BY <2>1, <2>2 DEF RecoveryWindows
<1>4. Healthy(u, "CA_RECOVERY", plan, sw) /\ u.c = Now.c
  BY <1>1, <1>2, <1>3, RecoveryIsHealthy DEF Healthy
<1> HIDE DEF u
<1>5. Plateau(u, sw, hist.peak)
  BY <1>1, <1>4 DEF Plateau
<1> QED
  BY <1>4, <1>5 DEF u

LEMMA AckInRecoveryKeeps ==
    ASSUME CompositeInv, NEW x \in Clock, AckInRecovery(x)
    PROVE  CompositeInv'
<1> DEFINE sw == hist.switched
<1>1. /\ plan \in Plans /\ sw \in BOOLEAN
      /\ hist \in [switched : BOOLEAN, acks : Nat, peak : Nat]
      /\ sock \in [congState : CongStates, dupAckCount : Nat] /\ sock.congState = "CA_RECOVERY"
      /\ "CA_RECOVERY" \in CongStates
  BY DEF CompositeInv, AckInRecovery, CongStates
<1>2. PICK w \in RecoveryWindows : Become(PktsAcked([Now EXCEPT !.t.cWnd = w], x))
  BY DEF AckInRecovery
<1> DEFINE u == [Now EXCEPT !.t.cWnd = w]
<1>3. Healthy(u, "CA_RECOVERY", plan, sw) /\ Plateau(u, sw, hist.peak)
  BY <1>1, WindowInRecovery
<1>4. Become(PktsAcked(u, x))
  BY <1>2
<1> HIDE DEF u
<1>5. Healthy(PktsAcked(u, x), "CA_RECOVERY", plan, sw)
  BY <1>1, <1>3, SampleIsHealthy
<1>6. Plateau(PktsAcked(u, x), sw, hist.peak)
  BY <1>1, <1>3, SampleLeavesPlateau DEF Healthy
<1>7. plan' = plan /\ hist' = hist /\ sock' = sock
  BY DEF AckInRecovery
<1> QED
  BY <1>1, <1>4, <1>5, <1>6, <1>7, Becomes

LEMMA ExitRecoveryKeeps ==
    ASSUME CompositeInv, NEW n \in 0 .. MaxAcked, NEW x \in Clock, ExitRecovery(n, x)
    PROVE  CompositeInv' /\ hist'.switched = hist.switched
<1> DEFINE sw == hist.switched
<1>0. PICK w \in RecoveryWindows :
        LET v == PktsAcked([Now EXCEPT !.t.cWnd = w], x)
        IN  /\ Become(IncreaseWindow([v EXCEPT !.t.cWnd = v.t.ssThresh], n, x))
            /\ Record(n, v.t.ssThresh)
  BY DEF ExitRecovery
<1> DEFINE told == PktsAcked([Now EXCEPT !.t.cWnd = w], x)
           u == [told EXCEPT !.t.cWnd = told.t.ssThresh]
<1>1. /\ plan \in Plans /\ sw \in BOOLEAN /\ hist.peak \in Nat /\ sock.congState = "CA_RECOVERY"
  BY DEF CompositeInv, ExitRecovery
<1>2. "CA_RECOVERY" \in CongStates /\ "CA_OPEN" \in CongStates \ {"CA_RECOVERY"}
  BY DEF CongStates
<1>3. Healthy(told, "CA_RECOVERY", plan, sw) /\ told.c.delayKnown /\ Plateau(told, sw, hist.peak)
  <2> DEFINE y == [Now EXCEPT !.t.cWnd = w]
  <2>1. Healthy(y, "CA_RECOVERY", plan, sw) /\ Plateau(y, sw, hist.peak)
    BY <1>1, WindowInRecovery
  <2> HIDE DEF y
  <2>2. Healthy(PktsAcked(y, x), "CA_RECOVERY", plan, sw) /\ PktsAcked(y, x).c.delayKnown
    BY <1>1, <1>2, <2>1, SampleIsHealthy
  <2>3. Plateau(PktsAcked(y, x), sw, hist.peak)
    BY <1>1, <2>1, SampleLeavesPlateau DEF Healthy
  <2> QED
    BY <2>2, <2>3 DEF y
<1>4. Become(IncreaseWindow(u, n, x)) /\ Record(n, told.t.ssThresh) /\ plan' = plan
      /\ sock' = [congState |-> "CA_OPEN", dupAckCount |-> 0]
  BY <1>0, Zenon DEF ExitRecovery
<1> HIDE DEF told
<1>5. told \in StateType /\ told.t.ssThresh \in Nat /\ told.t.ssThresh \in Word
  BY <1>3, StateFields DEF Healthy, StateType, TcbType
<1>6. /\ u \in StateType /\ u.c = told.c
      /\ u.t.ssThresh = told.t.ssThresh /\ u.t.cWnd = told.t.ssThresh
  <2> DEFINE h == told.t.ssThresh
  <2>1. u = [told EXCEPT !.t.cWnd = h] /\ h \in Word /\ told.t.ssThresh = h
    BY <1>5
  <2> HIDE DEF h, u
  <2> QED
    BY <1>5, <2>1 DEF StateType, TcbType
<1> HIDE DEF u
<1>7. /\ Step(plan.first) \in Nat /\ Highest(plan.first) \in Nat
  BY <1>1, PlanFacts
<1>8. Healthy(u, "CA_OPEN", plan, sw)
  BY <1>3, <1>5, <1>6, <1>7 DEF Healthy
<1>9. ~ sw => u.t.cWnd + MostAdded(u, n) <= Highest(plan.first)
  <2>1. ~ sw => SamePolicy(u.c, plan.first)
    BY <1>8 DEF Healthy
  <2>2. ~ (u.t.cWnd < u.t.ssThresh)
    BY <1>5, <1>6
  <2>3. ~ sw => MostAdded(u, n) = Step(plan.first)
    BY <1>1, <1>6, <2>1, <2>2, RoomToGrow
  <2> QED
    BY <1>3, <1>6, <2>3 DEF Healthy
<1>10. Healthy(IncreaseWindow(u, n, x), "CA_OPEN", plan, sw)
  BY <1>1, <1>2, <1>3, <1>6, <1>8, <1>9, GrowthIsHealthy
<1>11. sock' \in [congState : CongStates, dupAckCount : Nat] /\ sock'.congState = "CA_OPEN"
  BY <1>4 DEF CongStates
<1>12. /\ hist' \in [switched : BOOLEAN, acks : Nat, peak : Nat]
       /\ hist'.switched = sw /\ hist.peak <= hist'.peak /\ told.t.ssThresh <= hist'.peak
  BY <1>4, <1>5, CompositeAssumption, RecordKeeps
<1>13. Plateau(IncreaseWindow(u, n, x), sw, hist'.peak)
  <2>1. Plateau(u, sw, hist.peak)
    BY <1>3, <1>6 DEF Plateau
  <2> QED
    BY <1>1, <1>2, <1>6, <1>8, <1>12, <2>1, GrowthReachesPlateau
<1> QED
  BY <1>1, <1>4, <1>10, <1>11, <1>12, <1>13, Becomes

LEMMA ReTxTimeoutKeeps ==
    ASSUME CompositeInv, NEW f \in Flights, ReTxTimeout(f)
    PROVE  CompositeInv'
<1> DEFINE s == GetSsThresh(Now, f)
           sw == hist.switched
           c == CubicReset(s.c)
           t == [s.t EXCEPT !.cWnd = SegmentSize]
           r == [c |-> c, t |-> t]
<1>1. /\ plan \in Plans /\ sock.congState \in CongStates /\ sw \in BOOLEAN
      /\ Healthy(Now, sock.congState, plan, sw)
      /\ hist \in [switched : BOOLEAN, acks : Nat, peak : Nat]
  BY DEF CompositeInv
<1>3. /\ s \in StateType /\ SamePolicy(s.c, IF sw THEN plan.second ELSE plan.first)
      /\ s.c.epoch = FALSE /\ Sound(s.c)
      /\ 2 * SegmentSize <= s.t.ssThresh
      /\ ~ sw => s.t.ssThresh + Step(plan.first) <= Highest(plan.first)
  BY <1>1, LossIsHealthy, Zenon
<1>4. /\ Become(r) /\ sock' = [congState |-> "CA_LOSS", dupAckCount |-> 0]
      /\ plan' = plan /\ hist' = hist
  BY Zenon DEF ReTxTimeout
<1> HIDE DEF s
<1>5. /\ s.c \in CompositeType /\ s.t \in TcbType /\ s.t.ssThresh \in Nat
      /\ SegmentSize \in Nat \ {0} /\ SegmentSize <= Highest(plan.first)
      /\ SegmentSize \in Word /\ 2 * SegmentSize <= s.t.ssThresh
  <2>1. /\ SegmentSize \in Nat \ {0} /\ 3 * SegmentSize <= Highest(plan.first)
        /\ Highest(plan.first) \in Nat /\ Highest(plan.first) < Wrap /\ Wrap \in Nat
    BY <1>1, PlanFacts
  <2> QED
    BY <1>3, <2>1, StateFields DEF Word
<1>6. /\ c \in CompositeType /\ SamePolicy(c, s.c)
      /\ c.epoch = s.c.epoch /\ c.failed = s.c.failed /\ c.found = FALSE
      /\ c.lastMaxCwnd = 0 /\ c.origin = 0
  BY <1>5, CubicResetKeeps, Zenon
<1>7. t \in TcbType /\ t.cWnd = SegmentSize /\ t.ssThresh = s.t.ssThresh
  BY <1>5 DEF TcbType
<1> HIDE DEF c, t
<1>9. r \in StateType /\ r.c = c /\ r.t = t
  BY <1>6, <1>7 DEF StateType
<1> HIDE DEF r
<1>10. SamePolicy(c, IF sw THEN plan.second ELSE plan.first) /\ Sound(c) /\ CubicShape(c)
  BY <1>3, <1>6 DEF SamePolicy, Sound, CubicShape
<1>11. Healthy(r, "CA_LOSS", plan, sw)
  BY <1>3, <1>5, <1>6, <1>7, <1>9, <1>10 DEF Healthy
<1>12. sock' \in [congState : CongStates, dupAckCount : Nat] /\ sock'.congState = "CA_LOSS"
  BY <1>4 DEF CongStates
<1>13. Plateau(r, sw, hist.peak)
  <2>1. hist.peak \in Nat /\ 0 * SegmentSize = 0
    BY <1>1, <1>5
  <2> QED
    BY <1>6, <1>9, <2>1 DEF Plateau
<1> QED
  BY <1>1, <1>4, <1>11, <1>12, <1>13, Becomes

\* From Cubic to Cubic the epoch goes on, with the same parameter if the plans have it so;
\* otherwise no epoch of Cubic survives, or none begins.
LEMMA SwitchPolicyKeeps ==
    ASSUME CompositeInv, SwitchPolicy
    PROVE  /\ CompositeInv'
           /\ 0 <= plan.diff => tcb'.cWnd - tcb.cWnd = plan.diff * SegmentSize
<1> DEFINE q == plan.second
           c == [cc EXCEPT !.policy = q.policy, !.par1 = q.par1, !.par2 = q.par2]
           w == (tcb.cWnd + plan.diff * SegmentSize) % Wrap
           t == [tcb EXCEPT !.cWnd = w]
           r == [c |-> c, t |-> t]
<1>1. /\ plan \in Plans /\ sock.congState \in CongStates /\ hist.switched = FALSE
      /\ Healthy(Now, sock.congState, plan, FALSE)
      /\ hist \in [switched : BOOLEAN, acks : Nat, peak : Nat]
      /\ sock \in [congState : CongStates, dupAckCount : Nat]
      /\ Plateau(Now, FALSE, hist.peak)
  BY DEF CompositeInv, SwitchPolicy
<1>2. cc \in CompositeType /\ tcb \in TcbType /\ Now.c = cc /\ Now.t = tcb
  BY <1>1 DEF Healthy, StateType, Now
<1>3. /\ q \in [policy : Policies, par1 : Nat, par2 : Nat]
      /\ plan.diff \in Int /\ SegmentSize \in Nat \ {0} /\ Wrap \in Nat \ {0}
      /\ Highest(plan.first) \in Nat /\ Highest(plan.first) + plan.diff * SegmentSize < Wrap
      /\ SameCurve /\ plan.first.policy = "TcpCubic" /\ q.policy = "TcpCubic"
            => plan.first.par2 = q.par2
      /\ plan.first.policy = "TcpNewReno" \/ plan.first.policy = "TcpCubic"
  BY <1>1, PlanFacts DEF Policies, SameCurve
<1>4. Become(r) /\ plan' = plan /\ sock' = sock /\ hist' = [hist EXCEPT !.switched = TRUE]
  BY DEF SwitchPolicy, Become, ChangeCwnd
<1> HIDE DEF q
<1>5. /\ c \in CompositeType /\ SamePolicy(c, q)
      /\ c.epoch = cc.epoch /\ c.k = cc.k /\ c.origin = cc.origin /\ c.failed = cc.failed
      /\ c.delayKnown = cc.delayKnown /\ c.lastMaxCwnd = cc.lastMaxCwnd
  BY <1>2, <1>3 DEF CompositeType, SamePolicy
<1>6. w \in Word /\ tcb.cWnd \in Nat /\ tcb.cWnd <= Highest(plan.first)
      /\ plan.diff * SegmentSize \in Int
  <2>1. tcb.cWnd \in Nat /\ plan.diff * SegmentSize \in Int
    BY <1>2, <1>3 DEF TcbType, Word
  <2>2. tcb.cWnd <= Highest(plan.first)
    BY <1>1, <1>2 DEF Healthy
  <2>3. tcb.cWnd + plan.diff * SegmentSize \in Int
    BY <2>1
  <2> QED
    BY <2>1, <2>2, <2>3, ModWord
<1>7. 0 <= plan.diff => w = tcb.cWnd + plan.diff * SegmentSize
  <2> SUFFICES ASSUME 0 <= plan.diff PROVE w = tcb.cWnd + plan.diff * SegmentSize
    OBVIOUS
  <2>1. plan.diff * SegmentSize \in Nat
    BY <1>3
  <2> DEFINE y == plan.diff * SegmentSize
  <2> HIDE DEF y
  <2>2. y \in Nat /\ Highest(plan.first) + y < Wrap /\ w = (tcb.cWnd + y) % Wrap
    BY <1>3, <2>1 DEF y
  <2>3. tcb.cWnd \in Nat /\ tcb.cWnd <= Highest(plan.first) /\ Highest(plan.first) \in Nat
        /\ Wrap \in Nat
    BY <1>3, <1>6
  <2>4. tcb.cWnd + y \in Word
    BY <2>2, <2>3 DEF Word
  <2> QED
    BY <2>2, <2>4, ModWord DEF Word, y
<1> HIDE DEF w
<1>8. t \in TcbType /\ t.cWnd = w /\ t.ssThresh = tcb.ssThresh
  BY <1>2, <1>6 DEF TcbType
<1>9. tcb'.cWnd = w
  BY <1>4, <1>8 DEF Become
<1> HIDE DEF c, t
<1>10. r \in StateType /\ r.c = c /\ r.t = t
  BY <1>5, <1>8 DEF StateType
<1>11. c.policy = "TcpCubic" => CubicShape(c)
  <2> SUFFICES ASSUME c.policy = "TcpCubic", c.epoch
               PROVE  c.k.d <= c.origin /\ (SameCurve => c.k.c = c.par2)
    BY DEF CubicShape
  <2>1. SamePolicy(cc, plan.first) /\ (cc.policy = "TcpNewReno" => cc.epoch = FALSE)
        /\ (cc.policy = "TcpCubic" => CubicShape(cc))
    BY <1>1, <1>2 DEF Healthy
  <2>2. cc.policy = "TcpCubic" /\ plan.first.policy = "TcpCubic" /\ cc.par2 = plan.first.par2
    BY <1>3, <1>5, <2>1 DEF SamePolicy
  <2>3. SameCurve => c.par2 = cc.par2
    BY <1>3, <1>5, <2>2 DEF SamePolicy
  <2> QED
    BY <1>5, <2>1, <2>2, <2>3 DEF CubicShape
<1>12. /\ c.epoch \/ sock.congState = "CA_DISORDER" => c.delayKnown
       /\ Sound(c) /\ 2 * SegmentSize <= t.ssThresh
  BY <1>1, <1>2, <1>5, <1>8 DEF Healthy, Sound
<1> HIDE DEF r
<1>13. Healthy(r, sock.congState, plan, TRUE)
  BY <1>5, <1>10, <1>11, <1>12 DEF Healthy, q
<1>14. hist' \in [switched : BOOLEAN, acks : Nat, peak : Nat] /\ hist'.switched = TRUE
       /\ hist'.peak = hist.peak
  BY <1>1, <1>4
<1>15. CompositeInv'
  <2>1. Plateau(r, TRUE, hist.peak)
    BY <1>1, <1>2, <1>5, <1>10 DEF Plateau
  <2> QED
    BY <1>1, <1>4, <1>13, <1>14, <2>1, Becomes
<1> QED
  BY <1>6, <1>7, <1>9, <1>15

\* Every step keeps the invariant and, if it switches, changes the window by the
\* difference of the plan.
LEMMA StepIsHealthy ==
    ASSUME CompositeInv, [Next]_vars
    PROVE  /\ CompositeInv'
           /\ ~ hist.switched /\ hist'.switched /\ 0 <= plan.diff
                 => tcb'.cWnd - tcb.cWnd = plan.diff * SegmentSize
<1>0. /\ sock \in [congState : CongStates, dupAckCount : Nat]
      /\ hist \in [switched : BOOLEAN, acks : Nat, peak : Nat]
      /\ tcb.cWnd \in Nat /\ 0 .. MaxAcked \subseteq Nat /\ Samples \subseteq Clock
  <2>1. Now \in StateType /\ Now.t = tcb
    BY DEF CompositeInv, Healthy, Now
  <2> QED
    BY <2>1, StateFields, CompositeAssumption DEF CompositeInv, Samples
<1>1. ASSUME NEW n \in 0 .. MaxAcked, NEW x \in Clock, AckInOpen(n, x)
      PROVE  CompositeInv' /\ hist'.switched = hist.switched
  <2>1. /\ Reacts /\ sock.congState = "CA_OPEN" /\ Record(n, tcb.cWnd)
        /\ sock' = sock /\ plan' = plan
        /\ Become(IncreaseWindow(PktsAcked(Now, x), n, x))
    BY <1>1 DEF AckInOpen
  <2>2. sock' \in [congState : CongStates \ {"CA_RECOVERY"}, dupAckCount : Nat]
        /\ sock.congState # "CA_RECOVERY"
    BY <1>0, <2>1
  <2>3. CompositeInv'
    BY <2>1, <2>2, AckGrows
  <2> QED
    BY <1>0, <2>1, <2>3, RecordKeeps
<1>2. ASSUME NEW n \in 0 .. MaxAcked, NEW x \in Clock, AckInDisorder(n, x)
      PROVE  CompositeInv' /\ hist'.switched = hist.switched
  <2> DEFINE told == IF n >= sock.dupAckCount THEN PktsAcked(Now, x) ELSE Now
  <2>1. /\ Reacts /\ sock.congState = "CA_DISORDER" /\ Record(n, tcb.cWnd) /\ plan' = plan
        /\ sock' = [congState |-> "CA_OPEN", dupAckCount |-> 0]
        /\ Become(IncreaseWindow(told, n, x))
    BY <1>2 DEF AckInDisorder
  <2>2. told = PktsAcked(Now, x) \/ (told = Now /\ sock.congState = "CA_DISORDER")
    BY <2>1
  <2>3. sock' \in [congState : CongStates \ {"CA_RECOVERY"}, dupAckCount : Nat]
        /\ sock.congState # "CA_RECOVERY"
    BY <2>1 DEF CongStates
  <2> HIDE DEF told
  <2>4. CompositeInv'
    BY <2>1, <2>2, <2>3, AckGrows
  <2> QED
    BY <1>0, <2>1, <2>4, RecordKeeps
<1>3. ASSUME NEW n \in 0 .. MaxAcked, NEW x \in Clock, AckInLoss(n, x)
      PROVE  CompositeInv' /\ hist'.switched = hist.switched
  <2>1. /\ Reacts /\ sock.congState = "CA_LOSS" /\ Record(n, tcb.cWnd) /\ plan' = plan
        /\ Become(IncreaseWindow(PktsAcked(Now, x), n, x))
    BY <1>3 DEF AckInLoss
  <2>2. PICK st \in {"CA_LOSS", "CA_OPEN"} : sock' = [sock EXCEPT !.congState = st]
    BY <1>3 DEF AckInLoss
  <2>3. sock' \in [congState : CongStates \ {"CA_RECOVERY"}, dupAckCount : Nat]
        /\ sock.congState # "CA_RECOVERY" /\ sock'.congState = st
    BY <1>0, <2>1, <2>2 DEF CongStates
  <2>4. CompositeInv'
    BY <2>1, <2>3, AckGrows
  <2> QED
    BY <1>0, <2>1, <2>4, RecordKeeps
<1>4. ASSUME NEW n \in 0 .. MaxAcked, NEW x \in Clock, ExitRecovery(n, x)
      PROVE  CompositeInv' /\ hist'.switched = hist.switched
  BY <1>4, ExitRecoveryKeeps
<1>5. ASSUME NEW x \in Clock, DupAck(x)
      PROVE  CompositeInv' /\ hist' = hist
  <2>1. /\ sock.congState \in {"CA_OPEN", "CA_DISORDER"} /\ plan' = plan /\ hist' = hist
        /\ sock' = [congState |-> "CA_DISORDER", dupAckCount |-> sock.dupAckCount + 1]
        /\ \/ Become(PktsAcked(Now, x))
           \/ sock.congState = "CA_DISORDER" /\ UNCHANGED <<cc, tcb>>
    BY <1>5 DEF DupAck
  <2>2. sock' \in [congState : CongStates, dupAckCount : Nat] /\ sock'.congState = "CA_DISORDER"
    BY <1>0, <2>1 DEF CongStates
  <2>3. CASE Become(PktsAcked(Now, x))
    BY <2>1, <2>2, <2>3, SampleOnly
  <2>4. CASE sock.congState = "CA_DISORDER" /\ UNCHANGED <<cc, tcb>>
    BY <2>1, <2>2, <2>4 DEF CompositeInv, Now
  <2> QED
    BY <2>1, <2>2, <2>3, <2>4
<1>6. ASSUME NEW x \in Clock, AckInRecovery(x)
      PROVE  CompositeInv' /\ hist' = hist
  BY <1>6, AckInRecoveryKeeps DEF AckInRecovery
<1>7. ASSUME NEW x \in Clock, RepeatedAck(x)
      PROVE  CompositeInv' /\ hist' = hist
  BY <1>0, <1>7, SampleOnly DEF RepeatedAck
<1>8. ASSUME NEW f \in Flights, NEW x \in Clock, EnterRecovery(f, x)
      PROVE  CompositeInv' /\ hist'.switched = hist.switched
  BY <1>8, EnterRecoveryKeeps
<1>9. ASSUME NEW f \in Flights, ReTxTimeout(f)
      PROVE  CompositeInv' /\ hist' = hist
  BY <1>9, ReTxTimeoutKeeps DEF ReTxTimeout
<1>10. ASSUME SwitchPolicy
       PROVE  /\ CompositeInv'
              /\ 0 <= plan.diff => tcb'.cWnd - tcb.cWnd = plan.diff * SegmentSize
  BY <1>10, SwitchPolicyKeeps, Zenon DEF SwitchPolicy
<1>11. CASE UNCHANGED vars
  BY <1>11 DEF vars, CompositeInv, Now
<1> QED
  BY <1>0, <1>1, <1>2, <1>3, <1>4, <1>5, <1>6, <1>7, <1>8, <1>9, <1>10, <1>11 DEF Next

-----------------------------------------------------------------------------
\* The inductive invariant holds in every reachable state.
THEOREM AlwaysHealthy == Spec => []CompositeInv
<1>1. CompositeInv /\ [Next]_vars => CompositeInv'
  BY StepIsHealthy
<1> QED
  BY <1>1, InitIsHealthy, PTL DEF Spec

\* TypeOK: the counters of tcp-composite.cc stay natural numbers, the unsigned subtractions
\* of m_ackCnt and m_cWndCnt included, and window and threshold stay 32-bit words.
THEOREM TypeCorrect == Spec => []TypeOK
<1>1. CompositeInv => TypeOK
  <2> SUFFICES ASSUME CompositeInv PROVE TypeOK
    OBVIOUS
  <2>1. cc \in CompositeType /\ tcb \in TcbType
    BY DEF CompositeInv, Healthy, StateType, Now
  <2> QED
    BY <2>1 DEF TypeOK, CompositeType, TcbType, Word
<1> QED
  BY <1>1, AlwaysHealthy, PTL

\* Update never adds a delay of Time::Min(), for any order of samples, losses, timeouts
\* and the switch: every handler samples before it grows, or sampled in CA_DISORDER, and
\* GetSsThresh ends the epoch before CubicReset forgets the delay.
THEOREM DelayAlwaysKnown == Spec => []DelayIsKnown
<1>1. CompositeInv => DelayIsKnown
  BY DEF CompositeInv, Healthy, Sound, Now, DelayIsKnown
<1> QED
  BY <1>1, AlwaysHealthy, PTL

\* m_bicOriginPoint - delta of Update does not wrap around, before and after a switch in
\* the middle of an epoch, if no plan has two Cubics with different second parameters:
\* the condition that the older list of genSwitchJobSub.py does not meet.
THEOREM TargetAlwaysBelowOrigin == SameCurve => (Spec => []TargetIsBelowOrigin)
<1> SUFFICES ASSUME SameCurve PROVE Spec => []TargetIsBelowOrigin
  OBVIOUS
<1>1. CompositeInv => TargetIsBelowOrigin
  BY DEF CompositeInv, Healthy, Sound, Now, TargetIsBelowOrigin
<1> QED
  BY <1>1, AlwaysHealthy, PTL

\* The loop of Update on m_ackCnt ends, for every beta from 1/5 to 1: no threshold is below
\* two segments, so no window in congestion avoidance is.
THEOREM UpdateAlwaysTerminates == Spec => []UpdateTerminates
<1>1. CompositeInv => UpdateTerminates
  BY DEF CompositeInv, Healthy, Sound, Now, UpdateTerminates
<1> QED
  BY <1>1, AlwaysHealthy, PTL

\* A connection that began with Cubic enters no slow start with m_found set, up to the switch.
THEOREM EverySlowStartIsWatched == Spec => []SlowStartIsWatched
<1>1. CompositeInv => SlowStartIsWatched
  <2> SUFFICES ASSUME CompositeInv, cc.policy = "TcpCubic", ~ hist.switched,
                      sock.congState = "CA_OPEN", tcb.cWnd < tcb.ssThresh, cc.found
               PROVE  FALSE
    BY DEF SlowStartIsWatched
  <2>1. Now.c = cc /\ Now.t = tcb
    BY DEF Now
  <2>2. tcb.cWnd \in Nat /\ tcb.ssThresh \in Nat
    BY <2>1, StateFields DEF CompositeInv, Healthy
  <2>3. tcb.ssThresh <= tcb.cWnd
    BY <2>1 DEF CompositeInv, Healthy
  <2> QED BY <2>2, <2>3
<1> QED
  BY <1>1, AlwaysHealthy, PTL

\* m_lastMaxCwnd and m_bicOriginPoint of a Cubic are never above every window the connection
\* had, whatever recovery, HyStart and the switch did to the window, if a NewReno that goes
\* first has a first parameter of at most 1.
THEOREM EveryPlateauWasReached == ModestFirst => (Spec => []PlateauWasReached)
<1> SUFFICES ASSUME ModestFirst PROVE Spec => []PlateauWasReached
  OBVIOUS
<1>1. CompositeInv => PlateauWasReached
  BY DEF CompositeInv, Plateau, Now, PlateauWasReached
<1> QED
  BY <1>1, AlwaysHealthy, PTL

\* The switch changes the window by m_secondCwndDiff segments, if no plan shrinks it: the
\* condition that the experiments with a difference of -5 do not meet.
THEOREM SwitchAddsDiff ==
    (\A p \in Plans : 0 <= p.diff) => (Spec => SwitchChangesByDiff)
<1> SUFFICES ASSUME \A p \in Plans : 0 <= p.diff PROVE Spec => SwitchChangesByDiff
  OBVIOUS
<1>1. CompositeInv /\ [Next]_vars =>
        [ ~ hist.switched /\ hist'.switched => tcb'.cWnd - tcb.cWnd = plan.diff * SegmentSize ]_vars
  <2>1. CompositeInv => 0 <= plan.diff
    BY DEF CompositeInv
  <2> QED
    BY <2>1, StepIsHealthy
<1> QED
  BY <1>1, AlwaysHealthy, PTL DEF Spec, SwitchChangesByDiff
=============================================================================
