-------------------------- MODULE TcpSenderProofs --------------------------
(***************************************************************************)
(* The sending side, for streams, segments, windows, networks and retry    *)
(* limits of every size.  First the control of the socket, which needs no  *)
(* more than the congestion state and the recovery point; then what each   *)
(* part of a handler does to a socket that satisfies SockOK, from sending  *)
(* one segment up to the handling of a whole ACK and of a timeout; then    *)
(* the network and the receiver; at the end SenderInv, the invariant that  *)
(* puts them together, and the theorems it gives.                          *)
(***************************************************************************)
EXTENDS TcpSender, TcpTxBufferProofs, TLAPS

(***************************************************************************)
(* The control of the socket: the congestion state and the recovery point. *)
(***************************************************************************)
SocketField ==
    {"sack", "buf", "congState", "cWnd", "highTx", "nextTx", "highRxAck", "rWnd", "dupAckCount",
     "recover", "recoverActive", "isFirstPartialAck", "notProcessed", "retrCount", "retx",
     "persist", "sendPending", "aborted", "out", "failed"}

\* The recovery point is active in recovery and after a timeout only.
Control(s) ==
    /\ DOMAIN s = SocketField
    /\ s.congState \in CongState
    /\ s.recoverActive \in BOOLEAN
    /\ s.recoverActive => s.congState \in {"CA_RECOVERY", "CA_LOSS"}

\* The control of t is that of s.
SameControl(s, t) ==
    /\ DOMAIN t = SocketField
    /\ t.congState = s.congState
    /\ t.recover = s.recover
    /\ t.recoverActive = s.recoverActive
    /\ t.dupAckCount = s.dupAckCount

LEMMA SameIsControlled ==
    ASSUME NEW s, NEW t, Control(s), SameControl(s, t)
    PROVE  Control(t)
BY DEF Control, SameControl

LEMMA SameControlChains ==
    ASSUME NEW s, NEW t, NEW u, SameControl(s, t), SameControl(t, u)
    PROVE  SameControl(s, u)
BY DEF SameControl

LEMMA CheckKeeps ==
    ASSUME NEW s, NEW n, NEW c, DOMAIN s = SocketField
    PROVE  SameControl(s, Check(s, n, c))
BY DEF Check, SameControl, SocketField

LEMMA SendDataPacketKeeps ==
    ASSUME NEW s, NEW seq, NEW n, DOMAIN s = SocketField
    PROVE  SameControl(s, SendDataPacket(s, seq, n))
<1> DEFINE b == CopyFromSequence(s.buf, n, seq)
           sent == [s EXCEPT !.buf = b,
                          !.retx = TRUE,
                          !.highTx = Max({@, seq + b.sent[seq].len}),
                          !.out = Append(@, [seq |-> seq, len |-> b.sent[seq].len])]
           c1 == Check(sent, "sacked segment resent", ~ b.sent[seq].sacked)
           c2 == Check(c1, "outside the window",
                   b.sent[seq].retrans \/ s.highRxAck + s.rWnd >= seq + n)
           c3 == Check(s, "nothing to send", FALSE)
<1>1. SameControl(s, sent)
  <2> HIDE DEF b
  <2> QED BY DEF SameControl, SocketField
<1>2. SendDataPacket(s, seq, n) = IF seq \notin DOMAIN b.sent THEN c3 ELSE c2
  BY Zenon DEF SendDataPacket
<1> HIDE DEF sent
<1>3. SameControl(s, c3)
  BY CheckKeeps
<1>4. SameControl(sent, c1)
  <2>1. DOMAIN sent = SocketField
    BY <1>1 DEF SameControl
  <2> QED BY <2>1, CheckKeeps, Zenon
<1> HIDE DEF c1
<1>5. SameControl(c1, c2)
  <2>1. DOMAIN c1 = SocketField
    BY <1>4 DEF SameControl
  <2> QED BY <2>1, CheckKeeps, Zenon
<1> HIDE DEF c2, c3, b
<1>6. SameControl(s, c2)
  BY <1>1, <1>4, <1>5 DEF SameControl
<1> QED BY <1>2, <1>3, <1>6

LEMMA SendOneKeeps ==
    ASSUME NEW s, DOMAIN s = SocketField
    PROVE  SameControl(s, SendOne(s))
<1> DEFINE next == NextOf(s)
           size == Min({AvailableWindow(s), SegmentSize, next.seqHigh - next.seq})
           sent == SendDataPacket(s, next.seq, size)
           moved == [sent EXCEPT !.nextTx = EndOf(sent.buf, next.seq)]
<1>1. SendOne(s) = IF Held(s) THEN s ELSE CheckInFlight(moved)
  BY Zenon DEF SendOne
<1>2. SameControl(s, sent)
  <2> HIDE DEF next, size
  <2> QED BY SendDataPacketKeeps
<1>3. SameControl(sent, moved)
  <2> HIDE DEF sent, next
  <2> QED BY <1>2 DEF SameControl, SocketField
<1>4. SameControl(moved, CheckInFlight(moved))
  <2> HIDE DEF moved
  <2> QED BY <1>3, CheckKeeps DEF CheckInFlight, SameControl
<1>5. SameControl(s, s)
  BY DEF SameControl
<1> HIDE DEF sent, moved
<1> QED BY <1>1, <1>2, <1>3, <1>4, <1>5 DEF SameControl

\* The loop of SendPendingData exists as a function of the number of turns, and
\* what one turn keeps, all of them keep.
Turns(f, s) ==
    f = [n \in 0 .. (2 * StreamLen) |-> IF n = 0 THEN CheckInFlight(s) ELSE SendOne(f[n - 1])]

TurnsUpTo(m, f, s) ==
    f = [n \in 0 .. m |-> IF n = 0 THEN CheckInFlight(s) ELSE SendOne(f[n - 1])]

LEMMA TurnsExist ==
    ASSUME NEW s
    PROVE  \E f : Turns(f, s)
<1> DEFINE N == 2 * StreamLen
           S == {m \in 0 .. N : \E f : TurnsUpTo(m, f, s)}
<1>0. N \in Nat
  BY TxStreamAssumption
<1>1. 0 \in S
  <2> DEFINE f == [n \in 0 .. 0 |-> CheckInFlight(s)]
  <2>1. f = [n \in 0 .. 0 |-> IF n = 0 THEN CheckInFlight(s) ELSE SendOne(f[n - 1])]
    OBVIOUS
  <2> HIDE DEF f
  <2> QED BY <1>0, <2>1 DEF TurnsUpTo
<1>2. ASSUME NEW m \in 0 .. (N - 1), m \in S PROVE m + 1 \in S
  <2>1. PICK f : TurnsUpTo(m, f, s)
    BY <1>2
  <2> DEFINE g == [n \in 0 .. (m + 1) |-> IF n <= m THEN f[n] ELSE SendOne(f[m])]
  <2>2. \A n \in 0 .. m : g[n] = f[n]
    OBVIOUS
  <2>3. g[m + 1] = SendOne(f[m])
    OBVIOUS
  <2>4. \A n \in 0 .. m : f[n] = IF n = 0 THEN CheckInFlight(s) ELSE SendOne(f[n - 1])
    BY <2>1, Zenon DEF TurnsUpTo
  <2>5. DOMAIN g = 0 .. (m + 1) /\ g = [n \in DOMAIN g |-> g[n]]
    OBVIOUS
  <2> HIDE DEF g
  <2>6. ASSUME NEW n \in 0 .. (m + 1)
        PROVE  g[n] = IF n = 0 THEN CheckInFlight(s) ELSE SendOne(g[n - 1])
    <3>1. n = 0 \/ n - 1 \in 0 .. m
      BY <1>0
    <3>2. n = m + 1 \/ n \in 0 .. m
      BY <1>0
    <3> QED BY <1>0, <3>1, <3>2, <2>2, <2>3, <2>4
  <2>7. g = [n \in 0 .. (m + 1) |-> IF n = 0 THEN CheckInFlight(s) ELSE SendOne(g[n - 1])]
    BY <2>5, <2>6
  <2>8. TurnsUpTo(m + 1, g, s)
    BY <2>7, Zenon DEF TurnsUpTo
  <2> QED BY <1>0, <2>8
<1>3. N \in S
  <2> HIDE DEF S, N
  <2>1. \A i \in 0 .. N : i \in S
    BY <1>0, <1>1, <1>2, UpTo
  <2> QED BY <1>0, <2>1
<1> QED BY <1>3, Zenon DEF Turns, TurnsUpTo

TurnsOf(s) == CHOOSE f : Turns(f, s)

\* SendPendingData with its loop named.
LEMMA SendPendingDataIs ==
    ASSUME NEW s
    PROVE  LET done == TurnsOf(s)[2 * StreamLen]
           IN  SendPendingData(s) =
                 IF s.buf.size = 0 \/ s.aborted THEN s
                 ELSE Check(done, "sent in CA_DISORDER without limited transmit",
                            \/ done.out = s.out \/ s.sack \/ LimitedTransmit
                            \/ s.congState # "CA_DISORDER")
BY Zenon DEF SendPendingData, TurnsOf, Turns

LEMMA TurnsAre ==
    ASSUME NEW s
    PROVE  /\ TurnsOf(s)[0] = CheckInFlight(s)
           /\ \A n \in 1 .. (2 * StreamLen) : TurnsOf(s)[n] = SendOne(TurnsOf(s)[n - 1])
<1>1. Turns(TurnsOf(s), s)
  BY TurnsExist, Zenon DEF TurnsOf
<1> DEFINE f == TurnsOf(s)
<1> HIDE DEF f
<1>2. \A n \in 0 .. (2 * StreamLen) : f[n] = IF n = 0 THEN CheckInFlight(s) ELSE SendOne(f[n - 1])
  BY <1>1, Zenon DEF Turns, f
<1>3. f[0] = CheckInFlight(s) /\ \A n \in 1 .. (2 * StreamLen) : f[n] = SendOne(f[n - 1])
  BY <1>2, TxStreamAssumption
<1> QED BY <1>3 DEF f

LEMMA SendPendingDataKeeps ==
    ASSUME NEW s, DOMAIN s = SocketField
    PROVE  SameControl(s, SendPendingData(s))
<1> DEFINE f == TurnsOf(s)
           N == 2 * StreamLen
           done == f[N]
           S == {n \in 0 .. N : SameControl(s, f[n])}
<1>0. N \in Nat
  BY TxStreamAssumption
<1>1. SameControl(s, f[0])
  BY TurnsAre, CheckKeeps DEF CheckInFlight
<1>2. ASSUME NEW n \in 0 .. (N - 1), n \in S PROVE n + 1 \in S
  <2>1. n + 1 \in 1 .. N /\ (n + 1) - 1 = n /\ n + 1 \in 0 .. N
    BY <1>0
  <2>2. f[n + 1] = SendOne(f[n])
    BY <2>1, TurnsAre
  <2> HIDE DEF f, N
  <2>3. SameControl(f[n], f[n + 1])
    BY <1>2, <2>2, SendOneKeeps DEF SameControl
  <2> QED BY <1>2, <2>1, <2>3 DEF SameControl
<1> HIDE DEF f
<1>3. SameControl(s, done)
  <2>1. 0 \in S
    BY <1>0, <1>1
  <2> HIDE DEF S, N
  <2>2. N \in S
    BY <1>0, <1>2, <2>1, UpTo
  <2> QED BY <2>2 DEF S
<1>4. \A c : SameControl(done, Check(done, "sent in CA_DISORDER without limited transmit", c))
  <2> HIDE DEF done
  <2>1. DOMAIN done = SocketField
    BY <1>3 DEF SameControl
  <2> QED BY <2>1, CheckKeeps, Zenon
<1>5. SameControl(s, s)
  BY DEF SameControl
<1>6. PICK c : \/ SendPendingData(s) = s
               \/ SendPendingData(s) = Check(done, "sent in CA_DISORDER without limited transmit", c)
  <2>1. \/ SendPendingData(s) = s
        \/ \E c : SendPendingData(s) = Check(done, "sent in CA_DISORDER without limited transmit", c)
    BY SendPendingDataIs, Zenon DEF f, N, done
  <2> QED BY <2>1, Zenon
<1> HIDE DEF done
<1> QED BY <1>3, <1>4, <1>5, <1>6 DEF SameControl

LEMMA RenoSackKeeps ==
    ASSUME NEW s, DOMAIN s = SocketField
    PROVE  SameControl(s, RenoSack(s))
<1> DEFINE k == IF s.sack THEN Cardinality(DOMAIN s.buf.sent) > 1 ELSE DOMAIN s.buf.sent # {}
           c == Check(s, "Reno SACK without segments", k)
           d == [c EXCEPT !.buf = AddRenoSack(@)]
<1>1. RenoSack(s) = IF DOMAIN s.buf.sent = {} THEN c ELSE d
  BY Zenon DEF RenoSack
<1> HIDE DEF k
<1>2. SameControl(s, c)
  BY CheckKeeps
<1> HIDE DEF c
<1>3. SameControl(s, d)
  BY <1>2 DEF SameControl, SocketField
<1> HIDE DEF d
<1> QED BY <1>1, <1>2, <1>3

LEMMA DoRetransmitKeeps ==
    ASSUME NEW s, DOMAIN s = SocketField
    PROVE  SameControl(s, DoRetransmit(s))
<1> DEFINE next == NextSeg(s.buf, FALSE, s.rWnd)
           seq == IF next = NoSeg THEN s.buf.first ELSE next.seq
           n == IF next = NoSeg THEN SegmentSize ELSE next.seqHigh - next.seq
           c == Check(s, "retransmission of another than the head", s.sack \/ seq = s.buf.first)
           sent == SendDataPacket(c, seq, n)
           moved == [sent EXCEPT !.nextTx = seq]
<1>1. DoRetransmit(s) = moved
  BY Zenon DEF DoRetransmit
<1> HIDE DEF seq, n
<1>2. SameControl(s, c)
  BY CheckKeeps
<1> HIDE DEF c
<1>3. SameControl(c, sent)
  BY <1>2, SendDataPacketKeeps DEF SameControl
<1> HIDE DEF sent
<1>4. SameControl(sent, moved)
  BY <1>3 DEF SameControl, SocketField
<1> HIDE DEF moved
<1> QED BY <1>1, <1>2, <1>3, <1>4 DEF SameControl

LEMMA NewAckKeeps ==
    ASSUME NEW s, NEW r, DOMAIN s = SocketField
    PROVE  SameControl(s, NewAck(s, r))
BY DEF NewAck, SameControl, SocketField

\* Recovery begins with an active recovery point.
LEMMA EnterRecoveryControl ==
    ASSUME NEW s, NEW w, DOMAIN s = SocketField
    PROVE  Control(EnterRecovery(s, w)) /\ EnterRecovery(s, w).congState = "CA_RECOVERY"
<1> DEFINE reno == RenoSack(s)
           marked == IF ~ s.sack THEN [reno EXCEPT !.buf = MarkHeadAsLost(@)]
                  ELSE IF IsLost(s.buf, s.buf.first) THEN s
                  ELSE [s EXCEPT !.buf = MarkHeadAsLost(@)]
           entered == [marked EXCEPT !.recover = s.highTx,
                                  !.recoverActive = TRUE,
                                  !.congState = "CA_RECOVERY",
                                  !.cWnd = w]
           checked == CheckInFlight(entered)
           sent == SendDataPacket(checked, s.highRxAck, SegmentSize)
<1>1. EnterRecovery(s, w) = sent
  BY Zenon DEF EnterRecovery
<1>2. DOMAIN reno = SocketField
  BY RenoSackKeeps DEF SameControl
<1> HIDE DEF reno
<1>3. DOMAIN marked = SocketField
  BY <1>2
<1> HIDE DEF marked
<1>4. /\ DOMAIN entered = SocketField
      /\ entered.recoverActive = TRUE
      /\ entered.congState = "CA_RECOVERY"
  BY <1>3 DEF SocketField
<1> HIDE DEF entered
<1>5. SameControl(entered, checked)
  BY <1>4, CheckKeeps DEF CheckInFlight
<1> HIDE DEF checked
<1>6. SameControl(checked, sent)
  <2> HIDE DEF sent
  <2>1. DOMAIN checked = SocketField
    BY <1>5 DEF SameControl
  <2> QED BY <2>1, SendDataPacketKeeps DEF sent
<1> HIDE DEF sent
<1> QED BY <1>1, <1>4, <1>5, <1>6 DEF SameControl, Control, CongState

\* A duplicate ACK starts a recovery only when no recovery point is active.
LEMMA DupAckControl ==
    ASSUME NEW s, NEW w, Control(s)
    PROVE  LET t == DupAck(s, w)
           IN  /\ Control(t)
               /\ s.congState \in {"CA_RECOVERY", "CA_LOSS"} => SameControl(s, t)
<1> DEFINE counted == IF s.congState = "CA_RECOVERY" THEN s
                   ELSE [s EXCEPT !.dupAckCount = @ + 1]
           first == Check(counted, "first duplicate", counted.dupAckCount = 1)
           d == IF s.congState = "CA_OPEN"
             THEN [first EXCEPT !.congState = "CA_DISORDER"]
             ELSE counted
           c == Check(d, "duplicates beyond the threshold",
                   d.dupAckCount <= DupAckThresh \/ d.recoverActive)
           reno == RenoSack(s)
           inRecovery == [(IF s.sack THEN s ELSE reno) EXCEPT !.cWnd = w]
           start == \/ /\ d.dupAckCount = DupAckThresh
                       /\ d.highRxAck >= d.recover \/ ~ d.recoverActive
                    \/ IsLost(d.buf, d.highRxAck)
           open == IF start
                   THEN EnterRecovery(c, w)
                   ELSE IF ~ s.sack /\ LimitedTransmit THEN RenoSack(c) ELSE c
<1>0. DOMAIN s = SocketField
  BY DEF Control
<1>1. /\ s.congState = "CA_LOSS" => DupAck(s, w) = s
      /\ s.congState = "CA_RECOVERY" => DupAck(s, w) = inRecovery
      /\ s.congState \in {"CA_OPEN", "CA_DISORDER"} => DupAck(s, w) = open
  <2>1. DupAck(s, w) = CASE s.congState = "CA_LOSS" -> s
          [] s.congState = "CA_RECOVERY" -> inRecovery
          [] OTHER -> open
    BY Zenon DEF DupAck
  <2> HIDE DEF inRecovery, open
  <2> QED BY <2>1
<1> HIDE DEF start
<1>2. SameControl(s, inRecovery)
  <2>1. SameControl(s, reno)
    BY <1>0, RenoSackKeeps
  <2> HIDE DEF reno
  <2> QED BY <1>0, <2>1 DEF SameControl, SocketField
<1>3. CASE s.congState \in {"CA_RECOVERY", "CA_LOSS"}
  <2> HIDE DEF inRecovery, open
  <2> DEFINE t == DupAck(s, w)
  <2>1. t = s \/ t = inRecovery
    BY <1>1, <1>3
  <2> HIDE DEF t
  <2>2. SameControl(s, t)
    BY <2>1, <1>2, <1>0 DEF SameControl
  <2>3. Control(t)
    BY <2>2, SameIsControlled
  <2> QED BY <2>2, <2>3 DEF t
<1>4. CASE s.congState \in {"CA_OPEN", "CA_DISORDER"}
  <2>1. /\ DOMAIN counted = SocketField /\ counted.congState = s.congState
        /\ counted.recoverActive = s.recoverActive
    BY <1>0 DEF SocketField
  <2> HIDE DEF counted
  <2>2. SameControl(counted, first)
    BY <2>1, CheckKeeps, Zenon
  <2> HIDE DEF first
  <2>3. DOMAIN d = SocketField /\ d.recoverActive = s.recoverActive /\ d.congState \in CongState
    BY <1>4, <2>1, <2>2 DEF SameControl, SocketField, CongState
  <2> HIDE DEF d
  <2>4. SameControl(d, c)
    BY <2>3, CheckKeeps, Zenon
  <2> HIDE DEF c
  <2>5. DOMAIN c = SocketField
    BY <2>4 DEF SameControl
  <2>6. SameControl(c, RenoSack(c)) /\ Control(EnterRecovery(c, w))
    BY <2>5, RenoSackKeeps, EnterRecoveryControl
  <2>7. Control(c)
    BY <1>4, <2>3, <2>4 DEF SameControl, Control
  <2>8. Control(open)
    BY <2>6, <2>7, SameIsControlled
  <2> HIDE DEF open, inRecovery
  <2>9. DupAck(s, w) = open
    BY <1>1, <1>4
  <2> QED BY <1>4, <2>8, <2>9
<1> QED BY <1>3, <1>4 DEF Control, CongState

\* A step from s to t that starts no recovery while a recovery point is active.
Moves(s, t) ==
    /\ Control(t)
    /\ t.congState = "CA_RECOVERY" => s.congState = "CA_RECOVERY" \/ ~ s.recoverActive

LEMMA SameMoves ==
    ASSUME NEW s, NEW t, Control(s), SameControl(s, t)
    PROVE  Moves(s, t)
BY DEF Control, SameControl, Moves

LEMMA MovesThenSame ==
    ASSUME NEW s, NEW t, NEW u, Moves(s, t), SameControl(t, u)
    PROVE  Moves(s, u)
BY DEF Control, SameControl, Moves

LEMMA SameThenMoves ==
    ASSUME NEW s, NEW t, NEW u, Moves(t, u), SameControl(s, t)
    PROVE  Moves(s, u)
BY DEF Control, SameControl, Moves

LEMMA PartialAckKeeps ==
    ASSUME NEW s, NEW ack, NEW n, NEW w, DOMAIN s = SocketField
    PROVE  SameControl(s, PartialAck(s, ack, n, w))
<1> DEFINE m == IF s.sack THEN s ELSE [s EXCEPT !.buf = MarkHeadAsLost(@)]
           c == IF n >= 1 THEN [m EXCEPT !.cWnd = w] ELSE m
           r == IF IsRetransmittedDataAcked(c.buf, ack + SegmentSize) THEN c ELSE DoRetransmit(c)
           a == NewAck(r, r.isFirstPartialAck)
           t == [a EXCEPT !.isFirstPartialAck = FALSE]
<1>1. PartialAck(s, ack, n, w) = t
  BY Zenon DEF PartialAck
<1>2. SameControl(s, m)
  BY DEF SameControl, SocketField
<1> HIDE DEF m
<1>3. SameControl(s, c)
  BY <1>2 DEF SameControl, SocketField
<1> HIDE DEF c
<1>4. SameControl(s, r)
  <2>1. SameControl(c, DoRetransmit(c))
    BY <1>3, DoRetransmitKeeps DEF SameControl
  <2> QED BY <1>3, <2>1 DEF SameControl
<1> HIDE DEF r
<1>5. SameControl(r, a)
  BY <1>4, NewAckKeeps DEF SameControl
<1> HIDE DEF a
<1>6. SameControl(a, t)
  BY <1>5 DEF SameControl, SocketField
<1> QED BY <1>1, <1>4, <1>5, <1>6 DEF SameControl

\* The end of a recovery clears the recovery point.
LEMMA FullAckControl ==
    ASSUME NEW s, NEW ack, NEW dup, NEW w, Control(s),
           s.congState \in {"CA_RECOVERY", "CA_LOSS"} => ~ (ack < s.recover)
    PROVE  Control(FullAck(s, ack, dup, w)) /\ FullAck(s, ack, dup, w).congState # "CA_RECOVERY"
<1> DEFINE dis == IF dup THEN s ELSE [s EXCEPT !.congState = "CA_OPEN"]
           rec == [s EXCEPT !.congState = "CA_OPEN", !.isFirstPartialAck = TRUE,
                               !.dupAckCount = 0]
           los == [s EXCEPT !.congState = "CA_OPEN", !.isFirstPartialAck = TRUE]
           o == CASE s.congState = "CA_OPEN" -> s
               [] s.congState = "CA_DISORDER" -> dis
               [] s.congState = "CA_RECOVERY" -> rec
               [] s.congState = "CA_LOSS" -> los
           r == [o EXCEPT !.recoverActive = @ /\ ack < s.recover]
           c == [r EXCEPT !.cWnd = w]
           t == IF r.congState = "CA_OPEN" THEN NewAck(c, TRUE) ELSE r
<1>1. FullAck(s, ack, dup, w) = t
  BY Zenon DEF FullAck
<1>2. \A x \in {s, dis, rec, los} :
         /\ DOMAIN x = SocketField
         /\ x.recoverActive = s.recoverActive
         /\ x.congState \in {s.congState, "CA_OPEN"}
         /\ x \in {rec, los} => x.congState = "CA_OPEN"
  BY DEF Control, SocketField
<1> HIDE DEF dis, rec, los
<1>3. /\ o \in {s, dis, rec, los}
      /\ s.congState \in {"CA_RECOVERY", "CA_LOSS"} => o \in {rec, los}
  BY DEF Control, CongState
<1> HIDE DEF o
<1>4. /\ DOMAIN r = SocketField
      /\ r.congState \in {"CA_OPEN", "CA_DISORDER"}
      /\ r.recoverActive = (o.recoverActive /\ ack < s.recover)
  BY <1>2, <1>3 DEF SocketField, Control, CongState
<1>5. r.recoverActive = FALSE
  <2>1. o.recoverActive = s.recoverActive
    BY <1>2, <1>3
  <2> HIDE DEF r
  <2>2. (s.recoverActive /\ ack < s.recover) = FALSE
    BY DEF Control
  <2> QED BY <1>4, <2>1, <2>2, Zenon
<1> HIDE DEF r
<1>6. SameControl(r, c)
  BY <1>4 DEF SameControl, SocketField
<1> HIDE DEF c
<1>7. SameControl(c, NewAck(c, TRUE))
  BY <1>6, NewAckKeeps DEF SameControl
<1>8. SameControl(r, t)
  BY <1>4, <1>6, <1>7 DEF SameControl
<1> HIDE DEF t
<1> QED BY <1>1, <1>4, <1>5, <1>8 DEF SameControl, Control, CongState

LEMMA ProcessAckControl ==
    ASSUME NEW s, NEW ack, NEW oldHead, NEW updated, NEW w, Control(s)
    PROVE  Moves(s, ProcessAck(s, ack, oldHead, updated, w))
<1> DEFINE isDupack == IF s.sack THEN updated
                    ELSE ack = oldHead /\ ack < s.highTx
           d == IF isDupack THEN DupAck(s, w) ELSE s
           rest == d.notProcessed + ((ack - oldHead) % SegmentSize)
           segsAcked == (ack - oldHead) \div SegmentSize + rest \div SegmentSize
           n == [d EXCEPT !.dupAckCount = IF isDupack THEN @ ELSE 0,
                       !.notProcessed = rest % SegmentSize]
           k == Check(n, "sacked in CA_LOSS", s.sack \/ n.buf.count["sacked"] = 0)
           l == [k EXCEPT !.cWnd = w]
           p == PartialAck(n, ack, segsAcked, w)
           a == NewAck(l, TRUE)
           f == FullAck(n, ack, isDupack, w)
<1>1. ProcessAck(s, ack, oldHead, updated, w) =
        IF ack = oldHead THEN d
        ELSE IF ack < n.recover /\ n.congState = "CA_RECOVERY" THEN p
        ELSE IF ack < n.recover /\ n.congState = "CA_LOSS" THEN a
        ELSE f
  BY Zenon DEF ProcessAck
<1> HIDE DEF isDupack
<1>2. Moves(s, d)
  <2> DEFINE u == DupAck(s, w)
  <2>1. Control(u) /\ (s.congState \in {"CA_RECOVERY", "CA_LOSS"} => SameControl(s, u))
    BY DupAckControl
  <2> HIDE DEF u
  <2>2. Moves(s, u)
    BY <2>1 DEF Moves, Control, SameControl, CongState
  <2>3. Moves(s, s)
    BY DEF Moves
  <2>4. d \in {u, s}
    BY DEF u
  <2> HIDE DEF d
  <2> QED BY <2>2, <2>3, <2>4
<1> HIDE DEF d, rest, segsAcked
<1>3. DOMAIN n = SocketField /\ n.congState = d.congState /\ n.recoverActive = d.recoverActive
  BY <1>2 DEF Moves, Control, SocketField
<1>4. Moves(s, n)
  <2> HIDE DEF n
  <2> QED BY <1>2, <1>3 DEF Moves, Control
<1> HIDE DEF n
<1>5. DOMAIN n = SocketField
  BY <1>4 DEF Moves, Control
<1>6. SameControl(n, p)
  BY <1>5, PartialAckKeeps
<1>7. SameControl(n, k)
  BY <1>5, CheckKeeps, Zenon
<1> HIDE DEF k
<1>8. SameControl(n, l)
  BY <1>7 DEF SameControl, SocketField
<1> HIDE DEF l
<1>9. SameControl(n, a)
  <2>1. SameControl(l, a)
    BY <1>8, NewAckKeeps DEF SameControl
  <2> HIDE DEF a
  <2> QED BY <1>8, <2>1 DEF SameControl
<1>10. ASSUME ~ (ack < n.recover /\ n.congState = "CA_RECOVERY"),
              ~ (ack < n.recover /\ n.congState = "CA_LOSS")
       PROVE  Moves(s, f)
  <2>1. n.congState \in {"CA_RECOVERY", "CA_LOSS"} => ~ (ack < n.recover)
    BY <1>10
  <2>2. Control(f) /\ f.congState # "CA_RECOVERY"
    BY <1>4, <2>1, FullAckControl DEF Moves
  <2> HIDE DEF f
  <2> QED BY <2>2 DEF Moves
<1> HIDE DEF p, a, f
<1>11. Moves(s, p) /\ Moves(s, a)
  BY <1>4, <1>6, <1>9, MovesThenSame
<1> QED BY <1>1, <1>2, <1>10, <1>11

LEMMA ReceivedAckControl ==
    ASSUME NEW s, NEW m, NEW w, Control(s)
    PROVE  Moves(s, ReceivedAck(s, m, w))
<1> DEFINE marked == Update(s.buf, m.sack)
           b == DiscardUpTo(marked, m.ack)
           updated == marked.count["sacked"] > s.buf.count["sacked"]
           q == [s EXCEPT !.buf = b]
           r == CheckInFlight(q)
           k == m.sack # << >> => /\ DOMAIN marked.sent # {}
                                  /\ ~ marked.sent[HeadItem(marked)].sacked
           c == Check(r, "head sacked", k)
           p == ProcessAck(c, m.ack, s.buf.first, updated, w)
<1>1. ReceivedAck(s, m, w) = SendPendingData(p)
  BY Zenon DEF ReceivedAck
<1> HIDE DEF updated, b, k
<1>2. SameControl(s, q)
  BY DEF SameControl, Control, SocketField
<1> HIDE DEF q
<1>3. SameControl(q, r)
  <2>1. DOMAIN q = SocketField
    BY <1>2 DEF SameControl
  <2> QED BY <2>1, CheckKeeps DEF CheckInFlight
<1> HIDE DEF r
<1>4. SameControl(r, c)
  <2>1. DOMAIN r = SocketField
    BY <1>3 DEF SameControl
  <2> QED BY <2>1, CheckKeeps
<1> HIDE DEF c
<1>5. SameControl(s, c)
  BY <1>2, <1>3, <1>4 DEF SameControl
<1>6. Control(c)
  BY <1>5, SameIsControlled
<1>7. Moves(c, p)
  BY <1>6, ProcessAckControl, Zenon
<1> HIDE DEF p
<1>8. Moves(s, p)
  BY <1>5, <1>7, SameThenMoves
<1>9. SameControl(p, SendPendingData(p))
  BY <1>8, SendPendingDataKeeps DEF Moves, Control
<1> QED BY <1>1, <1>8, <1>9, MovesThenSame

LEMMA DoForwardUpControl ==
    ASSUME NEW s, NEW m, NEW w, Control(s)
    PROVE  Moves(s, DoForwardUp(s, m, w))
<1> DEFINE u == UpdateWindowSize(s, m)
           e == EnterPersist(u)
           p == ProcessEstablished(e, m, w)
           o == [p EXCEPT !.persist = FALSE]
<1>1. SameControl(s, u)
  BY DEF UpdateWindowSize, SameControl, Control, SocketField
<1> HIDE DEF u
<1>2. SameControl(u, e)
  BY <1>1 DEF EnterPersist, SameControl, SocketField
<1> HIDE DEF e
<1>3. SameControl(s, e)
  BY <1>1, <1>2 DEF SameControl
<1>4. Control(e)
  BY <1>3, SameIsControlled
<1>5. Moves(e, p)
  <2>1. p = e \/ p = ReceivedAck(e, m, w)
    BY DEF ProcessEstablished
  <2>2. Moves(e, ReceivedAck(e, m, w)) /\ Moves(e, e)
    BY <1>4, ReceivedAckControl DEF Moves
  <2> QED BY <2>1, <2>2
<1> HIDE DEF p
<1>6. Moves(s, p)
  BY <1>3, <1>5, SameThenMoves
<1>7. SameControl(p, o)
  BY <1>6 DEF Moves, Control, SameControl, SocketField
<1>8. LeavePersist(p) = p \/ LeavePersist(p) = SendPendingData(o)
  BY Zenon DEF LeavePersist
<1> HIDE DEF o
<1>9. SameControl(p, SendPendingData(o))
  <2>1. SameControl(o, SendPendingData(o))
    BY <1>7, SendPendingDataKeeps DEF SameControl
  <2> QED BY <1>7, <2>1 DEF SameControl
<1>10. Moves(s, SendPendingData(o))
  BY <1>6, <1>9, MovesThenSame
<1> QED BY <1>6, <1>8, <1>10 DEF DoForwardUp, p, e, u

\* A timeout leads to CA_LOSS with an active recovery point.
LEMMA ReTxTimeoutControl ==
    ASSUME NEW s, Control(s)
    PROVE  Moves(s, ReTxTimeoutOf(s))
<1> DEFINE x == [s EXCEPT !.retx = FALSE]
           r == IF x.sack THEN x ELSE [x EXCEPT !.buf = ResetRenoSack(@)]
           lost == [r EXCEPT !.buf = SetSentListLost(@, ~ x.sack),
                  !.dupAckCount = 0,
                  !.recover = x.highTx,
                  !.recoverActive = TRUE,
                  !.congState = "CA_LOSS",
                  !.cWnd = SegmentSize,
                  !.retrCount = @ - 1]
           k == Check(lost, "in flight after the timeout", BytesInFlight(lost.buf) = 0)
           sent == SendPendingData(k)
           last == Check(sent, "more than a segment after the timeout",
                         BytesInFlight(sent.buf) <= SegmentSize)
           gone == DeallocateEndPoint(x)
<1>1. ReTxTimeoutOf(s) = IF s.buf.size = 0 THEN x
                         ELSE IF s.retrCount = 0 THEN gone ELSE last
  BY Zenon DEF ReTxTimeoutOf, TimedOut
<1>2. SameControl(s, x)
  BY DEF SameControl, Control, SocketField
<1> HIDE DEF x
<1>3. SameControl(s, gone)
  BY <1>2 DEF SameControl, SocketField, DeallocateEndPoint
<1>4. DOMAIN r = SocketField
  BY <1>2 DEF SameControl
<1> HIDE DEF r
<1>5. Control(lost) /\ lost.congState = "CA_LOSS"
  BY <1>4 DEF Control, SocketField, CongState
<1> HIDE DEF lost
<1>6. SameControl(lost, k)
  BY <1>5, CheckKeeps, Zenon DEF Control
<1> HIDE DEF k
<1>7. SameControl(k, sent)
  BY <1>6, SendPendingDataKeeps DEF SameControl
<1> HIDE DEF sent
<1>8. SameControl(sent, last)
  <2>1. DOMAIN sent = SocketField
    BY <1>7 DEF SameControl
  <2> QED BY <2>1, CheckKeeps, Zenon
<1> HIDE DEF last, gone
<1>9. Moves(s, last)
  BY <1>5, <1>6, <1>7, <1>8 DEF Moves, Control, SameControl, CongState
<1>10. Moves(s, x) /\ Moves(s, gone)
  BY <1>2, <1>3, SameMoves
<1> QED BY <1>1, <1>9, <1>10

\* Every step of the socket.
LEMMA SenderMoves ==
    ASSUME Control(snd), [Next]_vars
    PROVE  Moves(snd, snd')
<1> DEFINE cleared(h) == [h EXCEPT !.out = << >>]
<1>0. Moves(snd, snd)
  BY DEF Moves
<1>1. ASSUME NEW h, Moves(snd, h), Dispatch(h) PROVE Moves(snd, snd')
  <2>1. snd' = [h EXCEPT !.out = << >>]
    BY <1>1 DEF Dispatch
  <2>2. SameControl(h, snd')
    BY <1>1, <2>1 DEF Moves, Control, SameControl, SocketField
  <2> QED BY <1>1, <2>2, MovesThenSame
<1>2. ASSUME NEW n \in Writes, Send(n) PROVE Moves(snd, snd')
  <2> DEFINE s == [snd EXCEPT !.buf = Add(@, n)]
  <2>1. snd' = [s EXCEPT !.sendPending = @ \/ AvailableWindow(s) > 0]
    BY <1>2, Zenon DEF Send
  <2>2. SameControl(snd, s)
    BY DEF Control, SameControl, SocketField
  <2> HIDE DEF s
  <2>3. SameControl(snd, snd')
    BY <2>1, <2>2 DEF SameControl, SocketField
  <2> QED BY <2>3, SameMoves
<1>3. ASSUME SendPendingDataEvent PROVE Moves(snd, snd')
  <2> DEFINE p == SendPendingData(snd)
             h == [p EXCEPT !.sendPending = FALSE]
  <2>1. Dispatch(h)
    BY <1>3 DEF SendPendingDataEvent
  <2>2. SameControl(snd, p)
    BY SendPendingDataKeeps DEF Control
  <2> HIDE DEF p
  <2>3. SameControl(snd, h)
    BY <2>2 DEF SameControl, SocketField
  <2> HIDE DEF h
  <2>4. Moves(snd, h)
    BY <2>3, SameMoves
  <2> QED BY <1>1, <2>1, <2>4
<1>4. ASSUME NEW m, NEW w, ReceiveAck(m, w) PROVE Moves(snd, snd')
  BY <1>1, <1>4, DoForwardUpControl DEF ReceiveAck
<1>5. ASSUME ReTxTimeout PROVE Moves(snd, snd')
  BY <1>1, <1>5, ReTxTimeoutControl DEF ReTxTimeout
<1>6. ASSUME NEW p, ReceiverAcks(p) \/ LoseSegment(p) \/ LoseAck(p) PROVE Moves(snd, snd')
  BY <1>0, <1>6 DEF ReceiverAcks, LoseSegment, LoseAck
<1>7. CASE UNCHANGED vars
  BY <1>0, <1>7 DEF vars
<1> QED BY <1>2, <1>3, <1>4, <1>5, <1>6, <1>7 DEF Next

(***************************************************************************)
(* The scoreboard of the socket: what its operations keep together.        *)
(***************************************************************************)
Board(b) ==
    /\ Sound(b) /\ Exclusive(b) /\ Short(b) /\ Live(b)
    /\ b.first \notin With(b, "sacked")

SackedBytes(b) == Covered(b, With(b, "sacked"))
LostBytes(b) == Covered(b, With(b, "lost"))

\* An item of a sound buffer, with its numbers.
LEMMA ItemNumbers ==
    ASSUME NEW b, Shape(b), NEW s \in DOMAIN b.sent
    PROVE  /\ s \in Int /\ 1 <= s /\ b.first <= s /\ s <= StreamLen
           /\ b.sent[s].len \in Int /\ 1 <= b.sent[s].len
           /\ EndOf(b, s) = s + b.sent[s].len /\ EndOf(b, s) <= SentEnd(b)
           /\ b.sent[s].sacked \in BOOLEAN /\ b.sent[s].lost \in BOOLEAN
           /\ b.sent[s].retrans \in BOOLEAN
BY TxStreamAssumption DEF Shape, Numbers, ItemsInPlace, Item, Byte, EndOf, SentEnd

LEMMA BufferNumbers ==
    ASSUME NEW b, Shape(b)
    PROVE  /\ b.first \in Nat /\ b.sentSize \in Nat /\ b.size \in Nat /\ 1 <= b.first
           /\ b.sentSize <= b.size /\ SentEnd(b) \in Nat /\ SentEnd(b) = b.first + b.sentSize
           /\ TailSequence(b) = b.first + b.size /\ b.first + b.size <= StreamLen + 1
           /\ b.highest \in Nat
BY TxStreamAssumption DEF Shape, Numbers, SentEnd, TailSequence

\* The segment at seq, of at most n bytes, is sent again or for the first time.
Resends(b, seq) == seq \in DOMAIN b.sent /\ ~ b.sent[seq].sacked

Extends(b, seq) == seq = SentEnd(b) /\ b.sentSize < b.size

LEMMA ResendBoard ==
    ASSUME NEW b, Board(b), NEW seq, Resends(b, seq), NEW n \in Nat, 1 <= n, n <= SegmentSize
    PROVE  LET c == CopyFromSequence(b, n, seq)
           IN  /\ Board(c) /\ c.first = b.first /\ SentEnd(c) = SentEnd(b)
               /\ seq \in DOMAIN c.sent /\ ~ c.sent[seq].sacked /\ c.sent[seq].retrans
               /\ SackedBytes(c) = SackedBytes(b) /\ LostBytes(c) = LostBytes(b)
               /\ With(c, "sacked") = With(b, "sacked")
               /\ With(b, "lost") = {seq} /\ b.sent[seq].len <= n => With(c, "lost") = With(b, "lost")
               /\ BytesInFlight(c) <= BytesInFlight(b) + n
<1> DEFINE c == CopyFromSequence(b, n, seq)
<1>0. Sound(b) /\ Exclusive(b) /\ Short(b) /\ Live(b) /\ b.first \notin With(b, "sacked")
  BY DEF Board
<1>1. /\ Sound(c) /\ SameNumbers(b, c)
      /\ seq \in DOMAIN c.sent /\ c.sent[seq].retrans /\ ~ c.sent[seq].sacked
      /\ c.sent[seq].len <= n
      /\ SameSacks(b, c)
      /\ Exclusive(b) => Exclusive(c)
      /\ Short(b) /\ n <= SegmentSize => Short(c)
      /\ With(b, "lost") = {seq} /\ b.sent[seq].len <= n
            => With(c, "lost") = With(b, "lost")
      /\ SameLost(b, c) /\ Resent(b, c, seq)
  BY <1>0, CopySentSound DEF Resends
<1> HIDE DEF c
<1>2. c.first = b.first /\ SentEnd(c) = SentEnd(b) /\ c.highest = b.highest
  BY <1>1 DEF SameNumbers, SentEnd
<1>3. With(c, "sacked") = With(b, "sacked")
  BY <1>1 DEF SameSacks
<1>4. SackedBytes(c) = SackedBytes(b)
  BY <1>1, SameSacksCovered DEF SackedBytes
<1>5. LostBytes(c) = LostBytes(b)
  BY <1>1 DEF SameLost, LostBytes
<1>6. Board(c)
  BY <1>0, <1>1, <1>2, <1>3 DEF Board, Live
<1>7. BytesInFlight(c) <= BytesInFlight(b) + n
  <2>1. BytesInFlight(c) <= BytesInFlight(b) + c.sent[seq].len
    BY <1>0, <1>1, ResentInFlight
  <2>2. BytesInFlight(c) \in Nat /\ BytesInFlight(b) \in Nat /\ c.sent[seq].len \in Int
    BY <1>0, <1>1, LeftOut, ItemNumbers DEF Sound
  <2> QED BY <1>1, <2>1, <2>2
<1> QED BY <1>1, <1>2, <1>3, <1>4, <1>5, <1>6, <1>7 DEF c

LEMMA ExtendBoard ==
    ASSUME NEW b, Board(b), NEW seq, Extends(b, seq), NEW n \in Nat, 1 <= n, n <= SegmentSize
    PROVE  LET c == CopyFromSequence(b, n, seq)
           IN  /\ Board(c) /\ c.first = b.first /\ SentEnd(b) < SentEnd(c)
               /\ SentEnd(c) <= SentEnd(b) + n
               /\ seq \in DOMAIN c.sent /\ ~ c.sent[seq].sacked /\ SentEnd(c) = EndOf(c, seq)
               /\ SackedBytes(c) = SackedBytes(b) /\ LostBytes(c) = LostBytes(b)
               /\ With(c, "sacked") = With(b, "sacked") /\ With(c, "lost") = With(b, "lost")
               /\ BytesInFlight(c) <= BytesInFlight(b) + n
<1> DEFINE c == CopyFromSequence(b, n, seq)
<1>0. /\ Sound(b) /\ Exclusive(b) /\ Short(b) /\ Live(b) /\ b.first \notin With(b, "sacked")
      /\ seq = SentEnd(b) /\ b.size > b.sentSize
  BY BufferNumbers DEF Board, Extends, Sound
<1>1. /\ Sound(c)
      /\ c.first = b.first /\ c.size = b.size /\ c.highest = b.highest
      /\ DOMAIN c.sent = DOMAIN b.sent \cup {seq} /\ seq \notin DOMAIN b.sent
      /\ \A k \in DOMAIN b.sent : c.sent[k] = b.sent[k]
      /\ c.sent[seq].len <= n /\ ~ c.sent[seq].sacked
      /\ SentEnd(c) = seq + c.sent[seq].len
      /\ SameSacks(b, c) /\ With(c, "lost") = With(b, "lost")
      /\ With(c, "retrans") = With(b, "retrans")
  BY <1>0, CopyNewSound
<1> HIDE DEF c
<1>2. c.sent[seq].len \in Nat /\ 1 <= c.sent[seq].len /\ SentEnd(b) < SentEnd(c)
  BY <1>0, <1>1, ItemNumbers, BufferNumbers DEF Sound
<1>3. With(c, "sacked") = With(b, "sacked")
  BY <1>1 DEF SameSacks
<1>4. SackedBytes(c) = SackedBytes(b)
  BY <1>1, SameSacksCovered DEF SackedBytes
<1>5. LostBytes(c) = LostBytes(b)
  <2>1. \A k \in With(b, "lost") : c.sent[k] = b.sent[k]
    BY <1>1 DEF With
  <2> QED BY <1>1, <2>1 DEF LostBytes, Covered, EndOf
<1>6. Board(c)
  <2>1. Short(c)
    <3> SUFFICES ASSUME NEW k \in DOMAIN c.sent PROVE c.sent[k].len <= SegmentSize
      BY DEF Short
    <3>1. CASE k = seq
      BY <1>1, <1>2, <3>1, TxSegmentAssumption
    <3>2. CASE k \in DOMAIN b.sent
      BY <1>0, <1>1, <3>2 DEF Short
    <3> QED BY <1>1, <3>1, <3>2
  <2>2. Exclusive(c) /\ Live(c) /\ c.first \notin With(c, "sacked")
    BY <1>0, <1>1, <1>3 DEF Exclusive, Live
  <2> QED BY <1>1, <2>1, <2>2 DEF Board
<1>7. BytesInFlight(c) <= BytesInFlight(b) + n
  <2>1. c.sentSize = b.sentSize + c.sent[seq].len
    BY <1>0, <1>1, <1>2, BufferNumbers DEF Sound
  <2>2. \A f \in Flag : With(c, f) = With(b, f)
    BY <1>1, <1>3 DEF Flag
  <2>3. BytesInFlight(c) = BytesInFlight(b) + c.sent[seq].len
    BY <1>0, <1>1, <1>2, <2>1, <2>2, NewInFlight
  <2>4. BytesInFlight(b) \in Nat
    BY <1>0, LeftOut
  <2> QED BY <1>1, <1>2, <2>3, <2>4
<1>8. SentEnd(c) = EndOf(c, seq) /\ seq \in DOMAIN c.sent /\ SentEnd(c) <= SentEnd(b) + n
  <2>1. SentEnd(b) \in Int
    BY <1>0, BufferNumbers DEF Sound
  <2> QED BY <1>0, <1>1, <1>2, <2>1 DEF EndOf
<1> QED BY <1>1, <1>2, <1>3, <1>4, <1>5, <1>6, <1>7, <1>8 DEF c

(***************************************************************************)
(* The invariant of the socket while a handler runs.                       *)
(***************************************************************************)
Typed(s) ==
    /\ DOMAIN s = SocketField
    /\ s.sack \in SackModes /\ s.congState \in CongState /\ s.cWnd \in Windows
    /\ s.nextTx \in 1 .. s.highTx
    /\ s.notProcessed \in 0 .. (SegmentSize - 1) /\ s.retrCount \in 0 .. DataRetries
    /\ s.recoverActive \in BOOLEAN /\ s.isFirstPartialAck \in BOOLEAN /\ s.retx \in BOOLEAN
    /\ s.sendPending \in BOOLEAN /\ s.aborted \in BOOLEAN
    /\ s.dupAckCount \in Nat /\ s.recover \in Nat
    /\ s.failed \in SUBSET AssertName

\* Without SACK the marks are guesses.  After a timeout nothing is taken for
\* received, and what is lost was sent before it; otherwise only the head is lost.
Guess(s) ==
    ~ s.sack =>
        IF s.congState = "CA_LOSS"
        THEN With(s.buf, "sacked") = {} /\ \A x \in LostBytes(s.buf) : x < s.recover
        ELSE With(s.buf, "lost") \subseteq {s.buf.first}

Segment == [seq : Int, len : Int]

\* The segments of the current handler are part of what was sent.
Leaving(s) ==
    /\ s.out \in Seq(Segment)
    /\ \A i \in 1 .. Len(s.out) : 1 <= s.out[i].seq /\ s.out[i].seq + s.out[i].len <= s.highTx

Half(s) ==
    /\ Typed(s) /\ Board(s.buf) /\ Guess(s) /\ Leaving(s)
    /\ s.highTx = SentEnd(s.buf) /\ s.recover <= s.highTx
    /\ s.highRxAck \in Nat /\ s.rWnd \in Nat /\ s.persist \in BOOLEAN

\* No ACK beyond m_highRxAckMark has been applied to the buffer.
SockOK(s) == Half(s) /\ s.buf.first <= s.highRxAck

\* While data is outstanding the timer runs.
Timed(s) == s.buf.sentSize > 0 /\ ~ s.aborted => s.retx

\* From s to t no assertion fails, if the first duplicate ACKs may send data or
\* segments are acknowledged selectively.
Quiet(s, t) == (s.sack \/ LimitedTransmit) /\ s.failed = {} => t.failed = {}

\* With nothing outstanding, the next byte to send is the first not yet sent.
Ready(s) == s.buf.sentSize = 0 => s.nextTx = s.highTx

\* What is sent from s to t for the first time fits in the window.
Within(s, t) == t.highTx <= s.highTx \/ t.highTx <= s.buf.first + s.rWnd

\* What every part of a handler does to the socket.
Works(s, t) ==
    /\ t.sack = s.sack /\ t.aborted = s.aborted
    /\ t.highRxAck = s.highRxAck /\ t.rWnd = s.rWnd /\ t.persist = s.persist
    /\ Within(s, t) /\ (Ready(s) => Ready(t))
    /\ t.buf.first = s.buf.first /\ s.highTx <= t.highTx
    /\ s.sack => SackedBytes(t.buf) \subseteq SackedBytes(s.buf)
    /\ Quiet(s, t)
    /\ Timed(s) => Timed(t)

\* What a part of a handler that sends does.
Sends(s, t) ==
    /\ SockOK(t) /\ Works(s, t) /\ SameControl(s, t)
    /\ t.cWnd = s.cWnd /\ (s.retx => t.retx)
    /\ BytesInFlight(s.buf) <= s.cWnd => BytesInFlight(t.buf) <= t.cWnd

LEMMA SendsNothing ==
    ASSUME NEW s, SockOK(s)
    PROVE  Sends(s, s)
<1>1. DOMAIN s = SocketField
  BY DEF SockOK, Half, Typed
<1>2. s.highTx <= s.highTx
  BY BufferNumbers DEF SockOK, Half, Board, Sound
<1> QED BY <1>1, <1>2 DEF Sends, Works, SameControl, Quiet, Within

LEMMA WorksTwice ==
    ASSUME NEW s, NEW t, NEW u, Half(s), Half(t), Half(u), Works(s, t), Works(t, u)
    PROVE  Works(s, u)
<1>1. s.highTx \in Int /\ t.highTx \in Int /\ u.highTx \in Int
  BY BufferNumbers DEF Half, Board, Sound
<1>2. s.highTx <= u.highTx
  BY <1>1 DEF Works
<1>3. Within(s, u)
  <2>1. s.buf.first + s.rWnd \in Int
    BY BufferNumbers DEF Half, Board, Sound
  <2>2. t.buf.first + t.rWnd = s.buf.first + s.rWnd
    BY DEF Works
  <2> DEFINE e == s.buf.first + s.rWnd
  <2>3. /\ t.highTx <= s.highTx \/ t.highTx <= e
        /\ u.highTx <= t.highTx \/ u.highTx <= e
    BY <2>2 DEF Works, Within
  <2> HIDE DEF e
  <2>4. e \in Int
    BY <2>1 DEF e
  <2>5. u.highTx <= s.highTx \/ u.highTx <= e
    BY <1>1, <2>3, <2>4
  <2> QED BY <2>5 DEF Within, e
<1> QED BY <1>2, <1>3 DEF Works, Quiet

LEMMA SendsTwice ==
    ASSUME NEW s, NEW t, NEW u, SockOK(s), Sends(s, t), Sends(t, u)
    PROVE  Sends(s, u)
<1>1. Works(s, u)
  BY WorksTwice DEF Sends, SockOK
<1> QED BY <1>1 DEF Sends, SameControl

\* t is s but for the fields F.
SameBut(s, t, F) == DOMAIN t = SocketField /\ \A f \in SocketField \ F : t[f] = s[f]

LEMMA CheckSame ==
    ASSUME NEW s, NEW n, NEW c, DOMAIN s = SocketField
    PROVE  /\ SameBut(s, Check(s, n, c), {"failed"})
           /\ c => Check(s, n, c) = s
           /\ s.failed \in SUBSET AssertName /\ n \in AssertName => Check(s, n, c).failed \in SUBSET AssertName
BY DEF Check, SameBut, SocketField

\* An NS_ASSERT whose condition holds when no other has failed.
LEMMA CheckWorks ==
    ASSUME NEW s, NEW n \in AssertName, NEW c, Half(s), (s.sack \/ LimitedTransmit) /\ s.failed = {} => c
    PROVE  /\ Half(Check(s, n, c)) /\ Works(s, Check(s, n, c))
           /\ SameBut(s, Check(s, n, c), {"failed"})
           /\ SockOK(s) => Sends(s, Check(s, n, c))
<1> DEFINE t == Check(s, n, c)
<1>0. DOMAIN s = SocketField /\ s.failed \in SUBSET AssertName
  BY DEF Half, Typed
<1>1. /\ SameBut(s, t, {"failed"})
      /\ c => t = s
      /\ t.failed \in SUBSET AssertName
  BY <1>0, CheckSame
<1> HIDE DEF t
<1>2. /\ DOMAIN t = SocketField
      /\ t.sack = s.sack /\ t.buf = s.buf /\ t.congState = s.congState /\ t.cWnd = s.cWnd
      /\ t.highTx = s.highTx /\ t.nextTx = s.nextTx /\ t.highRxAck = s.highRxAck /\ t.rWnd = s.rWnd
      /\ t.dupAckCount = s.dupAckCount /\ t.recover = s.recover /\ t.recoverActive = s.recoverActive
      /\ t.isFirstPartialAck = s.isFirstPartialAck /\ t.notProcessed = s.notProcessed
      /\ t.retrCount = s.retrCount /\ t.retx = s.retx /\ t.persist = s.persist
      /\ t.sendPending = s.sendPending /\ t.aborted = s.aborted /\ t.out = s.out
  BY <1>1 DEF SameBut, SocketField
<1>3. Typed(t)
  BY <1>1, <1>2 DEF Half, Typed
<1>4. Half(t)
  BY <1>2, <1>3 DEF Half, Guess, Leaving
<1>5. s.highTx <= s.highTx
  BY BufferNumbers DEF Half, Board, Sound
<1>6. Works(s, t)
  BY <1>1, <1>2, <1>5 DEF Works, Quiet, Timed, Within, Ready
<1>7. SockOK(s) => Sends(s, t)
  BY <1>2, <1>4, <1>6 DEF SockOK, Sends, SameControl
<1> QED BY <1>1, <1>4, <1>6, <1>7 DEF t

(***************************************************************************)
(* Sending.                                                                *)
(***************************************************************************)
\* A segment that may be sent: one of the list, whole if only the head is lost,
\* or new data within the window.
MaySend(s, seq, n) ==
    \/ /\ Resends(s.buf, seq)
       /\ ~ s.sack /\ s.congState # "CA_LOSS"
             => With(s.buf, "lost") = {seq} /\ s.buf.sent[seq].len <= n
    \/ Extends(s.buf, seq) /\ n + s.buf.sentSize <= s.rWnd

\* What CopyFromSequence leaves to SendDataPacket.
Copied(s, b, seq, n) ==
    /\ Board(b) /\ b.first = s.buf.first /\ s.highTx <= SentEnd(b)
    /\ seq \in DOMAIN b.sent /\ ~ b.sent[seq].sacked
    /\ Max({s.highTx, seq + b.sent[seq].len}) = SentEnd(b)
    /\ b.sent[seq].retrans \/ s.buf.first + s.rWnd >= seq + n
    /\ SentEnd(b) <= s.highTx \/ SentEnd(b) <= s.buf.first + s.rWnd
    /\ SackedBytes(b) = SackedBytes(s.buf)
    /\ BytesInFlight(b) <= BytesInFlight(s.buf) + n
    /\ \A t : t.sack = s.sack /\ t.congState = s.congState /\ t.recover = s.recover /\ t.buf = b
                 => Guess(t)

LEMMA CopyForSend ==
    ASSUME NEW s, SockOK(s), NEW seq, NEW n \in Nat, 1 <= n, n <= SegmentSize, MaySend(s, seq, n)
    PROVE  Copied(s, CopyFromSequence(s.buf, n, seq), seq, n)
<1> DEFINE b == CopyFromSequence(s.buf, n, seq)
<1>0. Board(s.buf) /\ s.highTx = SentEnd(s.buf) /\ s.highTx \in Int
  BY BufferNumbers DEF SockOK, Half, Board, Sound
<1>1. CASE Resends(s.buf, seq) /\ (~ s.sack /\ s.congState # "CA_LOSS"
             => With(s.buf, "lost") = {seq} /\ s.buf.sent[seq].len <= n)
  <2>1. /\ Board(b) /\ b.first = s.buf.first /\ SentEnd(b) = SentEnd(s.buf)
        /\ seq \in DOMAIN b.sent /\ ~ b.sent[seq].sacked /\ b.sent[seq].retrans
        /\ SackedBytes(b) = SackedBytes(s.buf) /\ LostBytes(b) = LostBytes(s.buf)
        /\ With(b, "sacked") = With(s.buf, "sacked")
        /\ With(s.buf, "lost") = {seq} /\ s.buf.sent[seq].len <= n
              => With(b, "lost") = With(s.buf, "lost")
        /\ BytesInFlight(b) <= BytesInFlight(s.buf) + n
    BY <1>0, <1>1, ResendBoard
  <2> HIDE DEF b
  <2>2. Max({s.highTx, seq + b.sent[seq].len}) = SentEnd(b)
    <3>1. seq + b.sent[seq].len \in Int /\ seq + b.sent[seq].len <= SentEnd(b)
      BY <2>1, ItemNumbers DEF Board, Sound
    <3> QED BY <1>0, <2>1, <3>1, MaxOfTwo
  <2>3. ASSUME NEW t, t.sack = s.sack, t.congState = s.congState, t.recover = s.recover, t.buf = b
        PROVE  Guess(t)
    <3>1. Guess(s)
      BY DEF SockOK, Half
    <3>2. CASE s.congState = "CA_LOSS"
      BY <2>1, <2>3, <3>1, <3>2 DEF Guess
    <3>3. CASE s.congState # "CA_LOSS"
      BY <1>1, <2>1, <2>3, <3>1, <3>3 DEF Guess
    <3> QED BY <3>2, <3>3
  <2>4. s.highTx <= SentEnd(b) /\ SentEnd(b) <= s.highTx
    BY <1>0, <2>1
  <2>5. Copied(s, b, seq, n)
    BY <2>1, <2>2, <2>3, <2>4 DEF Copied
  <2> QED BY <2>5 DEF b
<1>2. CASE Extends(s.buf, seq) /\ n + s.buf.sentSize <= s.rWnd
  <2>1. /\ Board(b) /\ b.first = s.buf.first /\ SentEnd(s.buf) < SentEnd(b)
        /\ SentEnd(b) <= SentEnd(s.buf) + n
        /\ seq \in DOMAIN b.sent /\ ~ b.sent[seq].sacked /\ SentEnd(b) = EndOf(b, seq)
        /\ SackedBytes(b) = SackedBytes(s.buf) /\ LostBytes(b) = LostBytes(s.buf)
        /\ With(b, "sacked") = With(s.buf, "sacked") /\ With(b, "lost") = With(s.buf, "lost")
        /\ BytesInFlight(b) <= BytesInFlight(s.buf) + n
    BY <1>0, <1>2, ExtendBoard
  <2> HIDE DEF b
  <2>2. /\ Max({s.highTx, seq + b.sent[seq].len}) = SentEnd(b)
        /\ s.highTx <= SentEnd(b)
    <3>1. seq + b.sent[seq].len = SentEnd(b) /\ SentEnd(b) \in Int
      BY <2>1, BufferNumbers DEF Board, Sound, EndOf
    <3> QED BY <1>0, <2>1, <3>1, MaxOfTwo
  <2>3. ASSUME NEW t, t.sack = s.sack, t.congState = s.congState, t.recover = s.recover, t.buf = b
        PROVE  Guess(t)
    <3>1. Guess(s)
      BY DEF SockOK, Half
    <3> QED BY <2>1, <2>3, <3>1 DEF Guess
  <2>4. s.buf.first + s.rWnd >= seq + n /\ SentEnd(b) <= s.buf.first + s.rWnd
    <3>1. s.rWnd \in Int
      BY DEF SockOK, Half
    <3>2. /\ s.buf.first \in Int /\ s.buf.sentSize \in Int
          /\ SentEnd(s.buf) = s.buf.first + s.buf.sentSize /\ SentEnd(b) \in Int
      BY <1>0, <2>1, BufferNumbers DEF Board, Sound
    <3>3. seq = SentEnd(s.buf) /\ n + s.buf.sentSize <= s.rWnd
      BY <1>2 DEF Extends
    <3> QED BY <2>1, <3>1, <3>2, <3>3
  <2>5. Copied(s, b, seq, n)
    BY <2>1, <2>2, <2>3, <2>4 DEF Copied
  <2> QED BY <2>5 DEF b
<1> QED BY <1>1, <1>2 DEF MaySend

LEMMA SendDataPacketSends ==
    ASSUME NEW s, SockOK(s), NEW seq, NEW n \in Nat, 1 <= n, n <= SegmentSize, MaySend(s, seq, n)
    PROVE  LET t == SendDataPacket(s, seq, n)
           IN  /\ SockOK(t) /\ Works(s, t) /\ SameControl(s, t)
               /\ t.cWnd = s.cWnd /\ t.retx = TRUE /\ seq \in DOMAIN t.buf.sent
               /\ BytesInFlight(t.buf) <= BytesInFlight(s.buf) + n
<1> DEFINE b == CopyFromSequence(s.buf, n, seq)
           piece == [seq |-> seq, len |-> b.sent[seq].len]
           sent == [s EXCEPT !.buf = b,
                          !.retx = TRUE,
                          !.highTx = Max({@, seq + b.sent[seq].len}),
                          !.out = Append(@, [seq |-> seq, len |-> b.sent[seq].len])]
           c1 == Check(sent, "sacked segment resent", ~ b.sent[seq].sacked)
           c2 == Check(c1, "outside the window",
                   b.sent[seq].retrans \/ s.highRxAck + s.rWnd >= seq + n)
           c3 == Check(s, "nothing to send", FALSE)
<1>1. SendDataPacket(s, seq, n) = IF seq \notin DOMAIN b.sent THEN c3 ELSE c2
  BY Zenon DEF SendDataPacket
<1>2. Copied(s, b, seq, n)
  BY CopyForSend
<1>3. DOMAIN s = SocketField
  BY DEF SockOK, Half, Typed
<1> HIDE DEF b
<1>4. /\ DOMAIN sent = SocketField
      /\ sent.sack = s.sack /\ sent.buf = b /\ sent.congState = s.congState /\ sent.cWnd = s.cWnd
      /\ sent.highTx = SentEnd(b) /\ sent.nextTx = s.nextTx /\ sent.highRxAck = s.highRxAck
      /\ sent.rWnd = s.rWnd
      /\ sent.dupAckCount = s.dupAckCount /\ sent.recover = s.recover
      /\ sent.recoverActive = s.recoverActive
      /\ sent.isFirstPartialAck = s.isFirstPartialAck /\ sent.notProcessed = s.notProcessed
      /\ sent.retrCount = s.retrCount /\ sent.retx = TRUE /\ sent.persist = s.persist
      /\ sent.sendPending = s.sendPending /\ sent.aborted = s.aborted
      /\ sent.out = Append(s.out, piece)
      /\ sent.failed = s.failed
  BY <1>2, <1>3 DEF SocketField, Copied
<1> HIDE DEF sent
<1>5. Leaving(sent)
  <2>0. seq \in DOMAIN b.sent /\ Shape(b) /\ s.highTx <= SentEnd(b)
    BY <1>2 DEF Copied, Board, Sound
  <2>1. piece \in Segment /\ 1 <= piece.seq /\ piece.seq + piece.len <= SentEnd(b)
    BY <2>0, ItemNumbers DEF Segment
  <2>2. SentEnd(b) \in Int /\ s.highTx \in Int
    BY <2>0, BufferNumbers DEF SockOK, Half, Board, Sound
  <2> DEFINE R == Segment
             t == sent.out
  <2>3. s.out \in Seq(R) /\ \A i \in 1 .. Len(s.out) :
            s.out[i].seq \in Int /\ s.out[i].len \in Int
            /\ 1 <= s.out[i].seq /\ s.out[i].seq + s.out[i].len <= s.highTx
    <3>1. s.out \in Seq(R)
      BY DEF SockOK, Half, Leaving
    <3> HIDE DEF R
    <3>2. \A i \in 1 .. Len(s.out) : s.out[i] \in R
      BY <3>1
    <3>3. \A r \in R : r.seq \in Int /\ r.len \in Int
      BY DEF R, Segment
    <3> QED BY <3>1, <3>2, <3>3 DEF SockOK, Half, Leaving
  <2> HIDE DEF piece, R
  <2>4. t = Append(s.out, piece) /\ piece \in R
    BY <1>4, <2>1 DEF R
  <2> HIDE DEF t
  <2>5. t \in Seq(R) /\ Len(t) = Len(s.out) + 1 /\ t[Len(t)] = piece
        /\ \A i \in 1 .. Len(s.out) : t[i] = s.out[i]
    BY <2>3, <2>4
  <2>6. \A i \in 1 .. Len(t) : 1 <= t[i].seq /\ t[i].seq + t[i].len <= SentEnd(b)
    <3> SUFFICES ASSUME NEW i \in 1 .. Len(t) PROVE 1 <= t[i].seq /\ t[i].seq + t[i].len <= SentEnd(b)
      OBVIOUS
    <3>1. Len(s.out) \in Nat
      BY <2>3
    <3>2. CASE i = Len(t)
      BY <2>1, <2>5, <3>2
    <3>3. CASE i \in 1 .. Len(s.out)
      <4>1. t[i] = s.out[i] /\ s.out[i].seq \in Int /\ s.out[i].len \in Int
            /\ 1 <= s.out[i].seq /\ s.out[i].seq + s.out[i].len <= s.highTx
        BY <2>3, <2>5, <3>3
      <4> QED BY <2>0, <2>2, <4>1
    <3>4. i = Len(t) \/ i \in 1 .. Len(s.out)
      BY <2>5, <3>1
    <3> QED BY <3>2, <3>3, <3>4
  <2> QED BY <1>4, <2>5, <2>6 DEF Leaving, t, R
<1>6. Half(sent)
  <2>1. Typed(sent)
    <3>1. s.nextTx \in 1 .. SentEnd(b)
      <4>1. s.nextTx \in 1 .. s.highTx /\ s.highTx <= SentEnd(b)
        BY <1>2 DEF SockOK, Half, Typed, Copied
      <4>2. s.highTx \in Int /\ SentEnd(b) \in Int
        BY <1>2, BufferNumbers DEF SockOK, Half, Board, Sound, Copied
      <4> QED BY <4>1, <4>2
    <3> QED BY <1>4, <3>1 DEF SockOK, Half, Typed
  <2>2. Guess(sent) /\ Board(b)
    BY <1>2, <1>4 DEF Copied
  <2>3. s.recover <= SentEnd(b)
    <3>1. s.recover \in Int /\ s.highTx \in Int /\ SentEnd(b) \in Int /\ s.recover <= s.highTx
      BY <2>2, BufferNumbers DEF SockOK, Half, Board, Sound, Typed
    <3> QED BY <1>2, <3>1 DEF Copied
  <2> QED BY <1>4, <1>5, <2>1, <2>2, <2>3 DEF SockOK, Half
<1>7. SockOK(sent)
  BY <1>2, <1>4, <1>6 DEF SockOK, Copied
<1>8. Works(s, sent)
  <2>1. Within(s, sent)
    BY <1>2, <1>4 DEF Copied, Within
  <2>2. Ready(sent)
    <3>1. seq \in DOMAIN b.sent /\ Shape(b)
      BY <1>2 DEF Copied, Board, Sound
    <3>2. b.sentSize # 0
      BY <3>1, ItemNumbers, BufferNumbers
    <3> QED BY <1>4, <3>2 DEF Ready
  <2> QED BY <1>2, <1>4, <2>1, <2>2 DEF Works, Copied, Quiet, Timed
<1>9. SockOK(c1) /\ Works(sent, c1) /\ SameBut(sent, c1, {"failed"})
  <2>1. ~ b.sent[seq].sacked
    BY <1>2 DEF Copied
  <2>2. "sacked segment resent" \in AssertName
    BY DEF AssertName
  <2>3. Works(sent, c1) /\ SameBut(sent, c1, {"failed"}) /\ (SockOK(sent) => Sends(sent, c1))
    BY <1>6, <2>1, <2>2, CheckWorks, Zenon
  <2> QED BY <1>7, <2>3 DEF Sends
<1> HIDE DEF c1
<1>10. SockOK(c2) /\ Works(c1, c2) /\ SameBut(c1, c2, {"failed"})
  <2>1. b.sent[seq].retrans \/ s.highRxAck + s.rWnd >= seq + n
    <3>1. /\ s.highRxAck \in Int /\ s.rWnd \in Int /\ s.buf.first \in Int
          /\ s.buf.first <= s.highRxAck /\ seq \in Int
      <4>1. seq \in DOMAIN b.sent /\ Shape(b)
        BY <1>2 DEF Copied, Board, Sound
      <4> QED BY <4>1, ItemNumbers, BufferNumbers DEF SockOK, Half, Board, Sound
    <3>2. b.sent[seq].retrans \/ s.buf.first + s.rWnd >= seq + n
      BY <1>2 DEF Copied
    <3> QED BY <3>1, <3>2
  <2>2. "outside the window" \in AssertName /\ Half(c1)
    BY <1>9 DEF SockOK, AssertName
  <2>3. Works(c1, c2) /\ SameBut(c1, c2, {"failed"}) /\ (SockOK(c1) => Sends(c1, c2))
    BY <2>1, <2>2, CheckWorks, Zenon
  <2> QED BY <1>9, <2>3 DEF Sends
<1> HIDE DEF c2
<1>11. SendDataPacket(s, seq, n) = c2
  BY <1>1, <1>2 DEF Copied
<1>12. Works(s, c2)
  BY <1>6, <1>7, <1>8, <1>9, <1>10, WorksTwice DEF SockOK
<1>13. SameControl(s, c2)
  BY <1>3, <1>11, SendDataPacketKeeps
<1>14. c2.cWnd = s.cWnd /\ c2.retx = TRUE /\ c2.buf = b
  BY <1>4, <1>9, <1>10 DEF SameBut, SocketField
<1>15. seq \in DOMAIN b.sent /\ BytesInFlight(b) <= BytesInFlight(s.buf) + n
  BY <1>2 DEF Copied
<1> QED BY <1>10, <1>11, <1>12, <1>13, <1>14, <1>15

\* What NextSeg finds: a lost item, new data, or by rule 3 another item.
FindsItem(b, x) == Resends(b, x.seq) /\ x.seqHigh = x.seq + SegmentSize

FindsNew(b, x, rWnd) ==
    /\ Extends(b, x.seq)
    /\ x.seqHigh - x.seq \in 1 .. SegmentSize
    /\ (x.seqHigh - x.seq) + b.sentSize <= rWnd

LEMMA NextSegFinds ==
    ASSUME NEW b, Board(b), NEW isRecovery \in BOOLEAN, NEW rWnd \in Nat
    PROVE  LET x == NextSeg(b, isRecovery, rWnd)
           IN  /\ \/ x = NoSeg
                  \/ FindsItem(b, x) /\ (x.seq \in With(b, "lost") \/ isRecovery)
                  \/ FindsNew(b, x, rWnd)
               /\ With(b, "lost") \ With(b, "retrans") # {}
                     => FindsItem(b, x) /\ x.seq \in With(b, "lost")
<1> DEFINE candidates == {s \in DOMAIN b.sent : ~ b.sent[s].retrans /\ ~ b.sent[s].sacked}
           lost == {s \in candidates : b.sent[s].lost}
           unsent == SizeFromSequence(b, SentEnd(b)) > 0
           more == Min({SegmentSize, rWnd - b.sentSize})
           xl == [seq |-> Min(lost), seqHigh |-> Min(lost) + SegmentSize]
           xn == [seq     |-> SentEnd(b),
                   seqHigh |-> SentEnd(b) + Min({SegmentSize, rWnd - b.sentSize})]
           xc == [seq |-> Min(candidates), seqHigh |-> Min(candidates) + SegmentSize]
           x == NextSeg(b, isRecovery, rWnd)
<1>1. x = IF lost # {} THEN xl
          ELSE IF unsent
          THEN IF b.sentSize < rWnd THEN xn ELSE NoSeg
          ELSE IF isRecovery /\ candidates # {} THEN xc
          ELSE NoSeg
  BY Zenon DEF NextSeg
<1> HIDE DEF x
<1>2. Shape(b) /\ Exclusive(b)
  BY DEF Board, Sound
<1>3. candidates \subseteq Nat /\ lost \subseteq Nat
  BY <1>2, ItemNumbers
<1>4. ASSUME lost # {} PROVE FindsItem(b, x) /\ x.seq \in With(b, "lost")
  <2>1. Min(lost) \in lost
    BY <1>3, <1>4, MinOfNaturals
  <2>2. x.seq = Min(lost) /\ x.seqHigh = x.seq + SegmentSize
    BY <1>1, <1>4
  <2> QED BY <2>1, <2>2 DEF FindsItem, Resends, With
<1>5. ASSUME unsent, b.sentSize < rWnd, x = xn PROVE FindsNew(b, x, rWnd)
  <2>1. b.sentSize < b.size
    <3>1. /\ b.first \in Int /\ b.sentSize \in Int /\ b.size \in Int
          /\ SentEnd(b) = b.first + b.sentSize /\ TailSequence(b) = b.first + b.size
      BY <1>2, BufferNumbers
    <3> DEFINE d == TailSequence(b) - SentEnd(b)
    <3>2. d = b.size - b.sentSize /\ d \in Int
      BY <3>1
    <3>3. SizeFromSequence(b, SentEnd(b)) = Max({0, d})
      BY DEF SizeFromSequence
    <3> HIDE DEF d
    <3> QED BY <1>5, <3>1, <3>2, <3>3, MaxOfTwo
  <2>2. more \in 1 .. SegmentSize /\ more + b.sentSize <= rWnd
    BY <1>2, <1>5, BufferNumbers, MinOfTwo, TxSegmentAssumption
  <2> HIDE DEF more
  <2>3. x.seq = SentEnd(b) /\ x.seqHigh = SentEnd(b) + more /\ SentEnd(b) \in Int /\ more \in Int
    BY <1>2, <1>5, <2>2, BufferNumbers DEF more
  <2>4. x.seqHigh - x.seq = more
    BY <2>3
  <2> QED BY <2>1, <2>2, <2>3, <2>4 DEF FindsNew, Extends
<1>6. ASSUME candidates # {}, x = xc PROVE FindsItem(b, x)
  <2>1. Min(candidates) \in candidates
    BY <1>3, <1>6, MinOfNaturals
  <2>2. x.seq = Min(candidates) /\ x.seqHigh = x.seq + SegmentSize
    BY <1>6
  <2> QED BY <2>1, <2>2 DEF FindsItem, Resends
<1>7. With(b, "lost") \ With(b, "retrans") # {} => lost # {}
  BY <1>2 DEF With, Exclusive
<1> HIDE DEF lost, candidates, unsent, xl, xn, xc
<1>8. \/ x = NoSeg
      \/ FindsItem(b, x) /\ (x.seq \in With(b, "lost") \/ isRecovery)
      \/ FindsNew(b, x, rWnd)
  BY <1>1, <1>4, <1>5, <1>6
<1> QED BY <1>4, <1>7, <1>8 DEF x

LEMMA WindowIsRoom ==
    ASSUME NEW s, SockOK(s)
    PROVE  /\ AvailableWindow(s) \in Nat /\ BytesInFlight(s.buf) \in Nat
           /\ s.cWnd \in Nat /\ s.rWnd \in Nat
           /\ AvailableWindow(s) > 0 => BytesInFlight(s.buf) + AvailableWindow(s) <= s.cWnd
           /\ BytesInFlight(s.buf) = 0 /\ SegmentSize <= s.cWnd /\ SegmentSize <= s.rWnd
                 => SegmentSize <= AvailableWindow(s)
<1>1. BytesInFlight(s.buf) \in Nat
  BY LeftOut DEF SockOK, Half, Board
<1>2. s.cWnd \in Nat /\ s.rWnd \in Nat /\ SegmentSize \in Nat
  BY TxSegmentAssumption, SenderAssumption DEF SockOK, Half, Typed
<1> DEFINE w == Min({s.rWnd, s.cWnd})
           f == BytesInFlight(s.buf)
<1>3. w = IF s.rWnd <= s.cWnd THEN s.rWnd ELSE s.cWnd
  BY <1>2, MinOfTwo
<1>4. AvailableWindow(s) = Max({0, w - f})
  BY DEF AvailableWindow
<1> HIDE DEF w, f
<1>5. w \in Nat /\ w <= s.cWnd /\ (SegmentSize <= s.cWnd /\ SegmentSize <= s.rWnd => SegmentSize <= w)
  BY <1>2, <1>3
<1>6. f \in Nat
  BY <1>1 DEF f
<1>7. AvailableWindow(s) = IF 0 <= w - f THEN w - f ELSE 0
  BY <1>4, <1>5, <1>6, MaxOfTwo
<1>8. /\ AvailableWindow(s) \in Nat
      /\ AvailableWindow(s) > 0 => f + AvailableWindow(s) <= s.cWnd
      /\ f = 0 /\ SegmentSize <= s.cWnd /\ SegmentSize <= s.rWnd => SegmentSize <= AvailableWindow(s)
  BY <1>2, <1>5, <1>6, <1>7
<1> QED BY <1>2, <1>6, <1>8 DEF f

\* One turn of the loop of SendPendingData.
LEMMA SendOneSends ==
    ASSUME NEW s, SockOK(s)
    PROVE  Sends(s, SendOne(s)) /\ (~ Held(s) => SendOne(s).retx)
<1> DEFINE next == NextOf(s)
           a == AvailableWindow(s)
           gap == next.seqHigh - next.seq
           size == Min({a, SegmentSize, gap})
           sent == SendDataPacket(s, next.seq, size)
           moved == [sent EXCEPT !.nextTx = EndOf(sent.buf, next.seq)]
           data == SizeFromSequence(s.buf, next.seq)
<1>1. SendOne(s) = IF Held(s) THEN s ELSE CheckInFlight(moved)
  BY Zenon DEF SendOne
<1>2. CASE Held(s)
  BY <1>1, <1>2, SendsNothing
<1>3. CASE ~ Held(s)
  <2>1. a # 0 /\ next # NoSeg /\ ~ SillyWindow(s, data)
    BY <1>3 DEF Held
  <2>2. /\ a \in Nat /\ BytesInFlight(s.buf) \in Nat /\ s.cWnd \in Nat /\ s.rWnd \in Nat
        /\ a > 0 => BytesInFlight(s.buf) + a <= s.cWnd
    BY WindowIsRoom
  <2>3. Board(s.buf) /\ Shape(s.buf) /\ Short(s.buf)
    BY DEF SockOK, Half, Board, Sound
  <2>4. \/ FindsItem(s.buf, next)
           /\ (next.seq \in With(s.buf, "lost") \/ (s.sack /\ s.congState = "CA_RECOVERY"))
        \/ FindsNew(s.buf, next, s.rWnd)
    <3>1. (s.sack /\ s.congState = "CA_RECOVERY") \in BOOLEAN
      OBVIOUS
    <3> QED BY <2>1, <2>2, <2>3, <3>1, NextSegFinds DEF NextOf
  <2>5. a < SegmentSize => data <= a
    <3>1. data \in Int
      <4>1. next.seq \in Int /\ TailSequence(s.buf) \in Int
        BY <2>3, <2>4, ItemNumbers, BufferNumbers DEF FindsItem, FindsNew, Resends, Extends
      <4> HIDE DEF next
      <4> QED BY <4>1, MaxOfTwo DEF SizeFromSequence
    <3> QED BY <2>1, <2>2, <3>1, TxSegmentAssumption DEF SillyWindow
  <2>6. gap \in Nat /\ 1 <= gap /\ gap <= SegmentSize
    <3>1. next.seq \in Int
      BY <2>3, <2>4, ItemNumbers, BufferNumbers DEF FindsItem, FindsNew, Resends, Extends
    <3> QED BY <2>4, <3>1, TxSegmentAssumption DEF FindsItem, FindsNew
  <2>7. size \in Nat /\ 1 <= size /\ size <= SegmentSize /\ size <= a /\ size <= gap
        /\ (size = a \/ size = SegmentSize \/ size = gap)
    <3> HIDE DEF a, gap
    <3>1. a \in Int /\ SegmentSize \in Int /\ gap \in Int
      BY <2>2, <2>6, TxSegmentAssumption
    <3>2. size \in {a, SegmentSize, gap} /\ size <= a /\ size <= SegmentSize /\ size <= gap
      BY <3>1, MinOfThree
    <3> HIDE DEF size
    <3> QED BY <2>1, <2>2, <2>6, <3>2, TxSegmentAssumption
  <2>8. MaySend(s, next.seq, size)
    <3>1. CASE FindsItem(s.buf, next)
           /\ (next.seq \in With(s.buf, "lost") \/ (s.sack /\ s.congState = "CA_RECOVERY"))
      <4>1. ASSUME ~ s.sack, s.congState # "CA_LOSS"
            PROVE  With(s.buf, "lost") = {next.seq}
        BY <3>1, <4>1 DEF SockOK, Half, Guess
      <4>2. s.buf.sent[next.seq].len <= size
        <5>1. gap = SegmentSize
          BY <2>3, <3>1, ItemNumbers, TxSegmentAssumption DEF FindsItem, Resends
        <5>2. /\ s.buf.sent[next.seq].len \in Int /\ s.buf.sent[next.seq].len <= SegmentSize
              /\ s.buf.sent[next.seq].len <= data
          <6>1. /\ next.seq \in Int /\ s.buf.sent[next.seq].len \in Int
                /\ next.seq + s.buf.sent[next.seq].len <= SentEnd(s.buf)
                /\ s.buf.sent[next.seq].len <= SegmentSize
            BY <2>3, <3>1, ItemNumbers DEF FindsItem, Resends, Short
          <6>2. SentEnd(s.buf) \in Int /\ TailSequence(s.buf) \in Int /\ SentEnd(s.buf) <= TailSequence(s.buf)
            BY <2>3, BufferNumbers
          <6> HIDE DEF next
          <6> DEFINE d == TailSequence(s.buf) - next.seq
          <6>3. data = Max({0, d}) /\ d \in Int
            BY <6>1, <6>2 DEF SizeFromSequence
          <6>4. s.buf.sent[next.seq].len <= d
            BY <6>1, <6>2
          <6> HIDE DEF data, d
          <6>5. d <= data /\ data \in Int
            BY <6>3, MaxOfTwo
          <6> QED BY <6>1, <6>3, <6>4, <6>5
        <5> HIDE DEF size, gap, data, a, next
        <5>3. data \in Int
          BY <2>3, <3>1, ItemNumbers, BufferNumbers, MaxOfTwo DEF data, SizeFromSequence, FindsItem, Resends
        <5> QED BY <2>2, <2>5, <2>7, <5>1, <5>2, <5>3, TxSegmentAssumption
      <4> QED BY <3>1, <4>1, <4>2 DEF MaySend, FindsItem
    <3>2. CASE FindsNew(s.buf, next, s.rWnd)
      <4>1. s.buf.sentSize \in Nat
        BY <2>3, BufferNumbers
      <4>2. gap + s.buf.sentSize <= s.rWnd
        BY <3>2 DEF FindsNew
      <4> HIDE DEF size, gap, next
      <4>3. size + s.buf.sentSize <= s.rWnd
        BY <2>2, <2>6, <2>7, <4>1, <4>2
      <4> QED BY <3>2, <4>3 DEF MaySend, FindsNew
    <3> QED BY <2>4, <3>1, <3>2
  <2> HIDE DEF next, size, data
  <2>9. /\ SockOK(sent) /\ Works(s, sent) /\ SameControl(s, sent)
        /\ sent.cWnd = s.cWnd /\ sent.retx = TRUE /\ next.seq \in DOMAIN sent.buf.sent
        /\ BytesInFlight(sent.buf) <= BytesInFlight(s.buf) + size
    BY <2>7, <2>8, SendDataPacketSends
  <2> HIDE DEF sent
  <2>10. EndOf(sent.buf, next.seq) \in 1 .. sent.highTx /\ sent.buf.sentSize # 0
    <3>1. Shape(sent.buf) /\ sent.highTx = SentEnd(sent.buf)
      BY <2>9 DEF SockOK, Half, Board, Sound
    <3> QED BY <2>9, <3>1, ItemNumbers, BufferNumbers
  <2>11. DOMAIN sent = SocketField
    BY <2>9 DEF SameControl
  <2>12. moved.nextTx = EndOf(sent.buf, next.seq) /\ SameBut(sent, moved, {"nextTx"})
    BY <2>11 DEF SocketField, SameBut
  <2> HIDE DEF moved
  <2>13. /\ DOMAIN moved = SocketField
        /\ moved.sack = sent.sack /\ moved.buf = sent.buf /\ moved.congState = sent.congState
        /\ moved.cWnd = sent.cWnd
        /\ moved.highTx = sent.highTx /\ moved.highRxAck = sent.highRxAck /\ moved.rWnd = sent.rWnd
        /\ moved.dupAckCount = sent.dupAckCount /\ moved.recover = sent.recover
        /\ moved.recoverActive = sent.recoverActive
        /\ moved.isFirstPartialAck = sent.isFirstPartialAck /\ moved.notProcessed = sent.notProcessed
        /\ moved.retrCount = sent.retrCount /\ moved.retx = sent.retx /\ moved.persist = sent.persist
        /\ moved.sendPending = sent.sendPending /\ moved.aborted = sent.aborted
        /\ moved.out = sent.out /\ moved.failed = sent.failed
    BY <2>12 DEF SameBut, SocketField
  <2>14. SockOK(moved)
    BY <2>9, <2>10, <2>12, <2>13 DEF SockOK, Half, Typed, Guess, Leaving
  <2>15. Works(s, moved) /\ SameControl(s, moved)
    BY <2>9, <2>10, <2>13 DEF Works, Quiet, Timed, SameControl, Within, Ready
  <2>16. BytesInFlight(moved.buf) <= moved.cWnd
    <3>1. BytesInFlight(moved.buf) \in Nat
      BY <2>14, WindowIsRoom
    <3> QED BY <2>1, <2>2, <2>7, <2>9, <2>13, <3>1
  <2>17. Sends(s, moved)
    BY <2>9, <2>13, <2>14, <2>15, <2>16 DEF Sends
  <2>18. Sends(moved, CheckInFlight(moved)) /\ SameBut(moved, CheckInFlight(moved), {"failed"})
    <3>1. moved.buf.count["sacked"] + moved.buf.count["lost"] <= moved.buf.sentSize
      BY <2>14, LeftOut DEF SockOK, Half, Board
    <3>2. "leftOut" \in AssertName /\ Half(moved)
      BY <2>14 DEF SockOK, AssertName
    <3> QED BY <2>14, <3>1, <3>2, CheckWorks DEF CheckInFlight
  <2> DEFINE last == CheckInFlight(moved)
  <2> HIDE DEF last
  <2>19. Sends(s, last) /\ last.retx = TRUE
    BY <2>9, <2>13, <2>17, <2>18, SendsTwice DEF last, SameBut, SocketField
  <2> QED BY <1>1, <1>3, <2>19 DEF last
<1> QED BY <1>2, <1>3

LEMMA CheckInFlightSends ==
    ASSUME NEW s, SockOK(s)
    PROVE  CheckInFlight(s) = s
<1>1. s.buf.count["sacked"] + s.buf.count["lost"] <= s.buf.sentSize
  BY LeftOut DEF SockOK, Half, Board
<1> QED BY <1>1 DEF CheckInFlight, Check

LEMMA SendPendingDataSends ==
    ASSUME NEW s, SockOK(s)
    PROVE  LET t == SendPendingData(s)
           IN  Sends(s, t) /\ (s.buf.size # 0 /\ ~ s.aborted /\ ~ Held(s) => t.retx)
<1> DEFINE f == TurnsOf(s)
           N == 2 * StreamLen
           done == f[N]
           S == {n \in 0 .. N : Sends(s, f[n]) /\ (n > 0 /\ ~ Held(s) => f[n].retx)}
           dis == "sent in CA_DISORDER without limited transmit"
           cond == \/ done.out = s.out \/ s.sack \/ LimitedTransmit
                   \/ s.congState # "CA_DISORDER"
           t == SendPendingData(s)
<1>0. N \in Nat
  BY TxStreamAssumption
<1>1. f[0] = s
  BY TurnsAre, CheckInFlightSends
<1>2. ASSUME NEW n \in 0 .. (N - 1), n \in S PROVE n + 1 \in S
  <2>1. n + 1 \in 1 .. N /\ (n + 1) - 1 = n /\ n + 1 \in 0 .. N /\ n \in 0 .. N
    BY <1>0
  <2>2. f[n + 1] = SendOne(f[n])
    BY <2>1, TurnsAre
  <2> HIDE DEF f, N
  <2>3. Sends(s, f[n]) /\ SockOK(f[n])
    BY <1>2 DEF Sends
  <2>4. Sends(f[n], f[n + 1]) /\ (~ Held(f[n]) => f[n + 1].retx)
    BY <2>2, <2>3, SendOneSends
  <2>5. Sends(s, f[n + 1])
    BY <2>3, <2>4, SendsTwice
  <2>6. ~ Held(s) => f[n + 1].retx
    <3>1. CASE n = 0
      BY <1>1, <2>4, <3>1
    <3>2. CASE n > 0
      BY <1>2, <2>4, <3>2 DEF Sends
    <3> QED BY <2>1, <3>1, <3>2
  <2> QED BY <2>1, <2>5, <2>6
<1> HIDE DEF f
<1>3. Sends(s, done) /\ (N > 0 /\ ~ Held(s) => done.retx)
  <2>1. 0 \in S
    BY <1>0, <1>1, SendsNothing
  <2> HIDE DEF S, N
  <2>2. N \in S
    BY <1>0, <1>2, <2>1, UpTo
  <2> QED BY <2>2 DEF S
<1>4. t = IF s.buf.size = 0 \/ s.aborted THEN s ELSE Check(done, dis, cond)
  BY SendPendingDataIs, Zenon DEF f, N, done
<1> HIDE DEF done
<1>5. Sends(done, Check(done, dis, cond)) /\ SameBut(done, Check(done, dis, cond), {"failed"})
  <2>1. dis \in AssertName /\ SockOK(done) /\ Half(done)
    BY <1>3 DEF AssertName, Sends, SockOK
  <2>2. (done.sack \/ LimitedTransmit) /\ done.failed = {} => cond
    BY <1>3 DEF Sends, Works
  <2> HIDE DEF dis, cond
  <2> QED BY <2>1, <2>2, CheckWorks, Zenon
<1>6. s.buf.size # 0 => N > 0
  BY BufferNumbers, TxStreamAssumption DEF SockOK, Half, Board, Sound
<1> HIDE DEF N, cond, dis, t
<1>7. CASE s.buf.size = 0 \/ s.aborted
  BY <1>4, <1>7, SendsNothing DEF t
<1>8. CASE ~ (s.buf.size = 0 \/ s.aborted)
  <2>1. t = Check(done, dis, cond)
    BY <1>4, <1>8
  <2>2. Sends(s, t)
    BY <1>3, <1>5, <2>1, SendsTwice
  <2>3. ~ Held(s) => t.retx
    BY <1>3, <1>5, <1>6, <1>8, <2>1 DEF Sends
  <2> QED BY <2>2, <2>3 DEF t
<1> QED BY <1>7, <1>8

\* A handler changes some fields and leaves these alone.
KeptField == {"sack", "highTx", "highRxAck", "rWnd", "persist", "aborted", "out", "failed"}
Kept(s, t) == \A f \in KeptField : t[f] = s[f]

LEMMA Altered ==
    ASSUME NEW s, NEW t, Half(s), Kept(s, t), Typed(t), Board(t.buf), Guess(t),
           t.buf.first = s.buf.first, SentEnd(t.buf) = SentEnd(s.buf), t.recover <= t.highTx,
           t.nextTx = s.nextTx \/ t.buf.first <= t.nextTx,
           s.sack => SackedBytes(t.buf) \subseteq SackedBytes(s.buf), Timed(s) => Timed(t)
    PROVE  Half(t) /\ Works(s, t) /\ (SockOK(s) => SockOK(t))
<1>1. /\ t.sack = s.sack /\ t.highTx = s.highTx /\ t.highRxAck = s.highRxAck /\ t.rWnd = s.rWnd
      /\ t.persist = s.persist /\ t.aborted = s.aborted /\ t.out = s.out /\ t.failed = s.failed
  BY DEF Kept, KeptField
<1>2. Half(t)
  BY <1>1 DEF Half, Leaving
<1>3. s.highTx <= s.highTx
  BY BufferNumbers DEF Half, Board, Sound
<1>4. Ready(s) => Ready(t)
  <2>1. /\ t.highTx = t.buf.first + t.buf.sentSize /\ s.highTx = s.buf.first + s.buf.sentSize
        /\ t.buf.first \in Int /\ t.buf.sentSize \in Int /\ s.buf.sentSize \in Int
        /\ t.highTx \in Int
    BY <1>2, BufferNumbers DEF Half, Board, Sound
  <2>2. t.nextTx \in Int /\ t.nextTx <= t.highTx
    BY <2>1 DEF Typed
  <2>3. t.buf.sentSize = s.buf.sentSize
    <3> DEFINE h == t.highTx
               f == t.buf.first
               i == t.buf.sentSize
               j == s.buf.sentSize
    <3>1. h = f + i /\ h = f + j /\ h \in Int /\ f \in Int /\ i \in Int /\ j \in Int
      BY <1>1, <2>1, Zenon
    <3> HIDE DEF h, f, i, j
    <3>2. i = j
      BY <3>1
    <3> QED BY <3>2 DEF i, j
  <2>4. t.buf.sentSize = 0 /\ t.buf.first <= t.nextTx => t.nextTx = t.highTx
    BY <2>1, <2>2
  <2> QED BY <1>1, <2>3, <2>4 DEF Ready
<1>5. Works(s, t)
  BY <1>1, <1>3, <1>4 DEF Works, Quiet, Within
<1> QED BY <1>1, <1>2, <1>5 DEF SockOK

\* The same list with other marks has the same end.
LEMMA ReflaggedSame ==
    ASSUME NEW b, NEW c, Reflagged(b, c)
    PROVE  /\ c.first = b.first /\ c.sentSize = b.sentSize /\ SentEnd(c) = SentEnd(b)
           /\ DOMAIN c.sent = DOMAIN b.sent /\ c.size = b.size
           /\ Short(b) => Short(c)
BY DEF Reflagged, SentEnd, Short

LEMMA AddRenoSackBoard ==
    ASSUME NEW b, Board(b), With(b, "lost") \subseteq {b.first}
    PROVE  LET c == AddRenoSack(b)
           IN  Board(c) /\ Reflagged(b, c) /\ With(c, "lost") \subseteq With(b, "lost")
<1> DEFINE c == AddRenoSack(b)
<1>0. Sound(b) /\ Exclusive(b) /\ Short(b) /\ Live(b) /\ b.first \notin With(b, "sacked")
  BY DEF Board
<1>1. /\ Sound(c) /\ Reflagged(b, c)
      /\ With(c, "lost") = With(b, "lost") /\ With(c, "retrans") = With(b, "retrans")
      /\ \/ With(c, "sacked") = With(b, "sacked") /\ c.highest = b.highest
         \/ /\ c.highest \in DOMAIN b.sent \ {b.first}
            /\ With(c, "sacked") = With(b, "sacked") \cup {c.highest}
  BY <1>0, AddRenoSackSound
<1> HIDE DEF c
<1>2. c.first = b.first /\ Short(c)
  BY <1>0, <1>1, ReflaggedSame
<1>3. Exclusive(c) /\ c.first \notin With(c, "sacked")
  BY <1>0, <1>1, <1>2 DEF Exclusive
<1>4. Live(c)
  <2>1. CASE c.highest \in DOMAIN b.sent \ {b.first} /\ With(c, "sacked") = With(b, "sacked") \cup {c.highest}
    <3>1. b.first < c.highest
      BY <1>0, <2>1, ItemNumbers, BufferNumbers DEF Sound
    <3> QED BY <1>2, <2>1, <3>1 DEF Live
  <2>2. CASE With(c, "sacked") = With(b, "sacked") /\ c.highest = b.highest
    BY <1>0, <1>2, <2>2 DEF Live
  <2> QED BY <1>1, <2>1, <2>2
<1>5. Board(c)
  BY <1>1, <1>2, <1>3, <1>4 DEF Board
<1> QED BY <1>1, <1>5 DEF c

\* An item of the list is marked lost: the head, which is never sacked.
LEMMA MarkHeadBoard ==
    ASSUME NEW b, Board(b)
    PROVE  LET c == MarkHeadAsLost(b)
           IN  /\ Board(c) /\ Reflagged(b, c) /\ SackedBytes(c) = SackedBytes(b)
               /\ With(c, "lost") = With(b, "lost") \cup (DOMAIN b.sent \cap {b.first})
               /\ With(c, "retrans") = With(b, "retrans") \ {b.first}
<1> DEFINE c == MarkHeadAsLost(b)
<1>0. Sound(b) /\ Exclusive(b) /\ Short(b) /\ Live(b) /\ b.first \notin With(b, "sacked")
  BY DEF Board
<1>1. /\ Sound(c) /\ Reflagged(b, c) /\ c.highest = b.highest
      /\ With(c, "lost") = With(b, "lost") \cup (DOMAIN b.sent \cap {b.first})
      /\ With(c, "sacked") = With(b, "sacked") \ {b.first}
      /\ With(c, "retrans") = With(b, "retrans") \ {b.first}
  BY <1>0, MarkHeadAsLostSound
<1> HIDE DEF c
<1>2. c.first = b.first /\ Short(c) /\ With(c, "sacked") = With(b, "sacked")
  BY <1>0, <1>1, ReflaggedSame
<1>3. Exclusive(c) /\ c.first \notin With(c, "sacked") /\ Live(c)
  BY <1>0, <1>1, <1>2 DEF Exclusive, Live
<1>4. SackedBytes(c) = SackedBytes(b)
  <2>1. With(b, "sacked") \in SUBSET DOMAIN b.sent
    BY DEF With
  <2> QED BY <1>1, <1>2, <2>1, ReflaggedCovered DEF SackedBytes
<1> QED BY <1>1, <1>2, <1>3, <1>4 DEF c, Board

\* The duplicate ACK of a connection without SACK.
LEMMA RenoSackWorks ==
    ASSUME NEW s, SockOK(s), ~ s.sack, s.congState # "CA_LOSS", s.buf.sentSize > 0
    PROVE  LET t == RenoSack(s)
           IN  SockOK(t) /\ Works(s, t) /\ SameBut(s, t, {"buf"}) /\ Reflagged(s.buf, t.buf)
<1> DEFINE k == IF s.sack THEN Cardinality(DOMAIN s.buf.sent) > 1 ELSE DOMAIN s.buf.sent # {}
           c == Check(s, "Reno SACK without segments", k)
           t == [s EXCEPT !.buf = AddRenoSack(@)]
<1>0. DOMAIN s = SocketField /\ Half(s) /\ Board(s.buf) /\ Guess(s) /\ Typed(s)
  BY DEF SockOK, Half, Typed
<1>1. DOMAIN s.buf.sent # {}
  BY <1>0, HeadIsFirst DEF Board, Sound
<1>2. c = s
  BY <1>1 DEF Check
<1>3. RenoSack(s) = t
  <2>1. RenoSack(s) = IF DOMAIN s.buf.sent = {} THEN c ELSE [c EXCEPT !.buf = AddRenoSack(@)]
    BY Zenon DEF RenoSack
  <2> HIDE DEF c
  <2> QED BY <1>1, <1>2, <2>1
<1>4. With(s.buf, "lost") \subseteq {s.buf.first}
  BY <1>0 DEF Guess
<1>5. SameBut(s, t, {"buf"}) /\ t.buf = AddRenoSack(s.buf)
  BY <1>0 DEF SameBut, SocketField
<1> HIDE DEF t
<1>6. Board(t.buf) /\ Reflagged(s.buf, t.buf) /\ With(t.buf, "lost") \subseteq With(s.buf, "lost")
  BY <1>0, <1>4, <1>5, AddRenoSackBoard
<1>7. Kept(s, t) /\ Typed(t) /\ t.congState = s.congState /\ t.recover = s.recover
      /\ t.sack = s.sack /\ t.highTx = s.highTx /\ t.retx = s.retx /\ t.aborted = s.aborted
      /\ t.nextTx = s.nextTx
  BY <1>0, <1>5 DEF SameBut, SocketField, Kept, KeptField, Typed
<1>8. t.buf.first = s.buf.first /\ SentEnd(t.buf) = SentEnd(s.buf) /\ t.buf.sentSize = s.buf.sentSize
  BY <1>6, ReflaggedSame
<1>9. Guess(t)
  BY <1>4, <1>6, <1>7, <1>8 DEF Guess
<1>10. t.recover <= t.highTx /\ (Timed(s) => Timed(t))
  BY <1>0, <1>7, <1>8 DEF Half, Timed
<1>11. SockOK(t) /\ Works(s, t)
  BY <1>0, <1>6, <1>7, <1>8, <1>9, <1>10, Altered
<1> QED BY <1>3, <1>5, <1>6, <1>11

\* DoRetransmit sends the head, or with SACK what NextSeg finds.
LEMMA DoRetransmitSends ==
    ASSUME NEW s, SockOK(s), s.buf.sentSize > 0,
           ~ s.sack => /\ s.congState # "CA_LOSS" /\ With(s.buf, "lost") = {s.buf.first}
                       /\ s.buf.first \notin With(s.buf, "retrans")
    PROVE  LET t == DoRetransmit(s)
           IN  SockOK(t) /\ Works(s, t) /\ SameControl(s, t) /\ t.cWnd = s.cWnd /\ t.retx = TRUE
<1> DEFINE next == NextSeg(s.buf, FALSE, s.rWnd)
           seq == IF next = NoSeg THEN s.buf.first ELSE next.seq
           n == IF next = NoSeg THEN SegmentSize ELSE next.seqHigh - next.seq
           c == Check(s, "retransmission of another than the head", s.sack \/ seq = s.buf.first)
<1>1. DoRetransmit(s) = [SendDataPacket(c, seq, n) EXCEPT !.nextTx = seq]
  BY Zenon DEF DoRetransmit
<1>2. Board(s.buf) /\ Shape(s.buf) /\ Short(s.buf) /\ s.rWnd \in Nat
  BY SenderAssumption DEF SockOK, Half, Board, Sound
<1>3. /\ \/ next = NoSeg
         \/ FindsItem(s.buf, next) /\ next.seq \in With(s.buf, "lost")
         \/ FindsNew(s.buf, next, s.rWnd)
      /\ With(s.buf, "lost") \ With(s.buf, "retrans") # {}
            => FindsItem(s.buf, next) /\ next.seq \in With(s.buf, "lost")
  BY <1>2, NextSegFinds
<1> HIDE DEF next
<1>4. s.buf.first \in DOMAIN s.buf.sent /\ Resends(s.buf, s.buf.first)
  <2>1. s.buf.first \in DOMAIN s.buf.sent /\ s.buf.first \notin With(s.buf, "sacked")
    BY <1>2, HeadIsFirst, BufferNumbers DEF Board
  <2> QED BY <2>1 DEF Resends, With
<1>5. ~ FindsItem(s.buf, NoSeg)
  BY <1>2, ItemNumbers DEF FindsItem, Resends, NoSeg
<1>6. ASSUME ~ s.sack
      PROVE  /\ seq = s.buf.first /\ n = SegmentSize /\ s.congState # "CA_LOSS"
             /\ With(s.buf, "lost") = {seq} /\ s.buf.sent[seq].len <= n
  <2>1. With(s.buf, "lost") \ With(s.buf, "retrans") # {}
    BY <1>6
  <2>2. FindsItem(s.buf, next) /\ next.seq \in With(s.buf, "lost")
    BY <1>3, <2>1
  <2>3. next # NoSeg
    BY <1>5, <2>2
  <2>4. next.seq = s.buf.first
    BY <1>6, <2>2
  <2>5. seq = s.buf.first
    BY <2>3, <2>4
  <2>6. n = SegmentSize
    BY <1>2, <2>2, <2>3, ItemNumbers, TxSegmentAssumption DEF FindsItem, Resends
  <2> QED BY <1>2, <1>4, <1>6, <2>5, <2>6 DEF Short
<1>7. n \in Nat /\ 1 <= n /\ n <= SegmentSize
  <2>1. FindsItem(s.buf, next) \/ FindsNew(s.buf, next, s.rWnd) => next.seq \in Int
    BY <1>2, ItemNumbers, BufferNumbers DEF FindsItem, FindsNew, Resends, Extends
  <2> QED BY <1>3, <2>1, TxSegmentAssumption DEF FindsItem, FindsNew
<1>8. MaySend(s, seq, n)
  <2>1. CASE ~ s.sack
    BY <1>4, <1>6, <2>1 DEF MaySend
  <2>2. CASE next = NoSeg /\ s.sack
    BY <1>4, <2>2 DEF MaySend
  <2>3. CASE FindsItem(s.buf, next) /\ s.sack
    BY <1>5, <2>3 DEF MaySend, FindsItem
  <2>4. CASE FindsNew(s.buf, next, s.rWnd) /\ next # NoSeg /\ s.sack
    BY <2>4 DEF MaySend, FindsNew
  <2> QED BY <1>3, <2>1, <2>2, <2>3, <2>4
<1>9. c = s
  BY <1>6 DEF Check
<1> HIDE DEF c, seq, n
<1> DEFINE sent == SendDataPacket(s, seq, n)
           t == [sent EXCEPT !.nextTx = seq]
<1>10. /\ SockOK(sent) /\ Works(s, sent) /\ SameControl(s, sent)
       /\ sent.cWnd = s.cWnd /\ sent.retx = TRUE /\ seq \in DOMAIN sent.buf.sent
  BY <1>7, <1>8, SendDataPacketSends
<1>11. DoRetransmit(s) = t
  BY <1>1, <1>9
<1> HIDE DEF sent
<1>12. DOMAIN sent = SocketField /\ Half(sent) /\ Typed(sent) /\ Guess(sent) /\ Board(sent.buf)
  BY <1>10 DEF SockOK, Half, Typed
<1>13. SameBut(sent, t, {"nextTx"}) /\ t.nextTx = seq
  BY <1>12 DEF SameBut, SocketField
<1> HIDE DEF t
<1>14. sent.buf.first <= seq /\ seq \in 1 .. sent.highTx
  <2>1. Shape(sent.buf) /\ sent.highTx = SentEnd(sent.buf)
    BY <1>12 DEF Board, Sound, Half
  <2> QED BY <1>10, <2>1, ItemNumbers, BufferNumbers
<1>15. /\ Kept(sent, t) /\ Typed(t) /\ t.congState = sent.congState /\ t.buf = sent.buf
       /\ t.recover = sent.recover /\ t.sack = sent.sack /\ t.highTx = sent.highTx
       /\ t.retx = sent.retx /\ t.aborted = sent.aborted /\ t.cWnd = sent.cWnd
  BY <1>12, <1>13, <1>14 DEF SameBut, SocketField, Kept, KeptField, Typed
<1>16. Guess(t) /\ t.recover <= t.highTx /\ (Timed(sent) => Timed(t))
  BY <1>12, <1>15 DEF Guess, Half, Timed
<1>17. SockOK(t) /\ Works(sent, t)
  BY <1>10, <1>12, <1>13, <1>14, <1>15, <1>16, Altered
<1>18. Works(s, t)
  BY <1>10, <1>12, <1>17, WorksTwice DEF SockOK
<1>19. SameControl(s, t)
  BY <1>11, DoRetransmitKeeps DEF SockOK, Half, Typed
<1> QED BY <1>10, <1>11, <1>15, <1>17, <1>18, <1>19

(***************************************************************************)
(* Acknowledgements.                                                       *)
(***************************************************************************)
LEMMA NewAckWorks ==
    ASSUME NEW s, SockOK(s), NEW r \in BOOLEAN
    PROVE  LET t == NewAck(s, r)
           IN  SockOK(t) /\ Works(s, t) /\ SameBut(s, t, {"retrCount", "nextTx", "retx"}) /\ Ready(t)
<1> DEFINE t == NewAck(s, r)
<1>0. Half(s) /\ Typed(s) /\ Guess(s) /\ Board(s.buf) /\ Shape(s.buf) /\ DOMAIN s = SocketField
  BY DEF SockOK, Half, Typed, Board, Sound
<1>1. /\ SameBut(s, t, {"retrCount", "nextTx", "retx"})
      /\ t.retrCount = DataRetries /\ t.nextTx = Max({s.nextTx, s.buf.first})
      /\ t.retx = IF s.buf.size = 0 THEN FALSE ELSE s.retx \/ r
  BY <1>0 DEF NewAck, SameBut, SocketField
<1> HIDE DEF t
<1>2. /\ t.sack = s.sack /\ t.buf = s.buf /\ t.congState = s.congState /\ t.cWnd = s.cWnd
      /\ t.highTx = s.highTx /\ t.dupAckCount = s.dupAckCount /\ t.recover = s.recover
      /\ t.recoverActive = s.recoverActive /\ t.isFirstPartialAck = s.isFirstPartialAck
      /\ t.notProcessed = s.notProcessed /\ t.sendPending = s.sendPending /\ t.aborted = s.aborted
      /\ t.failed = s.failed /\ DOMAIN t = SocketField
  BY <1>1 DEF SameBut, SocketField
<1>3. Kept(s, t)
  BY <1>1 DEF SameBut, SocketField, Kept, KeptField
<1>4. t.nextTx \in 1 .. t.highTx /\ t.buf.first <= t.nextTx /\ Ready(t)
  <2>1. /\ s.nextTx \in Int /\ s.nextTx \in 1 .. s.highTx /\ s.buf.first \in Int /\ s.buf.sentSize \in Int
        /\ s.buf.first \in 1 .. s.highTx /\ s.highTx \in Int /\ s.highTx = s.buf.first + s.buf.sentSize
    BY <1>0, BufferNumbers DEF Half, Typed
  <2> QED BY <1>1, <1>2, <2>1, MaxOfTwo DEF Ready
<1>5. t.retx \in BOOLEAN
  BY <1>0, <1>1 DEF Typed
<1>6. Typed(t)
  <2>1. t.retrCount \in 0 .. DataRetries
    BY <1>1, SenderAssumption
  <2> QED BY <1>0, <1>2, <1>4, <1>5, <2>1 DEF Typed
<1>7. Guess(t) /\ t.recover <= t.highTx
  BY <1>0, <1>2 DEF Guess, Half
<1>8. Timed(s) => Timed(t)
  <2>1. CASE s.buf.size = 0
    <3>1. ~ (s.buf.sentSize > 0)
      BY <1>0, <2>1, BufferNumbers
    <3> QED BY <1>2, <3>1 DEF Timed
  <2>2. CASE s.buf.size # 0
    <3>1. s.retx => t.retx
      BY <1>1, <2>2, Zenon
    <3> QED BY <1>2, <3>1 DEF Timed
  <2> QED BY <2>1, <2>2
<1>9. SockOK(t) /\ Works(s, t)
  BY <1>0, <1>2, <1>3, <1>4, <1>6, <1>7, <1>8, Altered
<1> QED BY <1>1, <1>4, <1>9 DEF t

\* The head of a list that is not empty.
LEMMA HeadResends ==
    ASSUME NEW b, Board(b), b.sentSize > 0
    PROVE  b.first \in DOMAIN b.sent /\ Resends(b, b.first) /\ b.sent[b.first].len <= SegmentSize
<1>1. b.first \in DOMAIN b.sent /\ b.first \notin With(b, "sacked")
  BY HeadIsFirst, BufferNumbers DEF Board, Sound
<1> QED BY <1>1 DEF Resends, With, Board, Short

LEMMA EnterRecoveryWorks ==
    ASSUME NEW s, SockOK(s), NEW w \in Windows, s.buf.sentSize > 0,
           s.congState \in {"CA_OPEN", "CA_DISORDER"}, s.highRxAck = s.buf.first
    PROVE  LET t == EnterRecovery(s, w)
           IN  SockOK(t) /\ Works(s, t) /\ t.congState = "CA_RECOVERY" /\ t.dupAckCount = s.dupAckCount
<1> DEFINE reno == RenoSack(s)
           guessed == [reno EXCEPT !.buf = MarkHeadAsLost(@)]
           told == [s EXCEPT !.buf = MarkHeadAsLost(@)]
           marked == IF ~ s.sack THEN guessed
                  ELSE IF IsLost(s.buf, s.buf.first) THEN s
                  ELSE told
           entered == [marked EXCEPT !.recover = s.highTx,
                                  !.recoverActive = TRUE,
                                  !.congState = "CA_RECOVERY",
                                  !.cWnd = w]
           checked == CheckInFlight(entered)
           sent == SendDataPacket(checked, s.highRxAck, SegmentSize)
<1>1. EnterRecovery(s, w) = sent
  BY Zenon DEF EnterRecovery
<1>0. /\ Half(s) /\ Board(s.buf) /\ Guess(s) /\ Typed(s) /\ DOMAIN s = SocketField
      /\ s.highRxAck = s.buf.first
  BY DEF SockOK, Half, Typed
<1>2. /\ SameBut(s, marked, {"buf"}) /\ Board(marked.buf) /\ Reflagged(s.buf, marked.buf)
      /\ s.sack => SackedBytes(marked.buf) = SackedBytes(s.buf)
      /\ ~ s.sack => With(marked.buf, "lost") = {s.buf.first}
      /\ s.sack \/ (s.failed = {} => marked.failed = {})
  <2>1. CASE ~ s.sack
    <3>1. SockOK(reno) /\ Works(s, reno) /\ SameBut(s, reno, {"buf"}) /\ Reflagged(s.buf, reno.buf)
      BY <2>1, RenoSackWorks
    <3> HIDE DEF reno
    <3>2. DOMAIN reno = SocketField /\ Board(reno.buf) /\ Guess(reno)
          /\ reno.sack = s.sack /\ reno.congState = s.congState /\ reno.failed = s.failed
      BY <3>1 DEF SameBut, SocketField, SockOK, Half
    <3>3. guessed.buf = MarkHeadAsLost(reno.buf) /\ SameBut(reno, guessed, {"buf"})
      BY <3>2 DEF SameBut, SocketField
    <3>4. marked = guessed
      BY <2>1
    <3> HIDE DEF guessed, marked
    <3>5. Board(guessed.buf) /\ Reflagged(reno.buf, guessed.buf)
          /\ With(guessed.buf, "lost") = With(reno.buf, "lost") \cup (DOMAIN reno.buf.sent \cap {reno.buf.first})
      BY <3>2, <3>3, MarkHeadBoard
    <3>6. reno.buf.first = s.buf.first /\ DOMAIN reno.buf.sent = DOMAIN s.buf.sent
      BY <3>1, ReflaggedSame
    <3>7. With(reno.buf, "lost") \subseteq {s.buf.first}
      BY <2>1, <3>2, <3>6 DEF Guess
    <3>8. s.buf.first \in DOMAIN s.buf.sent
      BY <1>0, HeadResends
    <3>9. With(guessed.buf, "lost") = {s.buf.first}
      BY <3>5, <3>6, <3>7, <3>8
    <3>10. Reflagged(s.buf, guessed.buf)
      BY <3>1, <3>5, ReflaggedTwice
    <3>11. SameBut(s, guessed, {"buf"})
      BY <3>1, <3>3 DEF SameBut
    <3>12. guessed.failed = s.failed
      BY <3>11 DEF SameBut, SocketField
    <3> QED BY <2>1, <3>4, <3>5, <3>9, <3>10, <3>11, <3>12
  <2>2. CASE s.sack /\ IsLost(s.buf, s.buf.first)
    <3>1. marked = s
      BY <2>2
    <3>2. Reflagged(s.buf, s.buf)
      BY <1>0 DEF Reflagged, Board, Sound, Shape, Numbers, ItemsInPlace
    <3> HIDE DEF marked
    <3> QED BY <1>0, <2>2, <3>1, <3>2 DEF SameBut
  <2>3. CASE s.sack /\ ~ IsLost(s.buf, s.buf.first)
    <3>1. marked = told
      BY <2>3
    <3>2. told.buf = MarkHeadAsLost(s.buf) /\ SameBut(s, told, {"buf"})
      BY <1>0 DEF SameBut, SocketField
    <3> HIDE DEF told, marked
    <3>3. Board(told.buf) /\ Reflagged(s.buf, told.buf) /\ SackedBytes(told.buf) = SackedBytes(s.buf)
      BY <1>0, <3>2, MarkHeadBoard
    <3> QED BY <2>3, <3>1, <3>2, <3>3
  <2> QED BY <2>1, <2>2, <2>3
<1> HIDE DEF marked
<1>3. DOMAIN marked = SocketField
  BY <1>2 DEF SameBut
<1>4. /\ SameBut(s, entered, {"buf", "recover", "recoverActive", "congState", "cWnd"})
      /\ entered.buf = marked.buf /\ entered.recover = s.highTx /\ entered.recoverActive = TRUE
      /\ entered.congState = "CA_RECOVERY" /\ entered.cWnd = w
  BY <1>2, <1>3 DEF SameBut, SocketField
<1> HIDE DEF entered
<1>5. /\ entered.sack = s.sack /\ entered.nextTx = s.nextTx /\ entered.highTx = s.highTx
      /\ entered.highRxAck = s.highRxAck
      /\ entered.dupAckCount = s.dupAckCount
      /\ entered.isFirstPartialAck = s.isFirstPartialAck /\ entered.notProcessed = s.notProcessed
      /\ entered.retrCount = s.retrCount /\ entered.retx = s.retx
      /\ entered.sendPending = s.sendPending /\ entered.aborted = s.aborted
      /\ entered.failed = s.failed /\ DOMAIN entered = SocketField
  BY <1>4 DEF SameBut, SocketField
<1>6. Kept(s, entered)
  BY <1>4 DEF SameBut, SocketField, Kept, KeptField
<1>7. /\ entered.buf.first = s.buf.first /\ SentEnd(entered.buf) = SentEnd(s.buf)
      /\ entered.buf.sentSize = s.buf.sentSize /\ DOMAIN entered.buf.sent = DOMAIN s.buf.sent
  BY <1>2, <1>4, ReflaggedSame
<1>8. s.highTx \in Nat
  BY <1>0, BufferNumbers DEF Half, Board, Sound
<1>9. Typed(entered)
  BY <1>0, <1>4, <1>5, <1>8 DEF Typed, CongState
<1>10. Guess(entered)
  BY <1>2, <1>4, <1>5, <1>7 DEF Guess
<1>11. entered.recover <= entered.highTx /\ (Timed(s) => Timed(entered)) /\ Board(entered.buf)
       /\ (s.sack => SackedBytes(entered.buf) \subseteq SackedBytes(s.buf))
  BY <1>2, <1>4, <1>5, <1>7, <1>8 DEF Timed
<1>12. SockOK(entered) /\ Works(s, entered) /\ Half(entered)
  BY <1>0, <1>5, <1>6, <1>7, <1>9, <1>10, <1>11, Altered
<1>13. checked = entered
  BY <1>12, CheckInFlightSends
<1> HIDE DEF checked
<1>14. MaySend(entered, s.highRxAck, SegmentSize)
  <2>1. Resends(entered.buf, s.highRxAck) /\ entered.buf.sent[s.highRxAck].len <= SegmentSize
    BY <1>0, <1>7, <1>11, HeadResends
  <2> QED BY <1>0, <1>2, <1>4, <1>5, <2>1 DEF MaySend
<1>15. SockOK(sent) /\ Works(entered, sent) /\ SameControl(entered, sent)
  <2>1. SegmentSize \in Nat /\ 1 <= SegmentSize /\ SegmentSize <= SegmentSize
    BY TxSegmentAssumption
  <2> QED BY <1>12, <1>13, <1>14, <2>1, SendDataPacketSends
<1> HIDE DEF sent
<1>16. Works(s, sent)
  BY <1>0, <1>12, <1>15, WorksTwice DEF SockOK
<1> QED BY <1>1, <1>4, <1>5, <1>15, <1>16 DEF SameControl

\* Duplicate ACKs are counted up to the threshold, and only before a recovery.
Dups(s) ==
    /\ s.congState \in {"CA_OPEN", "CA_LOSS"} => s.dupAckCount = 0
    /\ s.congState = "CA_DISORDER" => s.dupAckCount < DupAckThresh
    /\ s.dupAckCount <= DupAckThresh
    /\ s.recoverActive => s.congState \in {"CA_RECOVERY", "CA_LOSS"}

LEMMA DupsSame ==
    ASSUME NEW s, NEW t, Dups(s), SameControl(s, t)
    PROVE  Dups(t)
BY DEF Dups, SameControl

LEMMA DupsControl ==
    ASSUME NEW s, Typed(s), Dups(s)
    PROVE  Control(s)
BY DEF Dups, Typed, Control

\* Another window of congestion control changes nothing else.
LEMMA NewWindowWorks ==
    ASSUME NEW s, SockOK(s), NEW w \in Windows
    PROVE  LET t == [s EXCEPT !.cWnd = w]
           IN  SockOK(t) /\ Works(s, t) /\ SameBut(s, t, {"cWnd"}) /\ SameControl(s, t) /\ t.buf = s.buf
<1> DEFINE t == [s EXCEPT !.cWnd = w]
<1>0. Half(s) /\ Typed(s) /\ Guess(s) /\ Board(s.buf) /\ DOMAIN s = SocketField
  BY DEF SockOK, Half, Typed
<1>1. SameBut(s, t, {"cWnd"}) /\ t.cWnd = w
  BY <1>0 DEF SameBut, SocketField
<1> HIDE DEF t
<1>2. Kept(s, t) /\ Typed(t)
  BY <1>0, <1>1 DEF SameBut, SocketField, Kept, KeptField, Typed
<1>3. /\ t.sack = s.sack /\ t.buf = s.buf /\ t.congState = s.congState /\ t.recover = s.recover
      /\ t.retx = s.retx /\ t.aborted = s.aborted /\ t.highTx = s.highTx /\ t.nextTx = s.nextTx
      /\ t.recoverActive = s.recoverActive /\ t.dupAckCount = s.dupAckCount
      /\ DOMAIN t = SocketField
  BY <1>1 DEF SameBut, SocketField
<1>4. Guess(t) /\ t.recover <= t.highTx /\ (Timed(s) => Timed(t))
  BY <1>0, <1>3 DEF Guess, Half, Timed
<1>5. SockOK(t) /\ Works(s, t)
  BY <1>0, <1>2, <1>3, <1>4, Altered
<1>6. SameControl(s, t)
  BY <1>3 DEF SameControl
<1> QED BY <1>1, <1>3, <1>5, <1>6 DEF t

LEMMA WorksNothing ==
    ASSUME NEW s, Half(s)
    PROVE  Works(s, s)
<1>1. s.highTx <= s.highTx
  BY BufferNumbers DEF Half, Board, Sound
<1> QED BY <1>1 DEF Works, Quiet, Within

LEMMA DupAckWorks ==
    ASSUME NEW s, SockOK(s), Dups(s), NEW w \in Windows, s.buf.sentSize > 0, s.highRxAck = s.buf.first
    PROVE  LET t == DupAck(s, w)
           IN  SockOK(t) /\ Works(s, t) /\ Dups(t)
<1> DEFINE counted == IF s.congState = "CA_RECOVERY" THEN s
                   ELSE [s EXCEPT !.dupAckCount = @ + 1]
           first == Check(counted, "first duplicate", counted.dupAckCount = 1)
           d == IF s.congState = "CA_OPEN"
             THEN [first EXCEPT !.congState = "CA_DISORDER"]
             ELSE counted
           c == Check(d, "duplicates beyond the threshold",
                   d.dupAckCount <= DupAckThresh \/ d.recoverActive)
           reno == RenoSack(s)
           known == IF s.sack THEN s ELSE reno
           inRecovery == [known EXCEPT !.cWnd = w]
           start == \/ /\ d.dupAckCount = DupAckThresh
                       /\ d.highRxAck >= d.recover \/ ~ d.recoverActive
                    \/ IsLost(d.buf, d.highRxAck)
           open == IF start
                   THEN EnterRecovery(c, w)
                   ELSE IF ~ s.sack /\ LimitedTransmit THEN RenoSack(c) ELSE c
<1>0. DOMAIN s = SocketField /\ Half(s) /\ Typed(s) /\ Guess(s) /\ Board(s.buf)
  BY DEF SockOK, Half, Typed
<1>1. /\ s.congState = "CA_LOSS" => DupAck(s, w) = s
      /\ s.congState = "CA_RECOVERY" => DupAck(s, w) = inRecovery
      /\ s.congState \in {"CA_OPEN", "CA_DISORDER"} => DupAck(s, w) = open
  <2>1. DupAck(s, w) = CASE s.congState = "CA_LOSS" -> s
          [] s.congState = "CA_RECOVERY" -> inRecovery
          [] OTHER -> open
    BY Zenon DEF DupAck
  <2> HIDE DEF inRecovery, open
  <2> QED BY <2>1
<1>2. CASE s.congState = "CA_LOSS"
  BY <1>0, <1>1, <1>2, WorksNothing
<1>3. CASE s.congState = "CA_RECOVERY"
  <2>1. SockOK(known) /\ Works(s, known) /\ SameControl(s, known)
    <3>1. CASE s.sack
      BY <1>0, <3>1, WorksNothing DEF SameControl
    <3>2. CASE ~ s.sack
      <4>1. SockOK(reno) /\ Works(s, reno)
        BY <1>3, <3>2, RenoSackWorks
      <4>2. SameControl(s, reno)
        BY <1>0, RenoSackKeeps
      <4> HIDE DEF reno
      <4> QED BY <3>2, <4>1, <4>2
    <3> QED BY <3>1, <3>2
  <2> HIDE DEF known
  <2>2. SockOK(inRecovery) /\ Works(known, inRecovery) /\ SameControl(known, inRecovery)
    BY <2>1, NewWindowWorks
  <2> HIDE DEF inRecovery
  <2>3. Works(s, inRecovery) /\ SameControl(s, inRecovery)
    BY <2>1, <2>2, WorksTwice DEF SockOK, SameControl
  <2>4. Dups(inRecovery)
    BY <2>3, DupsSame
  <2> QED BY <1>1, <1>3, <2>2, <2>3, <2>4
<1>4. CASE s.congState \in {"CA_OPEN", "CA_DISORDER"}
  <2>1. counted = [s EXCEPT !.dupAckCount = @ + 1]
    BY <1>4
  <2>2. SameBut(s, counted, {"dupAckCount"}) /\ counted.dupAckCount = s.dupAckCount + 1
    BY <1>0, <2>1 DEF SameBut, SocketField
  <2> HIDE DEF counted
  <2>3. s.dupAckCount \in Nat /\ DupAckThresh \in Nat /\ 1 <= DupAckThresh
    BY <1>0, TxThreshAssumption DEF Typed
  <2>4. s.congState = "CA_OPEN" => first = counted
    <3>1. s.congState = "CA_OPEN" => counted.dupAckCount = 1
      BY <2>2, <2>3 DEF Dups
    <3> QED BY <3>1, Zenon DEF Check
  <2> HIDE DEF first
  <2>5. /\ SameBut(s, d, {"dupAckCount", "congState"})
        /\ d.dupAckCount = s.dupAckCount + 1 /\ d.congState = "CA_DISORDER"
    <3>1. CASE s.congState = "CA_OPEN"
      <4>1. d = [counted EXCEPT !.congState = "CA_DISORDER"]
        BY <2>4, <3>1
      <4> QED BY <2>2, <4>1 DEF SameBut, SocketField
    <3>2. CASE s.congState = "CA_DISORDER"
      <4>1. d = counted
        BY <3>2
      <4>2. counted.congState = s.congState
        BY <2>2 DEF SameBut, SocketField
      <4> HIDE DEF d
      <4> QED BY <2>2, <3>2, <4>1, <4>2 DEF SameBut
    <3> QED BY <1>4, <3>1, <3>2
  <2> HIDE DEF d
  <2>6. d.dupAckCount <= DupAckThresh /\ d.dupAckCount \in Nat
    BY <1>4, <2>3, <2>5 DEF Dups
  <2>7. /\ d.sack = s.sack /\ d.buf = s.buf /\ d.recover = s.recover /\ d.recoverActive = s.recoverActive
        /\ d.retx = s.retx /\ d.aborted = s.aborted /\ d.highTx = s.highTx /\ DOMAIN d = SocketField
        /\ d.cWnd = s.cWnd /\ d.nextTx = s.nextTx /\ d.notProcessed = s.notProcessed
        /\ d.retrCount = s.retrCount /\ d.isFirstPartialAck = s.isFirstPartialAck
        /\ d.sendPending = s.sendPending /\ d.failed = s.failed
    BY <2>5 DEF SameBut, SocketField
  <2>8. SockOK(d) /\ Works(s, d)
    <3>1. Typed(d)
      BY <1>0, <2>5, <2>6, <2>7 DEF Typed, CongState
    <3>2. Kept(s, d)
      BY <2>5 DEF SameBut, SocketField, Kept, KeptField
    <3>3. Guess(d) /\ d.recover <= d.highTx /\ (Timed(s) => Timed(d))
      BY <1>0, <1>4, <2>5, <2>7 DEF Guess, Half, Timed
    <3> QED BY <1>0, <2>7, <3>1, <3>2, <3>3, Altered
  <2>9. c = d
    BY <2>6 DEF Check
  <2> HIDE DEF c
  <2>10. d.recoverActive = FALSE
    BY <1>0, <1>4, <2>7 DEF Dups, Typed
  <2>11. CASE start
    <3> DEFINE t == EnterRecovery(d, w)
    <3>1. SockOK(t) /\ Works(d, t) /\ t.congState = "CA_RECOVERY" /\ t.dupAckCount = d.dupAckCount
      <4>1. d.highRxAck = d.buf.first
        BY <2>7, <2>8 DEF Works
      <4> QED BY <2>5, <2>7, <2>8, <4>1, EnterRecoveryWorks
    <3>2. DupAck(s, w) = t
      BY <1>1, <1>4, <2>9, <2>11
    <3> HIDE DEF t
    <3>3. Works(s, t)
      BY <1>0, <2>8, <3>1, WorksTwice DEF SockOK
    <3>4. Dups(t)
      BY <2>6, <3>1 DEF Dups
    <3> QED BY <3>1, <3>2, <3>3, <3>4
  <2>12. CASE ~ start
    <3>1. d.dupAckCount < DupAckThresh
      BY <2>3, <2>6, <2>10, <2>12
    <3>2. Dups(d)
      BY <2>5, <2>6, <2>10, <3>1 DEF Dups
    <3> HIDE DEF start
    <3>3. CASE ~ s.sack /\ LimitedTransmit
      <4> DEFINE t == RenoSack(d)
      <4>1. SockOK(t) /\ Works(d, t)
        BY <2>5, <2>7, <2>8, <3>3, RenoSackWorks
      <4>2. SameControl(d, t)
        BY <2>7, RenoSackKeeps
      <4>3. DupAck(s, w) = t
        BY <1>1, <1>4, <2>9, <2>12, <3>3
      <4> HIDE DEF t
      <4>4. Works(s, t) /\ Dups(t)
        BY <1>0, <2>8, <3>2, <4>1, <4>2, WorksTwice, DupsSame DEF SockOK
      <4> QED BY <4>1, <4>3, <4>4
    <3>4. CASE ~ (~ s.sack /\ LimitedTransmit)
      <4>1. DupAck(s, w) = d
        BY <1>1, <1>4, <2>9, <2>12, <3>4
      <4> QED BY <2>8, <3>2, <4>1
    <3> QED BY <3>3, <3>4
  <2> QED BY <2>11, <2>12
<1> QED BY <1>0, <1>2, <1>3, <1>4 DEF Typed, CongState

\* An ACK below the recovery point, in recovery.
LEMMA PartialAckWorks ==
    ASSUME NEW s, SockOK(s), s.congState = "CA_RECOVERY", s.buf.sentSize > 0,
           NEW ack, NEW n, NEW w \in Windows
    PROVE  LET t == PartialAck(s, ack, n, w)
           IN  SockOK(t) /\ Works(s, t) /\ Ready(t)
<1> DEFINE head == [s EXCEPT !.buf = MarkHeadAsLost(@)]
           m == IF s.sack THEN s ELSE head
           c == IF n >= 1 THEN [m EXCEPT !.cWnd = w] ELSE m
           r == IF IsRetransmittedDataAcked(c.buf, ack + SegmentSize) THEN c ELSE DoRetransmit(c)
           a == NewAck(r, r.isFirstPartialAck)
           t == [a EXCEPT !.isFirstPartialAck = FALSE]
<1>1. PartialAck(s, ack, n, w) = t
  BY Zenon DEF PartialAck
<1>0. DOMAIN s = SocketField /\ Half(s) /\ Typed(s) /\ Guess(s) /\ Board(s.buf)
  BY DEF SockOK, Half, Typed
<1>2. /\ SockOK(m) /\ Works(s, m) /\ m.buf.sentSize > 0 /\ m.congState = "CA_RECOVERY"
      /\ ~ m.sack => With(m.buf, "lost") = {m.buf.first} /\ m.buf.first \notin With(m.buf, "retrans")
  <2>1. CASE s.sack
    BY <1>0, <2>1, WorksNothing
  <2>2. CASE ~ s.sack
    <3>1. head.buf = MarkHeadAsLost(s.buf) /\ SameBut(s, head, {"buf"})
      BY <1>0 DEF SameBut, SocketField
    <3>2. m = head
      BY <2>2
    <3> HIDE DEF head, m
    <3>3. /\ Board(head.buf) /\ Reflagged(s.buf, head.buf)
          /\ With(head.buf, "lost") = With(s.buf, "lost") \cup (DOMAIN s.buf.sent \cap {s.buf.first})
          /\ With(head.buf, "retrans") = With(s.buf, "retrans") \ {s.buf.first}
      BY <1>0, <3>1, MarkHeadBoard
    <3>4. s.buf.first \in DOMAIN s.buf.sent /\ With(s.buf, "lost") \subseteq {s.buf.first}
      BY <1>0, <2>2, HeadResends DEF Guess
    <3>5. /\ head.buf.first = s.buf.first /\ SentEnd(head.buf) = SentEnd(s.buf)
          /\ head.buf.sentSize = s.buf.sentSize
      BY <3>3, ReflaggedSame
    <3>6. With(head.buf, "lost") = {head.buf.first} /\ head.buf.first \notin With(head.buf, "retrans")
      BY <3>3, <3>4, <3>5
    <3>7. /\ Kept(s, head) /\ Typed(head) /\ head.congState = s.congState
          /\ head.recover = s.recover /\ head.sack = s.sack /\ head.highTx = s.highTx
          /\ head.retx = s.retx /\ head.aborted = s.aborted /\ head.nextTx = s.nextTx
      BY <1>0, <3>1 DEF SameBut, SocketField, Kept, KeptField, Typed
    <3>8. Guess(head) /\ head.recover <= head.highTx /\ (Timed(s) => Timed(head))
      BY <1>0, <3>5, <3>6, <3>7 DEF Guess, Half, Timed
    <3>9. SockOK(head) /\ Works(s, head)
      BY <1>0, <2>2, <3>3, <3>5, <3>7, <3>8, Altered
    <3> QED BY <3>2, <3>5, <3>6, <3>7, <3>9
  <2> QED BY <2>1, <2>2
<1> HIDE DEF m
<1>3. SockOK(c) /\ Works(m, c) /\ c.buf = m.buf /\ c.congState = m.congState /\ c.sack = m.sack
  <2>1. CASE n >= 1
    BY <1>2, <2>1, NewWindowWorks DEF SameControl, Works
  <2>2. CASE ~ (n >= 1)
    BY <1>2, <2>2, WorksNothing DEF SockOK
  <2> QED BY <2>1, <2>2
<1> HIDE DEF c
<1>4. SockOK(r) /\ Works(c, r)
  <2>1. CASE IsRetransmittedDataAcked(c.buf, ack + SegmentSize)
    BY <1>3, <2>1, WorksNothing DEF SockOK
  <2>2. CASE ~ IsRetransmittedDataAcked(c.buf, ack + SegmentSize)
    <3> DEFINE x == DoRetransmit(c)
    <3>1. SockOK(x) /\ Works(c, x)
      BY <1>2, <1>3, DoRetransmitSends
    <3>2. r = x
      BY <2>2
    <3> HIDE DEF x, r
    <3> QED BY <3>1, <3>2
  <2> QED BY <2>1, <2>2
<1> HIDE DEF r
<1>5. SockOK(a) /\ Works(r, a) /\ Ready(a)
  <2>1. r.isFirstPartialAck \in BOOLEAN
    BY <1>4 DEF SockOK, Half, Typed
  <2> QED BY <1>4, <2>1, NewAckWorks
<1> HIDE DEF a
<1>6. SockOK(t) /\ Works(a, t)
  <2>0. DOMAIN a = SocketField /\ Half(a) /\ Typed(a) /\ Guess(a) /\ Board(a.buf)
    BY <1>5 DEF SockOK, Half, Typed
  <2>1. SameBut(a, t, {"isFirstPartialAck"}) /\ t.isFirstPartialAck = FALSE
    BY <2>0 DEF SameBut, SocketField
  <2> HIDE DEF t
  <2>2. /\ Kept(a, t) /\ Typed(t) /\ t.congState = a.congState /\ t.buf = a.buf
        /\ t.recover = a.recover /\ t.sack = a.sack /\ t.highTx = a.highTx
        /\ t.retx = a.retx /\ t.aborted = a.aborted /\ t.nextTx = a.nextTx
    BY <2>0, <2>1 DEF SameBut, SocketField, Kept, KeptField, Typed
  <2>3. Guess(t) /\ t.recover <= t.highTx /\ (Timed(a) => Timed(t))
    BY <2>0, <2>2 DEF Guess, Half, Timed
  <2> QED BY <1>5, <2>0, <2>2, <2>3, Altered
<1> HIDE DEF t
<1>7. Works(s, c)
  BY <1>0, <1>2, <1>3, WorksTwice DEF SockOK
<1>8. Works(s, r)
  BY <1>0, <1>3, <1>4, <1>7, WorksTwice DEF SockOK
<1>9. Works(s, a)
  BY <1>0, <1>4, <1>5, <1>8, WorksTwice DEF SockOK
<1>10. Works(s, t)
  BY <1>0, <1>5, <1>6, <1>9, WorksTwice DEF SockOK
<1>11. Ready(t)
  BY <1>5, <1>6 DEF Works
<1> QED BY <1>1, <1>6, <1>10, <1>11

\* An ACK of new data outside recovery, or one that ends it.
LEMMA FullAckWorks ==
    ASSUME NEW s, SockOK(s), Dups(s), NEW dup \in BOOLEAN, NEW w \in Windows, NEW ack, ack = s.buf.first,
           s.congState \in {"CA_RECOVERY", "CA_LOSS"} => ~ (ack < s.recover),
           ~ dup => s.dupAckCount = 0
    PROVE  LET t == FullAck(s, ack, dup, w)
           IN  SockOK(t) /\ Works(s, t) /\ Dups(t) /\ (~ dup => Ready(t))
<1> DEFINE dis == IF dup THEN s ELSE [s EXCEPT !.congState = "CA_OPEN"]
           rec == [s EXCEPT !.congState = "CA_OPEN", !.isFirstPartialAck = TRUE,
                               !.dupAckCount = 0]
           los == [s EXCEPT !.congState = "CA_OPEN", !.isFirstPartialAck = TRUE]
           o == CASE s.congState = "CA_OPEN" -> s
               [] s.congState = "CA_DISORDER" -> dis
               [] s.congState = "CA_RECOVERY" -> rec
               [] s.congState = "CA_LOSS" -> los
           r == [o EXCEPT !.recoverActive = @ /\ ack < s.recover]
           c == [r EXCEPT !.cWnd = w]
           t == IF r.congState = "CA_OPEN" THEN NewAck(c, TRUE) ELSE r
           F == {"congState", "isFirstPartialAck", "dupAckCount"}
<1>0. DOMAIN s = SocketField /\ Half(s) /\ Typed(s) /\ Guess(s) /\ Board(s.buf)
  BY DEF SockOK, Half, Typed
<1>1. FullAck(s, ack, dup, w) = t
  BY Zenon DEF FullAck
<1>2. \A x \in {s, dis, rec, los} :
         /\ SameBut(s, x, F)
         /\ x.congState \in {s.congState, "CA_OPEN"}
         /\ x.isFirstPartialAck \in BOOLEAN
         /\ x.dupAckCount \in {s.dupAckCount, 0}
  BY <1>0 DEF SameBut, SocketField, Typed
<1>3. /\ rec.congState = "CA_OPEN" /\ los.congState = "CA_OPEN" /\ rec.dupAckCount = 0
      /\ los.dupAckCount = s.dupAckCount /\ dis.dupAckCount = s.dupAckCount
      /\ dis.congState = IF dup THEN s.congState ELSE "CA_OPEN"
  BY <1>0 DEF SocketField
<1> HIDE DEF dis, rec, los
<1>4. /\ o \in {s, dis, rec, los}
      /\ s.congState = "CA_OPEN" => o = s
      /\ s.congState = "CA_DISORDER" => o = dis
      /\ s.congState = "CA_RECOVERY" => o = rec
      /\ s.congState = "CA_LOSS" => o = los
  BY <1>0 DEF Typed, CongState
<1> HIDE DEF o
<1>5. /\ SameBut(s, o, F) /\ o.isFirstPartialAck \in BOOLEAN
      /\ o.dupAckCount \in Nat
      /\ \/ o.congState = "CA_OPEN" /\ o.dupAckCount = 0
         \/ /\ s.congState = "CA_DISORDER" /\ o.congState = "CA_DISORDER"
            /\ o.dupAckCount = s.dupAckCount /\ dup
  <2>1. SameBut(s, o, F) /\ o.isFirstPartialAck \in BOOLEAN /\ o.dupAckCount \in {s.dupAckCount, 0}
    BY <1>2, <1>4
  <2>2. o.dupAckCount \in Nat
    BY <1>0, <2>1 DEF Typed
  <2>3. CASE s.congState = "CA_OPEN"
    BY <1>4, <2>1, <2>2, <2>3 DEF Dups
  <2>4. CASE s.congState = "CA_DISORDER"
    BY <1>3, <1>4, <2>1, <2>2, <2>4 DEF Dups
  <2>5. CASE s.congState = "CA_RECOVERY"
    BY <1>3, <1>4, <2>1, <2>2, <2>5
  <2>6. CASE s.congState = "CA_LOSS"
    BY <1>3, <1>4, <2>1, <2>2, <2>6 DEF Dups
  <2> QED BY <1>0, <2>3, <2>4, <2>5, <2>6 DEF Typed, CongState
<1>6. /\ SameBut(s, r, {"congState", "isFirstPartialAck", "dupAckCount", "recoverActive"})
      /\ r.congState = o.congState /\ r.dupAckCount = o.dupAckCount
      /\ r.isFirstPartialAck = o.isFirstPartialAck
      /\ r.recoverActive = (o.recoverActive /\ ack < s.recover)
      /\ o.recoverActive = s.recoverActive
  BY <1>5 DEF SameBut, SocketField
<1> HIDE DEF r
<1>7. r.recoverActive = FALSE
  <2>1. (s.recoverActive /\ ack < s.recover) = FALSE
    BY <1>0 DEF Dups, Typed, CongState
  <2> QED BY <1>6, <2>1, Zenon
<1>8. /\ r.sack = s.sack /\ r.buf = s.buf /\ r.recover = s.recover
      /\ r.retx = s.retx /\ r.aborted = s.aborted /\ r.highTx = s.highTx /\ DOMAIN r = SocketField
      /\ r.cWnd = s.cWnd /\ r.nextTx = s.nextTx /\ r.notProcessed = s.notProcessed
      /\ r.retrCount = s.retrCount
      /\ r.sendPending = s.sendPending /\ r.failed = s.failed
  BY <1>6 DEF SameBut, SocketField
<1>9. Typed(r)
  BY <1>0, <1>5, <1>6, <1>7, <1>8 DEF Typed, CongState
<1>10. Guess(r)
  <2>1. CASE s.sack
    BY <1>8, <2>1 DEF Guess
  <2>2. CASE ~ s.sack
    <3>1. r.congState # "CA_LOSS"
      BY <1>5, <1>6
    <3>2. With(s.buf, "lost") \subseteq {s.buf.first}
      <4>1. CASE s.congState # "CA_LOSS"
        BY <1>0, <2>2, <4>1 DEF Guess
      <4>2. CASE s.congState = "CA_LOSS"
        <5>1. \A x \in LostBytes(s.buf) : x < s.recover
          BY <1>0, <2>2, <4>2 DEF Guess
        <5>2. ASSUME NEW k \in With(s.buf, "lost") PROVE FALSE
          <6>1. Shape(s.buf) /\ k \in DOMAIN s.buf.sent
            BY <1>0 DEF Board, Sound, With
          <6>2. /\ k \in Int /\ 1 <= k /\ s.buf.first <= k /\ k <= StreamLen /\ k < EndOf(s.buf, k)
                /\ s.buf.first \in Int /\ s.recover \in Int
            BY <1>0, <6>1, ItemNumbers, BufferNumbers DEF Typed
          <6>3. k \in LostBytes(s.buf)
            BY <6>2, TxStreamAssumption DEF LostBytes, Covered, Byte
          <6>4. k < s.recover /\ ~ (s.buf.first < s.recover)
            BY <4>2, <5>1, <6>3
          <6> QED BY <6>2, <6>4
        <5> QED BY <5>2
      <4> QED BY <4>1, <4>2
    <3> QED BY <1>8, <3>1, <3>2 DEF Guess
  <2> QED BY <2>1, <2>2
<1>11. Kept(s, r)
  BY <1>6 DEF SameBut, SocketField, Kept, KeptField
<1>12. r.recover <= r.highTx /\ (Timed(s) => Timed(r))
  BY <1>0, <1>8 DEF Half, Timed
<1>13. SockOK(r) /\ Works(s, r)
  BY <1>0, <1>8, <1>9, <1>10, <1>11, <1>12, Altered
<1>14. Dups(r)
  <2>1. DupAckThresh \in Nat /\ 1 <= DupAckThresh
    BY TxThreshAssumption
  <2> QED BY <1>5, <1>6, <1>7, <2>1 DEF Dups
<1>15. CASE r.congState = "CA_OPEN"
  <2>1. SockOK(c) /\ Works(r, c) /\ SameControl(r, c)
    BY <1>13, NewWindowWorks
  <2> HIDE DEF c
  <2> DEFINE x == NewAck(c, TRUE)
  <2>2. SockOK(x) /\ Works(c, x) /\ Ready(x)
    BY <2>1, NewAckWorks
  <2>3. SameControl(c, x)
    BY <2>1, NewAckKeeps DEF SameControl
  <2>4. t = x
    BY <1>15
  <2> HIDE DEF x, t
  <2>5. Works(s, c)
    BY <1>0, <1>13, <2>1, WorksTwice DEF SockOK
  <2>6. Works(s, x)
    BY <1>0, <2>1, <2>2, <2>5, WorksTwice DEF SockOK
  <2>7. Dups(x)
    BY <1>14, <2>1, <2>3, DupsSame
  <2> QED BY <1>1, <2>2, <2>4, <2>6, <2>7
<1>16. CASE r.congState # "CA_OPEN"
  <2>1. t = r
    BY <1>16
  <2>2. dup
    BY <1>5, <1>6, <1>16
  <2> HIDE DEF t
  <2> QED BY <1>1, <1>13, <1>14, <2>1, <2>2
<1> QED BY <1>15, <1>16

\* The ACK has been applied to the buffer; oldHead is where the buffer began before.
LEMMA ProcessAckWorks ==
    ASSUME NEW s, SockOK(s), Dups(s), NEW ack, ack = s.buf.first, NEW oldHead \in Nat, oldHead <= ack,
           NEW updated \in BOOLEAN, NEW w \in Windows, s.sack /\ updated => s.buf.sentSize > 0,
           ~ s.sack \/ updated => s.highRxAck = s.buf.first
    PROVE  LET t == ProcessAck(s, ack, oldHead, updated, w)
           IN  SockOK(t) /\ Works(s, t) /\ Dups(t) /\ (ack # oldHead => Ready(t))
<1> DEFINE isDupack == IF s.sack THEN updated
                    ELSE ack = oldHead /\ ack < s.highTx
           d == IF isDupack THEN DupAck(s, w) ELSE s
           rest == d.notProcessed + ((ack - oldHead) % SegmentSize)
           segsAcked == (ack - oldHead) \div SegmentSize + rest \div SegmentSize
           n == [d EXCEPT !.dupAckCount = IF isDupack THEN @ ELSE 0,
                       !.notProcessed = rest % SegmentSize]
           k == Check(n, "sacked in CA_LOSS", s.sack \/ n.buf.count["sacked"] = 0)
           l == [k EXCEPT !.cWnd = w]
           p == PartialAck(n, ack, segsAcked, w)
           a == NewAck(l, TRUE)
           f == FullAck(n, ack, isDupack, w)
           t == ProcessAck(s, ack, oldHead, updated, w)
<1>0. DOMAIN s = SocketField /\ Half(s) /\ Typed(s) /\ Guess(s) /\ Board(s.buf) /\ Shape(s.buf)
  BY DEF SockOK, Half, Typed, Board, Sound
<1>1. t = IF ack = oldHead THEN d
        ELSE IF ack < n.recover /\ n.congState = "CA_RECOVERY" THEN p
        ELSE IF ack < n.recover /\ n.congState = "CA_LOSS" THEN a
        ELSE f
  BY Zenon DEF ProcessAck
<1>2. isDupack => s.buf.sentSize > 0 /\ s.highRxAck = s.buf.first
  <2>1. s.highTx = s.buf.first + s.buf.sentSize /\ s.buf.first \in Nat /\ s.buf.sentSize \in Nat
    BY <1>0, BufferNumbers DEF Half
  <2> QED BY <2>1
<1>3. isDupack \in BOOLEAN
  OBVIOUS
<1> HIDE DEF isDupack, t
<1>4. SockOK(d) /\ Works(s, d) /\ Dups(d)
  <2> DEFINE u == DupAck(s, w)
  <2>1. isDupack => SockOK(u) /\ Works(s, u) /\ Dups(u)
    BY <1>2, DupAckWorks
  <2>2. Works(s, s)
    BY <1>0, WorksNothing
  <2>3. IF isDupack THEN d = u ELSE d = s
    OBVIOUS
  <2> HIDE DEF u, d
  <2> QED BY <2>1, <2>2, <2>3
<1> HIDE DEF d
<1>5. /\ DOMAIN d = SocketField /\ Half(d) /\ Typed(d) /\ Guess(d) /\ Board(d.buf) /\ Shape(d.buf)
      /\ d.buf.first = s.buf.first
  BY <1>4 DEF SockOK, Half, Typed, Board, Sound, Works
<1>6. rest % SegmentSize \in 0 .. (SegmentSize - 1) /\ rest \in Int
  <2>1. ack - oldHead \in Int /\ d.notProcessed \in Int
    BY <1>0, <1>5, BufferNumbers, TxSegmentAssumption DEF Typed
  <2> DEFINE z == ack - oldHead
  <2> HIDE DEF z
  <2>2. rest = d.notProcessed + (z % SegmentSize) /\ z \in Int
    BY <2>1 DEF z
  <2>3. z % SegmentSize \in Int
    BY <2>2, TxSegmentAssumption
  <2> HIDE DEF rest
  <2>4. rest \in Int
    BY <2>1, <2>2, <2>3
  <2> QED BY <2>4, TxSegmentAssumption
<1> HIDE DEF rest, segsAcked
<1>7. /\ SameBut(d, n, {"dupAckCount", "notProcessed"})
      /\ n.dupAckCount = IF isDupack THEN d.dupAckCount ELSE 0
      /\ n.notProcessed = rest % SegmentSize
  BY <1>5 DEF SameBut, SocketField
<1> HIDE DEF n
<1>8. /\ n.sack = d.sack /\ n.buf = d.buf /\ n.recover = d.recover /\ n.recoverActive = d.recoverActive
      /\ n.retx = d.retx /\ n.aborted = d.aborted /\ n.highTx = d.highTx /\ DOMAIN n = SocketField
      /\ n.cWnd = d.cWnd /\ n.nextTx = d.nextTx /\ n.congState = d.congState
      /\ n.retrCount = d.retrCount /\ n.isFirstPartialAck = d.isFirstPartialAck
      /\ n.sendPending = d.sendPending /\ n.failed = d.failed
  BY <1>7 DEF SameBut, SocketField
<1>9. Kept(d, n)
  BY <1>7 DEF SameBut, SocketField, Kept, KeptField
<1>10. n.dupAckCount \in Nat /\ n.dupAckCount <= d.dupAckCount
  BY <1>5, <1>7 DEF Typed
<1>11. Typed(n)
  BY <1>5, <1>6, <1>7, <1>8, <1>10 DEF Typed
<1>12. SockOK(n) /\ Works(d, n)
  <2>1. Guess(n) /\ n.recover <= n.highTx /\ (Timed(d) => Timed(n))
    BY <1>5, <1>8 DEF Guess, Half, Timed
  <2> QED BY <1>4, <1>5, <1>8, <1>9, <1>11, <2>1, Altered
<1>13. Dups(n)
  <2>1. d.dupAckCount \in Nat /\ DupAckThresh \in Nat /\ 1 <= DupAckThresh
    BY <1>5, TxThreshAssumption DEF Typed
  <2> QED BY <1>4, <1>7, <1>8, <2>1 DEF Dups
<1>14. Works(s, n)
  BY <1>0, <1>4, <1>12, WorksTwice DEF SockOK
<1>15. CASE ack = oldHead
  BY <1>1, <1>4, <1>15 DEF t
<1>16. CASE ack # oldHead /\ ack < n.recover /\ n.congState = "CA_RECOVERY"
  <2>1. n.buf.sentSize > 0
    <3>1. n.highTx = n.buf.first + n.buf.sentSize /\ n.buf.first \in Nat /\ n.buf.sentSize \in Nat
      BY <1>12, BufferNumbers DEF SockOK, Half, Board, Sound
    <3>2. ack = n.buf.first /\ n.recover <= n.highTx /\ n.recover \in Nat
      BY <1>5, <1>8, <1>11, <1>12 DEF SockOK, Half, Typed
    <3> QED BY <1>16, <3>1, <3>2
  <2>2. SockOK(p) /\ Works(n, p) /\ Ready(p)
    BY <1>12, <1>16, <2>1, PartialAckWorks
  <2>3. SameControl(n, p)
    BY <1>8, PartialAckKeeps
  <2> HIDE DEF p
  <2>4. t = p
    BY <1>1, <1>16
  <2>5. Works(s, p) /\ Dups(p)
    BY <1>0, <1>12, <1>13, <1>14, <2>2, <2>3, WorksTwice, DupsSame DEF SockOK
  <2> QED BY <2>2, <2>4, <2>5 DEF t
<1>17. CASE ack # oldHead /\ ack < n.recover /\ n.congState = "CA_LOSS"
  <2>1. s.sack \/ n.buf.count["sacked"] = 0
    <3>1. n.sack = s.sack
      BY <1>4, <1>8 DEF Works
    <3>2. ASSUME ~ s.sack PROVE n.buf.count["sacked"] = 0
      <4>1. With(n.buf, "sacked") = {} /\ Counted(n.buf)
        BY <1>12, <1>17, <3>1, <3>2 DEF SockOK, Half, Guess, Board, Sound
      <4> QED BY <4>1, NoBytes DEF Counted, Flag
    <3> QED BY <3>2
  <2>2. k = n
    BY <2>1 DEF Check
  <2> HIDE DEF k
  <2>3. SockOK(l) /\ Works(n, l) /\ SameControl(n, l)
    BY <1>12, <2>2, NewWindowWorks
  <2> HIDE DEF l
  <2>4. SockOK(a) /\ Works(l, a) /\ Ready(a)
    BY <2>3, NewAckWorks
  <2>5. SameControl(l, a)
    BY <2>3, NewAckKeeps DEF SameControl
  <2> HIDE DEF a
  <2>6. t = a
    BY <1>1, <1>17
  <2>7. Works(s, l)
    BY <1>0, <1>12, <1>14, <2>3, WorksTwice DEF SockOK
  <2>8. Works(s, a) /\ Dups(a)
    BY <1>0, <1>13, <2>3, <2>4, <2>5, <2>7, WorksTwice, DupsSame DEF SockOK
  <2> QED BY <2>4, <2>6, <2>8 DEF t
<1>18. CASE ack # oldHead /\ ~ (ack < n.recover /\ n.congState = "CA_RECOVERY")
            /\ ~ (ack < n.recover /\ n.congState = "CA_LOSS")
  <2>1. n.congState \in {"CA_RECOVERY", "CA_LOSS"} => ~ (ack < n.recover)
    BY <1>18
  <2>2. ack = n.buf.first /\ (~ isDupack => n.dupAckCount = 0)
    BY <1>5, <1>7, <1>8
  <2>3. SockOK(f) /\ Works(n, f) /\ Dups(f) /\ (~ isDupack => Ready(f))
    BY <1>3, <1>12, <1>13, <2>1, <2>2, FullAckWorks
  <2> HIDE DEF f
  <2>4. t = f
    BY <1>1, <1>18
  <2>5. Works(s, f)
    BY <1>0, <1>12, <1>14, <2>3, WorksTwice DEF SockOK
  <2>6. Ready(f)
    <3>1. isDupack => Ready(s)
      BY <1>2 DEF Ready
    <3> QED BY <2>3, <2>5, <3>1 DEF Works
  <2> QED BY <2>3, <2>4, <2>5, <2>6 DEF t
<1> QED BY <1>15, <1>16, <1>17, <1>18

\* The ACK m is one the socket may receive, and its SACK blocks lie within U.
Block == [first : Int, second : Int]

Acceptable(s, m, U) ==
    /\ m.ack \in Nat /\ s.buf.first <= m.ack /\ m.ack <= s.highTx
    /\ m.sack \in Seq(Block)
    /\ \A i \in 1 .. Len(m.sack) :
          /\ m.ack < m.sack[i].first
          /\ \A x \in Int : m.sack[i].first <= x /\ x < m.sack[i].second => x \in U
    /\ m.sack # << >> => s.sack /\ m.ack < s.highTx
    /\ s.sack => m.ack \notin SackedBytes(s.buf) \cup U

\* What an ACK that has been received has done.
Acked(s, t, m, U) ==
    /\ SockOK(t) /\ Dups(t)
    /\ t.sack = s.sack /\ t.aborted = s.aborted /\ t.rWnd = s.rWnd /\ t.persist = s.persist
    /\ t.buf.first = m.ack /\ s.highTx <= t.highTx
    /\ t.highTx <= s.highTx \/ t.highTx <= m.ack + s.rWnd
    /\ Ready(s) => Ready(t)
    /\ s.sack => SackedBytes(t.buf) \subseteq SackedBytes(s.buf) \cup U
    /\ Quiet(s, t)
    /\ Timed(s) => Timed(t)

\* The marks and the first bytes of the list, before the ACK is processed.
LEMMA ApplyAck ==
    ASSUME NEW s, Half(s), NEW m, NEW U, Acceptable(s, m, U)
    PROVE  LET marked == Update(s.buf, m.sack)
               b == DiscardUpTo(marked, m.ack)
           IN  /\ Board(b) /\ b.first = m.ack /\ SentEnd(b) = SentEnd(s.buf)
               /\ s.sack => SackedBytes(b) \subseteq SackedBytes(s.buf) \cup U
               /\ m.sack = << >> => marked = s.buf
               /\ DOMAIN marked.sent = DOMAIN s.buf.sent
               /\ Shape(marked) /\ marked.first = s.buf.first /\ s.buf.first \notin With(marked, "sacked")
               /\ \A t : t.sack = s.sack /\ t.congState = s.congState /\ t.recover = s.recover /\ t.buf = b
                            => Guess(t)
<1> DEFINE marked == Update(s.buf, m.sack)
           b == DiscardUpTo(marked, m.ack)
<1>0. /\ Sound(s.buf) /\ Exclusive(s.buf) /\ Short(s.buf) /\ Live(s.buf)
      /\ s.buf.first \notin With(s.buf, "sacked") /\ Guess(s) /\ s.highTx = SentEnd(s.buf)
      /\ s.recover \in Int
  BY DEF Half, Board, Typed
<1>1. m.sack \in Seq(Block) /\ m.ack \in Int /\ s.buf.first <= m.ack /\ m.ack <= SentEnd(s.buf)
  BY <1>0 DEF Acceptable
<1>2. Len(m.sack) \in Nat /\ (m.sack = << >> => Len(m.sack) = 0)
  <2> DEFINE R == Block
  <2>1. m.sack \in Seq(R)
    BY <1>1
  <2> HIDE DEF R
  <2> QED BY <2>1
<1>3. Sacked(s.buf, marked, U) /\ (m.sack = << >> => marked = s.buf)
  <2>1. \A i \in 1 .. Len(m.sack) :
          /\ s.buf.first < m.sack[i].first
          /\ \A x \in Int : m.sack[i].first <= x /\ x < m.sack[i].second => x \in U
    <3> DEFINE R == Block
    <3>1. m.sack \in Seq(R)
      BY <1>1
    <3>2. \A r \in R : r.first \in Int
      BY DEF Block
    <3> HIDE DEF R
    <3>3. \A i \in 1 .. Len(m.sack) : m.sack[i] \in R
      BY <3>1
    <3>4. \A i \in 1 .. Len(m.sack) : s.buf.first < m.sack[i].first
      <4>1. s.buf.first \in Int
        BY <1>0, BufferNumbers DEF Sound
      <4> QED BY <1>1, <3>2, <3>3, <4>1 DEF Acceptable
    <3> QED BY <3>4 DEF Acceptable
  <2>2. m.sack \in Seq([first : Int, second : Int])
    BY <1>1 DEF Block
  <2>3. Sacked(s.buf, marked, U) /\ (Len(m.sack) = 0 => marked = s.buf)
    BY <1>0, <2>1, <2>2, UpdateSound
  <2> HIDE DEF marked
  <2> QED BY <1>2, <2>3
<1> HIDE DEF marked
<1>4. /\ Sound(marked) /\ Exclusive(marked) /\ Live(marked) /\ Reflagged(s.buf, marked)
      /\ marked.first \notin With(marked, "sacked")
      /\ SackedBytes(marked) \subseteq SackedBytes(s.buf) \cup U
  BY <1>3 DEF Sacked, SackedBytes
<1>5. /\ marked.first = s.buf.first /\ SentEnd(marked) = SentEnd(s.buf) /\ Short(marked)
      /\ DOMAIN marked.sent = DOMAIN s.buf.sent
  BY <1>0, <1>4, ReflaggedSame
<1>6. ~ s.sack => marked = s.buf
  BY <1>3 DEF Acceptable
<1>7. m.ack \notin Covered(marked, With(marked, "sacked")) \/ With(marked, "lost") \subseteq {marked.first}
  <2>1. CASE s.sack
    BY <1>4, <2>1 DEF Acceptable, SackedBytes
  <2>2. CASE ~ s.sack /\ s.congState = "CA_LOSS"
    BY <1>0, <1>6, <2>2, NoBytes DEF Guess
  <2>3. CASE ~ s.sack /\ s.congState # "CA_LOSS"
    BY <1>0, <1>6, <2>3 DEF Guess
  <2> QED BY <2>1, <2>2, <2>3
<1>8. /\ Sound(b) /\ Exclusive(b) /\ Short(b) /\ Live(b) /\ b.first \notin With(b, "sacked")
      /\ b.first = m.ack /\ SentEnd(b) = SentEnd(marked)
      /\ m.ack \notin Covered(marked, With(marked, "sacked"))
            => Covered(b, With(b, "sacked")) \subseteq Covered(marked, With(marked, "sacked"))
      /\ With(marked, "lost") \subseteq {marked.first} => With(b, "lost") \subseteq {m.ack}
      /\ With(marked, "sacked") = {} =>
            /\ With(b, "sacked") = {}
            /\ \A k \in With(b, "lost") : \E x \in With(marked, "lost") : EndOf(b, k) = EndOf(marked, x)
  BY <1>1, <1>4, <1>5, <1>7, DiscardUpToSound
<1> HIDE DEF b
<1>9. s.sack => SackedBytes(b) \subseteq SackedBytes(s.buf) \cup U
  BY <1>4, <1>8 DEF Acceptable, SackedBytes
<1>10. ASSUME NEW t, t.sack = s.sack, t.congState = s.congState, t.recover = s.recover, t.buf = b
       PROVE  Guess(t)
  <2>1. CASE s.sack
    BY <1>10, <2>1 DEF Guess
  <2>2. CASE ~ s.sack /\ s.congState # "CA_LOSS"
    BY <1>0, <1>6, <1>8, <1>10, <2>2 DEF Guess
  <2>3. CASE ~ s.sack /\ s.congState = "CA_LOSS"
    <3>1. With(s.buf, "sacked") = {} /\ \A x \in LostBytes(s.buf) : x < s.recover
      BY <1>0, <2>3 DEF Guess
    <3>2. With(b, "sacked") = {}
          /\ \A k \in With(b, "lost") : \E x \in With(s.buf, "lost") : EndOf(b, k) = EndOf(s.buf, x)
      BY <1>6, <1>8, <2>3, <3>1
    <3>3. ASSUME NEW x \in LostBytes(b) PROVE x < s.recover
      <4>1. PICK k \in With(b, "lost") : k <= x /\ x < EndOf(b, k)
        BY <3>3 DEF LostBytes, Covered
      <4>2. PICK y \in With(s.buf, "lost") : EndOf(b, k) = EndOf(s.buf, y)
        BY <3>2
      <4>3. y \in DOMAIN s.buf.sent /\ Shape(s.buf)
        BY <1>0 DEF With, Sound
      <4> DEFINE e == EndOf(s.buf, y)
                 z == e - 1
      <4>4. /\ e \in Int /\ y \in Int /\ 1 <= y /\ y < e /\ e <= StreamLen + 1
        <5>1. e <= SentEnd(s.buf) /\ SentEnd(s.buf) \in Int /\ SentEnd(s.buf) <= StreamLen + 1
          BY <4>3, ItemNumbers, BufferNumbers, TxStreamAssumption
        <5>2. e = y + s.buf.sent[y].len /\ y \in Int /\ s.buf.sent[y].len \in Int /\ 1 <= y
              /\ 1 <= s.buf.sent[y].len
          BY <4>3, ItemNumbers
        <5> HIDE DEF e
        <5> QED BY <5>1, <5>2, TxStreamAssumption
      <4>5. z \in Byte /\ y <= z /\ z < EndOf(s.buf, y)
        <5> HIDE DEF e
        <5>1. z \in Int /\ 1 <= z /\ z <= StreamLen /\ y <= z /\ z < e
          BY <4>4, TxStreamAssumption
        <5> HIDE DEF z
        <5> QED BY <5>1, TxStreamAssumption DEF Byte, e
      <4>6. z \in LostBytes(s.buf)
        <5> HIDE DEF z, e
        <5> QED BY <4>5, Zenon DEF LostBytes, Covered
      <4>7. z < s.recover
        BY <3>1, <4>6
      <4>8. x < e /\ x \in Int
        BY <3>3, <4>1, <4>2, TxStreamAssumption DEF LostBytes, Covered, Byte
      <4> HIDE DEF e
      <4> QED BY <1>0, <4>4, <4>7, <4>8
    <3> QED BY <1>10, <2>3, <3>2, <3>3 DEF Guess
  <2> QED BY <2>1, <2>2, <2>3
<1>11. Board(b)
  BY <1>8 DEF Board
<1>12. Shape(marked) /\ s.buf.first \notin With(marked, "sacked")
  BY <1>4, <1>5 DEF Sound
<1> QED BY <1>3, <1>5, <1>8, <1>9, <1>10, <1>11, <1>12 DEF b, marked

LEMMA ReceivedAckWorks ==
    ASSUME NEW s, Half(s), Dups(s), NEW m, m.ack <= s.highRxAck, NEW U, Acceptable(s, m, U),
           ~ s.sack \/ m.sack # << >> => s.highRxAck = m.ack, NEW w \in Windows
    PROVE  LET t == ReceivedAck(s, m, w)
           IN  Acked(s, t, m, U) /\ t.highRxAck = s.highRxAck
<1> DEFINE marked == Update(s.buf, m.sack)
           b == DiscardUpTo(marked, m.ack)
           updated == marked.count["sacked"] > s.buf.count["sacked"]
           q == [s EXCEPT !.buf = b]
           r == CheckInFlight(q)
           k == m.sack # << >> => /\ DOMAIN marked.sent # {}
                                  /\ ~ marked.sent[HeadItem(marked)].sacked
           c == Check(r, "head sacked", k)
           p == ProcessAck(c, m.ack, s.buf.first, updated, w)
           t == SendPendingData(p)
<1>1. ReceivedAck(s, m, w) = t
  BY Zenon DEF ReceivedAck
<1>0. /\ DOMAIN s = SocketField /\ Typed(s) /\ s.highTx = SentEnd(s.buf) /\ Shape(s.buf)
      /\ m.ack \in Nat /\ s.buf.first <= m.ack /\ m.ack <= s.highTx /\ s.buf.first \in Nat
      /\ s.highTx \in Nat
  BY BufferNumbers DEF Half, Typed, Acceptable, Board, Sound
<1>2. /\ Board(b) /\ b.first = m.ack /\ SentEnd(b) = SentEnd(s.buf)
      /\ s.sack => SackedBytes(b) \subseteq SackedBytes(s.buf) \cup U
      /\ m.sack = << >> => marked = s.buf
      /\ DOMAIN marked.sent = DOMAIN s.buf.sent
      /\ Shape(marked) /\ marked.first = s.buf.first /\ s.buf.first \notin With(marked, "sacked")
      /\ \A x : x.sack = s.sack /\ x.congState = s.congState /\ x.recover = s.recover /\ x.buf = b
                   => Guess(x)
  BY ApplyAck
<1>3. updated => m.sack # << >>
  <2>1. m.sack = << >> => ~ updated
    <3>1. s.buf.count["sacked"] \in Nat
      BY LeftOut DEF Half, Board, Flag
    <3> HIDE DEF marked
    <3> QED BY <1>2, <3>1
  <2> QED BY <2>1
<1>4. k
  <2> SUFFICES ASSUME m.sack # << >>
               PROVE  DOMAIN marked.sent # {} /\ ~ marked.sent[HeadItem(marked)].sacked
    OBVIOUS
  <2>1. m.ack < s.highTx
    BY DEF Acceptable
  <2>2. s.buf.sentSize > 0
    BY <1>0, <2>1, BufferNumbers
  <2>3. DOMAIN s.buf.sent # {}
    BY <1>0, <2>2, HeadIsFirst
  <2>4. DOMAIN marked.sent # {} /\ HeadItem(marked) = s.buf.first /\ s.buf.first \in DOMAIN marked.sent
    BY <1>2, <2>3, HeadIsFirst
  <2> HIDE DEF marked
  <2> QED BY <1>2, <2>4 DEF With
<1>5. updated \in BOOLEAN
  OBVIOUS
<1> HIDE DEF b, k, updated
<1>6. SameBut(s, q, {"buf"}) /\ q.buf = b
  BY <1>0 DEF SameBut, SocketField
<1> HIDE DEF q
<1>7. /\ DOMAIN q = SocketField
      /\ q.sack = s.sack /\ q.congState = s.congState /\ q.cWnd = s.cWnd
      /\ q.highTx = s.highTx /\ q.nextTx = s.nextTx /\ q.highRxAck = s.highRxAck /\ q.rWnd = s.rWnd
      /\ q.dupAckCount = s.dupAckCount /\ q.recover = s.recover /\ q.recoverActive = s.recoverActive
      /\ q.isFirstPartialAck = s.isFirstPartialAck /\ q.notProcessed = s.notProcessed
      /\ q.retrCount = s.retrCount /\ q.retx = s.retx /\ q.persist = s.persist
      /\ q.sendPending = s.sendPending /\ q.aborted = s.aborted /\ q.out = s.out
      /\ q.failed = s.failed
  BY <1>6 DEF SameBut, SocketField
<1>8. Typed(q) /\ Guess(q) /\ Leaving(q)
  <2>1. Typed(q)
    BY <1>0, <1>7 DEF Typed
  <2>2. Guess(q)
    BY <1>2, <1>6, <1>7
  <2>3. Leaving(q)
    BY <1>7 DEF Half, Leaving
  <2> QED BY <2>1, <2>2, <2>3
<1>9. SockOK(q)
  BY <1>0, <1>2, <1>6, <1>7, <1>8 DEF SockOK, Half
<1>10. Dups(q)
  BY <1>7 DEF Dups
<1>11. r = q
  BY <1>9, CheckInFlightSends
<1> HIDE DEF r
<1>12. c = q
  BY <1>4, <1>11 DEF Check
<1> HIDE DEF c
<1>13. SockOK(p) /\ Works(q, p) /\ Dups(p) /\ (m.ack # s.buf.first => Ready(p))
  <2>1. m.ack = q.buf.first
    BY <1>2, <1>6
  <2>3. ~ q.sack \/ updated => q.highRxAck = q.buf.first
    BY <1>3, <1>7, <2>1
  <2>2. q.sack /\ updated => q.buf.sentSize > 0
    <3>1. updated => m.ack < s.highTx
      BY <1>3 DEF Acceptable
    <3>2. SentEnd(q.buf) = q.buf.first + q.buf.sentSize /\ q.buf.sentSize \in Nat
      BY <1>9, BufferNumbers DEF SockOK, Half, Board, Sound
    <3> QED BY <1>0, <1>2, <1>6, <3>1, <3>2
  <2> QED BY <1>0, <1>5, <1>9, <1>10, <1>12, <2>1, <2>2, <2>3, ProcessAckWorks
<1> HIDE DEF p
<1>14. Sends(p, t)
  BY <1>13, SendPendingDataSends
<1> HIDE DEF t
<1>15. SockOK(t) /\ Works(p, t) /\ Dups(t)
  BY <1>13, <1>14, DupsSame DEF Sends
<1>16. Works(q, t)
  BY <1>9, <1>13, <1>15, WorksTwice DEF SockOK
<1>17. Timed(s) => Timed(q)
  <2>1. q.buf.sentSize > 0 => s.buf.sentSize > 0
    <3>1. SentEnd(q.buf) = q.buf.first + q.buf.sentSize /\ q.buf.sentSize \in Nat
      BY <1>9, BufferNumbers DEF SockOK, Half, Board, Sound
    <3>2. SentEnd(s.buf) = s.buf.first + s.buf.sentSize /\ s.buf.sentSize \in Nat
      BY <1>0, BufferNumbers
    <3>3. q.buf.first = m.ack /\ SentEnd(q.buf) = SentEnd(s.buf)
      BY <1>2, <1>6
    <3> QED BY <1>0, <3>1, <3>2, <3>3
  <2> QED BY <1>7, <2>1 DEF Timed
<1>18. Ready(s) => Ready(t)
  <2>1. CASE m.ack = s.buf.first
    <3>1. Ready(s) => Ready(q)
      <4>1. q.buf.sentSize \in Nat /\ s.buf.sentSize \in Nat /\ q.buf.first = s.buf.first
            /\ q.buf.first + q.buf.sentSize = s.buf.first + s.buf.sentSize
        BY <1>0, <1>2, <1>6, <1>9, <2>1, BufferNumbers DEF SockOK, Half, Board, Sound
      <4>2. q.buf.sentSize = s.buf.sentSize
        BY <1>0, <4>1
      <4> QED BY <1>7, <4>2 DEF Ready
    <3> QED BY <1>16, <3>1 DEF Works
  <2>2. CASE m.ack # s.buf.first
    BY <1>13, <1>15, <2>2 DEF Works
  <2> QED BY <2>1, <2>2
<1>19. t.highTx <= s.highTx \/ t.highTx <= m.ack + s.rWnd
  BY <1>2, <1>6, <1>7, <1>16 DEF Works, Within
<1>20. /\ t.sack = s.sack /\ t.aborted = s.aborted /\ t.rWnd = s.rWnd /\ t.persist = s.persist
       /\ t.highRxAck = s.highRxAck /\ t.buf.first = m.ack /\ s.highTx <= t.highTx
  BY <1>2, <1>6, <1>7, <1>16 DEF Works
<1>21. /\ s.sack => SackedBytes(t.buf) \subseteq SackedBytes(s.buf) \cup U
       /\ Quiet(s, t) /\ (Timed(s) => Timed(t))
  BY <1>2, <1>6, <1>7, <1>16, <1>17 DEF Works, Quiet
<1>22. Acked(s, t, m, U)
  BY <1>15, <1>18, <1>19, <1>20, <1>21 DEF Acked
<1> QED BY <1>1, <1>20, <1>22

\* The socket while the receiver reads at once: the window is open, and every ACK
\* that updated it has been applied to the buffer.
Open(s) == s.highRxAck = s.buf.first /\ s.rWnd = RcvBufSize /\ s.persist = FALSE

\* An ACK in flight: an old one changes nothing, and since the receiver reads at
\* once the window never closes.
LEMMA DoForwardUpWorks ==
    ASSUME NEW s, SockOK(s), Open(s), Dups(s), NEW m, m.ack \in Nat, m.wnd = RcvBufSize,
           NEW w \in Windows
    PROVE  LET t == DoForwardUp(s, m, w)
           IN  /\ m.ack < s.buf.first => t = s
               /\ \A U : m.ack >= s.buf.first /\ Acceptable(s, m, U) => Acked(s, t, m, U) /\ Open(t)
<1> DEFINE u == UpdateWindowSize(s, m)
           e == EnterPersist(u)
           p == ProcessEstablished(e, m, w)
           t == LeavePersist(p)
<1>1. DoForwardUp(s, m, w) = t
  BY Zenon DEF DoForwardUp
<1>0. /\ Half(s) /\ DOMAIN s = SocketField /\ Typed(s) /\ Shape(s.buf) /\ s.highRxAck = s.buf.first
      /\ s.buf.first \in Nat /\ s.rWnd = RcvBufSize /\ RcvBufSize \in Nat /\ RcvBufSize > 0
      /\ s.persist = FALSE /\ s.highTx \in Nat
  BY BufferNumbers, SenderAssumption, TxSegmentAssumption DEF SockOK, Half, Typed, Board, Sound, Open
<1>2. ~ (m.wnd > s.rWnd)
  BY <1>0
<1>3. \A x : x.persist = FALSE => LeavePersist(x) = x
  BY DEF LeavePersist
<1>4. \A x : x.rWnd = RcvBufSize => EnterPersist(x) = x
  BY <1>0 DEF EnterPersist
<1>5. ASSUME m.ack < s.buf.first PROVE t = s
  <2>1. u = s
    BY <1>0, <1>2, <1>5 DEF UpdateWindowSize
  <2>2. e = s
    BY <1>0, <1>4, <2>1
  <2>3. p = s
    BY <1>5, <2>2 DEF ProcessEstablished
  <2> HIDE DEF p
  <2> QED BY <1>0, <1>3, <2>3
<1>6. ASSUME NEW U, m.ack >= s.buf.first, Acceptable(s, m, U) PROVE Acked(s, t, m, U) /\ Open(t)
  <2>1. SameBut(s, u, {"highRxAck"}) /\ u.highRxAck = m.ack
    <3>1. CASE m.ack > s.highRxAck
      <4>1. u = [s EXCEPT !.highRxAck = m.ack, !.rWnd = m.wnd]
        BY <3>1 DEF UpdateWindowSize
      <4> QED BY <1>0, <4>1 DEF SameBut, SocketField
    <3>2. CASE ~ (m.ack > s.highRxAck)
      <4>1. u = s /\ m.ack = s.highRxAck
        BY <1>0, <1>2, <1>6, <3>2 DEF UpdateWindowSize
      <4> QED BY <1>0, <4>1 DEF SameBut
    <3> QED BY <3>1, <3>2
  <2> HIDE DEF u
  <2>2. /\ DOMAIN u = SocketField
      /\ u.sack = s.sack /\ u.buf = s.buf /\ u.congState = s.congState /\ u.cWnd = s.cWnd
      /\ u.highTx = s.highTx /\ u.nextTx = s.nextTx /\ u.rWnd = s.rWnd
      /\ u.dupAckCount = s.dupAckCount /\ u.recover = s.recover /\ u.recoverActive = s.recoverActive
      /\ u.isFirstPartialAck = s.isFirstPartialAck /\ u.notProcessed = s.notProcessed
      /\ u.retrCount = s.retrCount /\ u.retx = s.retx /\ u.persist = s.persist
      /\ u.sendPending = s.sendPending /\ u.aborted = s.aborted /\ u.out = s.out
      /\ u.failed = s.failed
    BY <2>1 DEF SameBut, SocketField
  <2>3. Half(u) /\ Dups(u) /\ Acceptable(u, m, U)
    <3>1. Typed(u)
      BY <1>0, <2>2 DEF Typed
    <3>2. Half(u)
      BY <1>0, <1>6, <2>1, <2>2, <3>1 DEF Half, Guess, Leaving
    <3>3. Dups(u) /\ Acceptable(u, m, U)
      BY <1>6, <2>2 DEF Dups, Acceptable
    <3> QED BY <3>2, <3>3
  <2>4. e = u
    BY <1>0, <1>4, <2>2
  <2> HIDE DEF e
  <2> DEFINE r == ReceivedAck(u, m, w)
  <2>5. Acked(u, r, m, U) /\ r.highRxAck = m.ack
    <3>1. m.ack <= u.highRxAck
      BY <2>1
    <3> QED BY <2>1, <2>3, <3>1, ReceivedAckWorks
  <2>6. p = r
    <3>1. ~ (m.ack < u.buf.first \/ u.highTx < m.ack)
      BY <1>0, <1>6, <2>2 DEF Acceptable
    <3> QED BY <2>4, <3>1 DEF ProcessEstablished
  <2> HIDE DEF r, p
  <2>7. r.persist = FALSE /\ Open(r)
    BY <1>0, <2>2, <2>5 DEF Acked, Open
  <2>8. t = r
    BY <1>3, <2>6, <2>7
  <2> HIDE DEF t
  <2>9. Acked(s, r, m, U)
    BY <2>2, <2>5 DEF Acked, Quiet, Timed, Ready
  <2> QED BY <2>7, <2>8, <2>9
<1> HIDE DEF t
<1> QED BY <1>1, <1>5, <1>6

(***************************************************************************)
(* The retransmission timer.                                               *)
(***************************************************************************)
\* All that is outstanding is lost, and nothing of it counts as resent.
LEMMA LostBoard ==
    ASSUME NEW b, Board(b), NEW sack \in BOOLEAN
    PROVE  LET r == IF sack THEN b ELSE ResetRenoSack(b)
               c == SetSentListLost(r, ~ sack)
           IN  /\ Board(c) /\ Reflagged(b, c) /\ With(c, "retrans") = {}
               /\ sack => SackedBytes(c) = SackedBytes(b)
               /\ ~ sack => With(c, "sacked") = {}
               /\ DOMAIN c.sent \subseteq With(c, "sacked") \cup With(c, "lost")
<1> DEFINE r == IF sack THEN b ELSE ResetRenoSack(b)
           c == SetSentListLost(r, ~ sack)
<1>0. Sound(b) /\ Exclusive(b) /\ Short(b) /\ Live(b) /\ b.first \notin With(b, "sacked")
  BY DEF Board
<1>1. /\ Sound(r) /\ Reflagged(b, r) /\ With(r, "lost") = With(b, "lost")
      /\ sack => r.highest = b.highest /\ With(r, "sacked") = With(b, "sacked")
  <2>1. CASE sack
    <3>1. Reflagged(b, b)
      BY <1>0 DEF Reflagged, Sound, Shape, Numbers, ItemsInPlace
    <3> QED BY <1>0, <2>1, <3>1
  <2>2. CASE ~ sack
    BY <1>0, <2>2, ResetRenoSackSound
  <2> QED BY <2>1, <2>2
<1> HIDE DEF r
<1>2. /\ Sound(c) /\ Reflagged(r, c)
      /\ c.highest = IF ~ sack THEN 0 ELSE r.highest
      /\ With(c, "sacked") = IF ~ sack THEN {} ELSE With(r, "sacked")
      /\ With(c, "lost") = With(r, "lost") \cup (DOMAIN r.sent \ With(c, "sacked"))
      /\ With(c, "retrans") = {}
  BY <1>1, SetSentListLostSound
<1> HIDE DEF c
<1>3. Reflagged(b, c)
  BY <1>1, <1>2, ReflaggedTwice
<1>4. c.first = b.first /\ Short(c) /\ DOMAIN c.sent = DOMAIN b.sent /\ DOMAIN r.sent = DOMAIN b.sent
  BY <1>0, <1>1, <1>3, ReflaggedSame
<1>5. With(c, "sacked") \subseteq With(b, "sacked")
  BY <1>1, <1>2
<1>6. Exclusive(c)
  BY <1>0, <1>1, <1>2, <1>5 DEF Exclusive
<1>7. Live(c) /\ c.first \notin With(c, "sacked")
  BY <1>0, <1>1, <1>2, <1>4, <1>5 DEF Live
<1>8. Board(c)
  BY <1>2, <1>4, <1>6, <1>7 DEF Board
<1>9. sack => SackedBytes(c) = SackedBytes(b)
  <2>1. With(b, "sacked") \in SUBSET DOMAIN b.sent
    BY DEF With
  <2> QED BY <1>1, <1>2, <1>3, <2>1, ReflaggedCovered DEF SackedBytes
<1>10. DOMAIN c.sent \subseteq With(c, "sacked") \cup With(c, "lost") /\ (~ sack => With(c, "sacked") = {})
  BY <1>2, <1>4
<1> QED BY <1>2, <1>3, <1>8, <1>9, <1>10 DEF c, r

\* What the expiry of the timer does.
Expires(s, t) ==
    /\ SockOK(t) /\ Dups(t)
    /\ t.sack = s.sack /\ t.highRxAck = s.highRxAck /\ t.rWnd = s.rWnd
    /\ \/ t.persist = s.persist /\ t.aborted = s.aborted
       \/ t.persist = FALSE /\ t.aborted = TRUE
    /\ t.buf.first = s.buf.first /\ s.highTx <= t.highTx
    /\ Within(s, t) /\ (Ready(s) => Ready(t))
    /\ s.sack => SackedBytes(t.buf) \subseteq SackedBytes(s.buf)
    /\ Quiet(s, t)
    /\ NoDelay /\ SegmentSize <= s.rWnd => Timed(t)

LEMMA TimedOutWorks ==
    ASSUME NEW s, SockOK(s), s.retrCount > 0
    PROVE  LET t == TimedOut(s)
           IN  /\ SockOK(t) /\ Dups(t) /\ t.sack = s.sack /\ t.buf.first = s.buf.first
               /\ t.highTx = s.highTx /\ t.failed = s.failed /\ t.aborted = s.aborted
               /\ t.nextTx = s.nextTx /\ t.highRxAck = s.highRxAck /\ t.rWnd = s.rWnd
               /\ t.persist = s.persist
               /\ s.sack => SackedBytes(t.buf) \subseteq SackedBytes(s.buf)
               /\ t.cWnd = SegmentSize /\ t.congState = "CA_LOSS"
               /\ t.buf.size = s.buf.size /\ BytesInFlight(t.buf) = 0
               /\ With(t.buf, "retrans") = {} /\ t.buf.sentSize = s.buf.sentSize
               /\ DOMAIN t.buf.sent \subseteq With(t.buf, "sacked") \cup With(t.buf, "lost")
<1> DEFINE r == IF s.sack THEN s ELSE [s EXCEPT !.buf = ResetRenoSack(@)]
           rb == IF s.sack THEN s.buf ELSE ResetRenoSack(s.buf)
           c == SetSentListLost(rb, ~ s.sack)
           t == [r EXCEPT !.buf = SetSentListLost(@, ~ s.sack),
                  !.dupAckCount = 0,
                  !.recover = s.highTx,
                  !.recoverActive = TRUE,
                  !.congState = "CA_LOSS",
                  !.cWnd = SegmentSize,
                  !.retrCount = @ - 1]
           F == {"buf", "dupAckCount", "recover", "recoverActive", "congState", "cWnd", "retrCount"}
<1>0. DOMAIN s = SocketField /\ Half(s) /\ Typed(s) /\ Board(s.buf) /\ s.sack \in BOOLEAN
  BY SenderAssumption DEF SockOK, Half, Typed
<1>1. TimedOut(s) = t
  BY Zenon DEF TimedOut
<1>2. DOMAIN r = SocketField /\ r.buf = rb /\ r.retrCount = s.retrCount
      /\ \A f \in SocketField \ {"buf"} : r[f] = s[f]
  <2> HIDE DEF rb
  <2>1. CASE s.sack
    BY <1>0, <2>1 DEF rb, SocketField
  <2>2. CASE ~ s.sack
    <3>1. r = [s EXCEPT !.buf = ResetRenoSack(@)] /\ rb = ResetRenoSack(s.buf)
      BY <2>2 DEF rb
    <3> HIDE DEF r
    <3> QED BY <1>0, <3>1 DEF SocketField
  <2> QED BY <2>1, <2>2
<1> HIDE DEF r, rb
<1>3. /\ SameBut(s, t, F) /\ t.buf = c /\ t.dupAckCount = 0 /\ t.recover = s.highTx
      /\ t.recoverActive = TRUE /\ t.congState = "CA_LOSS" /\ t.cWnd = SegmentSize
      /\ t.retrCount = s.retrCount - 1
  BY <1>2 DEF SameBut, SocketField
<1> HIDE DEF t
<1>4. /\ Board(c) /\ Reflagged(s.buf, c) /\ With(c, "retrans") = {}
      /\ s.sack => SackedBytes(c) = SackedBytes(s.buf)
      /\ ~ s.sack => With(c, "sacked") = {}
      /\ DOMAIN c.sent \subseteq With(c, "sacked") \cup With(c, "lost")
  BY <1>0, LostBoard DEF rb
<1> HIDE DEF c
<1>5. /\ c.first = s.buf.first /\ c.sentSize = s.buf.sentSize /\ SentEnd(c) = SentEnd(s.buf)
      /\ c.size = s.buf.size
  BY <1>4, ReflaggedSame
<1>6. /\ t.sack = s.sack /\ t.nextTx = s.nextTx /\ t.highTx = s.highTx
      /\ t.isFirstPartialAck = s.isFirstPartialAck /\ t.notProcessed = s.notProcessed
      /\ t.retx = s.retx /\ t.aborted = s.aborted
      /\ t.sendPending = s.sendPending /\ t.failed = s.failed /\ DOMAIN t = SocketField
  BY <1>3 DEF SameBut, SocketField
<1>7. Kept(s, t) /\ t.highRxAck = s.highRxAck /\ t.rWnd = s.rWnd /\ t.persist = s.persist
  BY <1>3 DEF SameBut, SocketField, Kept, KeptField
<1>8. s.highTx \in Nat /\ s.highTx = SentEnd(c) /\ Shape(c)
  BY <1>0, <1>4, <1>5, BufferNumbers DEF Half, Board, Sound
<1>9. Typed(t)
  <2>1. t.retrCount \in 0 .. DataRetries
    BY <1>0, <1>3, SenderAssumption DEF Typed
  <2>2. t.cWnd \in Windows /\ t.congState \in CongState /\ t.recoverActive \in BOOLEAN
        /\ t.dupAckCount \in Nat /\ t.recover \in Nat
    <3>1. SegmentSize \in Windows
      BY SenderAssumption, Zenon
    <3>2. "CA_LOSS" \in CongState
      BY DEF CongState
    <3>3. t.cWnd \in Windows /\ t.congState \in CongState /\ t.recoverActive \in BOOLEAN
      BY <1>3, <3>1, <3>2, Zenon
    <3>4. t.dupAckCount = 0 /\ t.recover = s.highTx
      BY <1>3
    <3> QED BY <1>8, <3>3, <3>4
  <2> QED BY <1>0, <1>6, <2>1, <2>2 DEF Typed
<1>10. Guess(t)
  <2>1. \A x \in LostBytes(c) : x < s.highTx
    <3> SUFFICES ASSUME NEW x \in LostBytes(c) PROVE x < s.highTx
      OBVIOUS
    <3>1. PICK k \in With(c, "lost") : x < EndOf(c, k)
      BY DEF LostBytes, Covered
    <3>2. x \in Int /\ EndOf(c, k) \in Int /\ EndOf(c, k) <= SentEnd(c)
      BY <1>8, ItemNumbers, TxStreamAssumption DEF LostBytes, Covered, Byte, With
    <3> QED BY <1>8, <3>1, <3>2
  <2> QED BY <1>3, <1>4, <1>6, <2>1 DEF Guess
<1>11. t.recover <= t.highTx /\ (Timed(s) => Timed(t))
  BY <1>3, <1>5, <1>6, <1>8 DEF Timed
<1>12. SockOK(t)
  BY <1>0, <1>3, <1>4, <1>5, <1>6, <1>7, <1>9, <1>10, <1>11, Altered
<1>13. Dups(t)
  BY <1>3, TxThreshAssumption DEF Dups
<1>14. BytesInFlight(t.buf) = 0
  BY <1>3, <1>4, NoneInFlight DEF Board
<1> QED BY <1>1, <1>3, <1>4, <1>5, <1>6, <1>7, <1>12, <1>13, <1>14

LEMMA ReTxTimeoutWorks ==
    ASSUME NEW s, SockOK(s), Dups(s), ~ s.aborted
    PROVE  Expires(s, ReTxTimeoutOf(s))
<1> DEFINE x == [s EXCEPT !.retx = FALSE]
           lost == TimedOut(x)
           k == Check(lost, "in flight after the timeout", BytesInFlight(lost.buf) = 0)
           sent == SendPendingData(k)
           last == Check(sent, "more than a segment after the timeout",
                         BytesInFlight(sent.buf) <= SegmentSize)
           gone == DeallocateEndPoint(x)
           t == ReTxTimeoutOf(s)
<1>1. t = IF s.buf.size = 0 THEN x
          ELSE IF s.retrCount = 0 THEN gone ELSE last
  BY Zenon DEF ReTxTimeoutOf
<1>0. /\ DOMAIN s = SocketField /\ Half(s) /\ Typed(s) /\ Board(s.buf) /\ Shape(s.buf)
      /\ s.highTx \in Nat
  BY BufferNumbers DEF SockOK, Half, Typed, Board, Sound
<1>2. SameBut(s, x, {"retx"}) /\ x.retx = FALSE
  BY <1>0 DEF SameBut, SocketField
<1> HIDE DEF x
<1>3. /\ x.sack = s.sack /\ x.buf = s.buf /\ x.congState = s.congState /\ x.recover = s.recover
      /\ x.aborted = s.aborted /\ x.highTx = s.highTx /\ x.retrCount = s.retrCount
      /\ x.recoverActive = s.recoverActive /\ x.dupAckCount = s.dupAckCount
      /\ DOMAIN x = SocketField /\ x.highRxAck = s.highRxAck /\ x.rWnd = s.rWnd
      /\ x.persist = s.persist /\ x.out = s.out /\ x.failed = s.failed /\ x.nextTx = s.nextTx
  BY <1>2 DEF SameBut, SocketField
<1>4. SockOK(x) /\ Dups(x)
  <2>1. Typed(x)
    BY <1>0, <1>2 DEF Typed, SameBut, SocketField
  <2> QED BY <1>0, <1>3, <2>1 DEF SockOK, Half, Guess, Leaving, Dups
<1>5. s.highTx <= s.highTx
  BY <1>0
<1> HIDE DEF t
<1>6. CASE s.buf.size = 0
  <2>1. Timed(x)
    <3>1. ~ (s.buf.sentSize > 0)
      BY <1>0, <1>6, BufferNumbers
    <3> QED BY <1>3, <3>1 DEF Timed
  <2>2. Expires(s, x)
    BY <1>3, <1>4, <1>5, <2>1 DEF Expires, Quiet, Within, Ready
  <2>3. t = x
    BY <1>1, <1>6
  <2> QED BY <2>2, <2>3 DEF t
<1>7. CASE s.buf.size # 0 /\ s.retrCount = 0
  <2>1. /\ SameBut(x, gone, {"aborted", "retx", "persist", "sendPending"})
        /\ gone.aborted = TRUE /\ gone.retx = FALSE /\ gone.persist = FALSE /\ gone.sendPending = FALSE
    BY <1>3 DEF DeallocateEndPoint, SameBut, SocketField
  <2>2. t = gone
    BY <1>1, <1>7
  <2> HIDE DEF gone
  <2>3. /\ gone.sack = x.sack /\ gone.buf = x.buf /\ gone.congState = x.congState
        /\ gone.recover = x.recover /\ gone.highTx = x.highTx
        /\ gone.recoverActive = x.recoverActive /\ gone.dupAckCount = x.dupAckCount
        /\ gone.highRxAck = x.highRxAck /\ gone.rWnd = x.rWnd
        /\ gone.out = x.out /\ gone.failed = x.failed /\ gone.nextTx = x.nextTx
    BY <2>1 DEF SameBut, SocketField
  <2>4. Typed(gone)
    <3>1. Typed(x)
      BY <1>4 DEF SockOK, Half
    <3> QED BY <2>1, <3>1 DEF Typed, SameBut, SocketField
  <2>5. SockOK(gone) /\ Dups(gone)
    BY <1>4, <2>1, <2>3, <2>4 DEF SockOK, Half, Guess, Leaving, Dups
  <2>6. Expires(s, gone)
    BY <1>3, <1>5, <2>1, <2>3, <2>5 DEF Expires, Quiet, Timed, Within, Ready
  <2> QED BY <2>2, <2>6 DEF t
<1>8. CASE s.buf.size # 0 /\ s.retrCount # 0
  <2>1. t = last
    BY <1>1, <1>8
  <2>2. /\ SockOK(lost) /\ Dups(lost) /\ lost.sack = x.sack /\ lost.buf.first = x.buf.first
        /\ lost.highTx = x.highTx /\ lost.failed = x.failed /\ lost.aborted = x.aborted
        /\ x.sack => SackedBytes(lost.buf) \subseteq SackedBytes(x.buf)
        /\ lost.cWnd = SegmentSize /\ lost.congState = "CA_LOSS"
        /\ lost.buf.size = x.buf.size /\ BytesInFlight(lost.buf) = 0
        /\ With(lost.buf, "retrans") = {} /\ lost.buf.sentSize = x.buf.sentSize
        /\ DOMAIN lost.buf.sent \subseteq With(lost.buf, "sacked") \cup With(lost.buf, "lost")
        /\ lost.nextTx = x.nextTx /\ lost.highRxAck = x.highRxAck /\ lost.rWnd = x.rWnd
        /\ lost.persist = x.persist
    <3>1. x.retrCount > 0
      BY <1>0, <1>3, <1>8, SenderAssumption DEF Typed
    <3> QED BY <1>4, <3>1, TimedOutWorks
  <2> HIDE DEF lost
  <2>3. k = lost
    BY <2>2 DEF Check
  <2> HIDE DEF k
  <2>4. Sends(lost, sent) /\ (~ Held(lost) => sent.retx)
    <3>1. lost.buf.size # 0 /\ ~ lost.aborted
      BY <1>3, <1>8, <2>2
    <3> QED BY <2>2, <2>3, <3>1, SendPendingDataSends
  <2> HIDE DEF sent
  <2>5. last = sent
    <3>1. BytesInFlight(sent.buf) <= SegmentSize
      BY <2>2, <2>4, TxSegmentAssumption DEF Sends
    <3> QED BY <3>1 DEF Check
  <2> HIDE DEF last
  <2>6. SockOK(sent) /\ Dups(sent) /\ Works(lost, sent)
    BY <2>2, <2>4, DupsSame DEF Sends
  <2>7. NoDelay /\ SegmentSize <= s.rWnd => Timed(sent)
    <3> SUFFICES ASSUME NoDelay, SegmentSize <= s.rWnd PROVE Timed(sent)
      OBVIOUS
    <3>1. CASE ~ (lost.buf.sentSize > 0)
      <4>1. Timed(lost)
        BY <3>1 DEF Timed
      <4> QED BY <2>6, <4>1 DEF Works
    <3>2. CASE lost.buf.sentSize > 0
      <4>1. Board(lost.buf) /\ SegmentSize <= AvailableWindow(lost) /\ AvailableWindow(lost) \in Nat
            /\ lost.rWnd \in Nat
        <5>1. Board(lost.buf) /\ SegmentSize <= lost.cWnd
          BY <2>2, TxSegmentAssumption DEF SockOK, Half
        <5>2. /\ AvailableWindow(lost) \in Nat /\ lost.rWnd \in Nat
              /\ BytesInFlight(lost.buf) = 0 /\ SegmentSize <= lost.cWnd /\ SegmentSize <= lost.rWnd
                   => SegmentSize <= AvailableWindow(lost)
          BY <2>2, WindowIsRoom
        <5>3. SegmentSize <= lost.rWnd
          BY <1>3, <2>2
        <5> QED BY <2>2, <5>1, <5>2, <5>3
      <4>2. lost.buf.first \in With(lost.buf, "lost") \ With(lost.buf, "retrans")
        BY <2>2, <3>2, <4>1, HeadResends DEF Resends, With
      <4> DEFINE next == NextOf(lost)
      <4>3. FindsItem(lost.buf, next)
        <5>1. (lost.sack /\ lost.congState = "CA_RECOVERY") \in BOOLEAN
          OBVIOUS
        <5> QED BY <4>1, <4>2, <5>1, NextSegFinds DEF NextOf
      <4>4. ~ FindsItem(lost.buf, NoSeg)
        <5>1. Shape(lost.buf)
          BY <4>1 DEF Board, Sound
        <5> QED BY <5>1, ItemNumbers DEF FindsItem, Resends, NoSeg
      <4>5. next # NoSeg
        BY <4>3, <4>4
      <4> HIDE DEF next
      <4>6. AvailableWindow(lost) # 0 /\ ~ (AvailableWindow(lost) < SegmentSize)
        BY <4>1, TxSegmentAssumption
      <4>7. ~ Held(lost)
        BY <4>5, <4>6, Zenon DEF Held, SillyWindow, Nagle, next
      <4> QED BY <2>4, <4>7 DEF Timed
    <3> QED BY <3>1, <3>2
  <2>8. Expires(s, sent)
    <3>1. Ready(s) => Ready(lost)
      BY <1>3, <2>2 DEF Ready
    <3>2. Within(s, sent)
      BY <1>3, <2>2, <2>6 DEF Works, Within
    <3> QED BY <1>3, <2>2, <2>6, <2>7, <3>1, <3>2 DEF Expires, Works, Quiet
  <2> QED BY <2>1, <2>5, <2>8 DEF t
<1> QED BY <1>6, <1>7, <1>8

(***************************************************************************)
(* The network: what a bag holds after messages join it and leave it.      *)
(***************************************************************************)
LEMMA BagFacts ==
    /\ DOMAIN EmptyBag = {}
    /\ \A B, m : BagIn(m, B) => m \in DOMAIN B
    /\ \A B, m : DOMAIN (B (+) SetToBag({m})) = DOMAIN B \cup {m}
    /\ \A B, m : DOMAIN (B (-) SetToBag({m})) \subseteq DOMAIN B
<1>1. DOMAIN EmptyBag = {}
  BY DEF EmptyBag, SetToBag
<1>2. ASSUME NEW B, NEW m, BagIn(m, B) PROVE m \in DOMAIN B
  BY <1>2 DEF BagIn, BagToSet
<1>3. ASSUME NEW B, NEW m PROVE DOMAIN (B (+) SetToBag({m})) = DOMAIN B \cup {m}
  BY DEF (+), SetToBag
<1>4. ASSUME NEW B, NEW m PROVE DOMAIN (B (-) SetToBag({m})) \subseteq DOMAIN B
  BY DEF (-), SetToBag
<1> QED BY <1>1, <1>2, <1>3, <1>4, Zenon

\* The messages of ms join one after the other, up to the room there is.
PutUpTo(m, f, bag, ms, room) ==
    f = [n \in 0 .. m |-> IF n = 0 THEN bag
                          ELSE IF n <= room THEN f[n - 1] (+) SetToBag({ms[n]}) ELSE f[n - 1]]

LEMMA PutExists ==
    ASSUME NEW bag, NEW ms, NEW room, NEW N \in Nat
    PROVE  \E f : PutUpTo(N, f, bag, ms, room)
<1> DEFINE S == {m \in 0 .. N : \E f : PutUpTo(m, f, bag, ms, room)}
           T(b, n) == IF n <= room THEN b (+) SetToBag({ms[n]}) ELSE b
<1>1. 0 \in S
  <2> DEFINE f == [n \in 0 .. 0 |-> bag]
  <2>1. f = [n \in 0 .. 0 |-> IF n = 0 THEN bag ELSE T(f[n - 1], n)]
    <3> HIDE DEF T
    <3> QED OBVIOUS
  <2> HIDE DEF f
  <2> QED BY <2>1 DEF PutUpTo
<1>2. ASSUME NEW m \in 0 .. (N - 1), m \in S PROVE m + 1 \in S
  <2>1. PICK f : PutUpTo(m, f, bag, ms, room)
    BY <1>2
  <2>a. \A n \in 0 .. m : f[n] = IF n = 0 THEN bag ELSE T(f[n - 1], n)
    BY <2>1, Zenon DEF PutUpTo
  <2> DEFINE g == [n \in 0 .. (m + 1) |-> IF n <= m THEN f[n] ELSE T(f[m], n)]
  <2> HIDE DEF T
  <2>2. \A n \in 0 .. m : g[n] = f[n]
    OBVIOUS
  <2>3. g[m + 1] = T(f[m], m + 1)
    OBVIOUS
  <2>5. DOMAIN g = 0 .. (m + 1) /\ g = [n \in DOMAIN g |-> g[n]]
    OBVIOUS
  <2> HIDE DEF g
  <2>6. ASSUME NEW n \in 0 .. (m + 1)
        PROVE  g[n] = IF n = 0 THEN bag ELSE T(g[n - 1], n)
    <3>1. n = 0 \/ n - 1 \in 0 .. m
      OBVIOUS
    <3>2. n = m + 1 \/ n \in 0 .. m
      OBVIOUS
    <3> QED BY <3>1, <3>2, <2>2, <2>3, <2>a
  <2>7. g = [n \in 0 .. (m + 1) |-> IF n = 0 THEN bag ELSE T(g[n - 1], n)]
    BY <2>5, <2>6
  <2>8. PutUpTo(m + 1, g, bag, ms, room)
    BY <2>7, Zenon DEF PutUpTo, T
  <2> QED BY <2>8
<1>3. N \in S
  <2> HIDE DEF S
  <2>1. \A i \in 0 .. N : i \in S
    BY <1>1, <1>2, UpTo
  <2> QED BY <2>1
<1> QED BY <1>3, Zenon

PutOf(bag, ms, room) ==
    CHOOSE f : f = [n \in 0 .. Len(ms) |->
                      IF n = 0 THEN bag
                      ELSE IF n <= room THEN f[n - 1] (+) SetToBag({ms[n]}) ELSE f[n - 1]]

\* Enqueue puts nothing into the bag but the messages it was given.
LEMMA EnqueueHolds ==
    ASSUME NEW bag, NEW ms, Len(ms) \in Nat
    PROVE  \A x \in DOMAIN Enqueue(bag, ms) : x \in DOMAIN bag \/ \E i \in 1 .. Len(ms) : x = ms[i]
<1> DEFINE room == Max({0, NetCapacity - BagCardinality(bag)})
           f == PutOf(bag, ms, room)
           N == Len(ms)
           T(b, n) == IF n <= room THEN b (+) SetToBag({ms[n]}) ELSE b
<1>1. Enqueue(bag, ms) = f[N]
  BY Zenon DEF Enqueue, PutOf
<1>2. \E h : PutUpTo(N, h, bag, ms, room)
  <2> HIDE DEF room
  <2> QED BY PutExists
<1>3. PutUpTo(N, f, bag, ms, room)
  <2> HIDE DEF room
  <2> QED BY <1>2, Zenon DEF PutUpTo, PutOf
<1>4. \A n \in 0 .. N : f[n] = IF n = 0 THEN bag ELSE T(f[n - 1], n)
  <2> HIDE DEF room, f
  <2> QED BY <1>3, Zenon DEF PutUpTo
<1>5. \A b, n : DOMAIN T(b, n) \subseteq DOMAIN b \cup {ms[n]}
  <2> HIDE DEF room
  <2> QED BY BagFacts, Zenon
<1> DEFINE M == {ms[i] : i \in 1 .. N}
           S == {n \in 0 .. N : DOMAIN f[n] \subseteq DOMAIN bag \cup M}
<1> HIDE DEF room, f, T
<1>6. 0 \in S
  BY <1>4
<1>7. ASSUME NEW i \in 0 .. (N - 1), i \in S PROVE i + 1 \in S
  <2>1. i + 1 \in 0 .. N /\ i + 1 # 0 /\ (i + 1) - 1 = i /\ i + 1 \in 1 .. N
    OBVIOUS
  <2>2. f[i + 1] = T(f[i], i + 1)
    BY <1>4, <2>1
  <2>3. ms[i + 1] \in M
    BY <2>1
  <2>4. DOMAIN f[i + 1] \subseteq DOMAIN f[i] \cup {ms[i + 1]}
    BY <1>5, <2>2, Zenon
  <2>5. DOMAIN f[i] \subseteq DOMAIN bag \cup M
    BY <1>7
  <2> QED BY <2>1, <2>3, <2>4, <2>5
<1>8. N \in S
  <2> HIDE DEF S
  <2>1. \A i \in 0 .. N : i \in S
    BY <1>6, <1>7, UpTo
  <2> QED BY <2>1
<1> QED BY <1>1, <1>8

\* The first byte the receiver misses.
LEMMA FirstMissingIs ==
    ASSUME NEW R \in SUBSET Byte
    PROVE  /\ FirstMissing(R) \in 1 .. (StreamLen + 1) /\ FirstMissing(R) \notin R
           /\ 1 .. (FirstMissing(R) - 1) \subseteq R
<1> DEFINE T == (1 .. (StreamLen + 1)) \ R
<1>0. StreamLen \in Nat
  BY TxStreamAssumption
<1>1. T \in SUBSET Nat /\ StreamLen + 1 \in T
  BY <1>0 DEF Byte
<1>2. FirstMissing(R) = Min(T)
  BY Zenon DEF FirstMissing
<1>3. Min(T) \in T /\ \A y \in T : Min(T) <= y
  <2> HIDE DEF T
  <2> QED BY <1>1, MinOfNaturals
<1> QED BY <1>0, <1>2, <1>3

\* Ranking a finite set by distinct keys gives every rank.
LEMMA EveryRank ==
    ASSUME NEW B, IsFiniteSet(B), NEW key, \A k \in B : key[k] \in Int,
           \A j, k \in B : key[j] = key[k] => j = k
    PROVE  \A i \in 1 .. Cardinality(B) :
              \E k \in B : Cardinality({j \in B : key[j] >= key[k]}) = i
<1> DEFINE above(k) == {j \in B : key[j] >= key[k]}
           N == Cardinality(B)
           f == [k \in B |-> Cardinality(above(k))]
<1>1. ASSUME NEW k \in B
      PROVE  IsFiniteSet(above(k)) /\ Cardinality(above(k)) \in 1 .. N
  <2>1. above(k) \in SUBSET B /\ k \in above(k)
    OBVIOUS
  <2> HIDE DEF above
  <2>2. IsFiniteSet(above(k)) /\ Cardinality(above(k)) <= N
    BY <2>1, FS_Subset
  <2>3. Cardinality(above(k)) \in Nat /\ N \in Nat
    BY <2>2, FS_CardinalityType
  <2>4. Cardinality(above(k)) # 0
    BY <2>1, <2>2, FS_EmptySet
  <2> QED BY <2>2, <2>3, <2>4
<1>2. ASSUME NEW j \in B, NEW k \in B, key[j] > key[k]
      PROVE  Cardinality(above(j)) < Cardinality(above(k))
  <2>0. key[j] \in Int /\ key[k] \in Int /\ \A x \in B : key[x] \in Int
    OBVIOUS
  <2>1. above(j) \in SUBSET above(k) /\ k \in above(k) /\ k \notin above(j)
    BY <1>2, <2>0
  <2>2. IsFiniteSet(above(k)) /\ Cardinality(above(j)) \in 1 .. N /\ Cardinality(above(k)) \in 1 .. N
    BY <1>1, Zenon
  <2> HIDE DEF above
  <2>3. Cardinality(above(j)) <= Cardinality(above(k)) /\ Cardinality(above(j)) # Cardinality(above(k))
    BY <2>1, <2>2, FS_Subset
  <2> QED BY <2>2, <2>3, FS_CardinalityType
<1> HIDE DEF above
<1>3. f \in [B -> 1 .. N]
  BY <1>1
<1>4. ASSUME NEW j \in B, NEW k \in B, f[j] = f[k] PROVE j = k
  <2>1. key[j] \in Int /\ key[k] \in Int
    OBVIOUS
  <2>2. Cardinality(above(j)) = Cardinality(above(k)) /\ Cardinality(above(j)) \in 1 .. N
    BY <1>1, <1>4
  <2>3. ~ (key[j] > key[k]) /\ ~ (key[k] > key[j])
    BY <1>2, <2>2, FS_CardinalityType
  <2> QED BY <2>1, <2>3
<1>5. f \in Injection(B, 1 .. N)
  BY <1>3, <1>4, Zenon DEF Injection, IsInjective
<1>6. IsFiniteSet(1 .. N) /\ Cardinality(1 .. N) = N
  BY FS_CardinalityType, FS_Interval
<1>7. f \in Surjection(B, 1 .. N)
  <2> HIDE DEF f
  <2> QED BY <1>5, <1>6, FS_Injection
<1>8. \A i \in 1 .. N : \E k \in B : f[k] = i
  BY <1>7 DEF Surjection
<1> QED BY <1>8 DEF above

\* The blocks of the receiver are finitely many, and apart.
LEMMA BlocksApart ==
    ASSUME NEW R \in SUBSET Byte
    PROVE  /\ IsFiniteSet(BlocksOf(R))
           /\ \A k \in BlocksOf(R) :
                 /\ k \in Block /\ FirstMissing(R) < k.first /\ k.first < k.second
                 /\ k.first \in R /\ k.first <= StreamLen
                 /\ \A x \in Int : k.first <= x /\ x < k.second => x \in R
           /\ \A j, k \in BlocksOf(R), x \in Int :
                 /\ j.first <= x /\ x < j.second /\ k.first <= x /\ x < k.second
                 => j = k
<1> DEFINE B == BlocksOf(R)
           Rec == [first : Byte, second : 2 .. (StreamLen + 1)]
<1>0. StreamLen \in Nat
  BY TxStreamAssumption
<1>a. \A k \in Rec : k \in Block /\ k.first \in Byte /\ k.second \in 2 .. (StreamLen + 1)
  BY <1>0 DEF Block, Byte
<1>b. \A j, k \in Rec : j.first = k.first /\ j.second = k.second => j = k
  OBVIOUS
<1>c. \A k \in B : /\ k \in Rec /\ FirstMissing(R) < k.first /\ k.first < k.second
                   /\ \A x \in k.first .. (k.second - 1) : x \in R
                   /\ k.first - 1 \notin R /\ k.second \notin R
  BY DEF BlocksOf
<1> HIDE DEF B, Rec
<1>1. ASSUME NEW k \in B
      PROVE  /\ k \in Block /\ FirstMissing(R) < k.first /\ k.first < k.second
             /\ k.first \in R /\ k.first <= StreamLen
             /\ \A x \in Int : k.first <= x /\ x < k.second => x \in R
             /\ k.first \in Byte /\ k.second \in Int /\ k.first - 1 \notin R /\ k.second \notin R
  <2>1. k \in Block /\ k.first \in Byte /\ k.second \in Int
    BY <1>0, <1>a, <1>c
  <2>2. k.first < k.second /\ \A x \in k.first .. (k.second - 1) : x \in R
    BY <1>c
  <2> HIDE DEF B
  <2>3. \A x \in Int : k.first <= x /\ x < k.second => x \in R
    BY <1>0, <2>1, <2>2 DEF Byte
  <2>4. k.first \in Int /\ k.first <= StreamLen
    BY <1>0, <2>1 DEF Byte
  <2> QED BY <1>c, <2>1, <2>2, <2>3, <2>4
<1>2. ASSUME NEW j \in B, NEW k \in B, NEW x \in Int,
             j.first <= x, x < j.second, k.first <= x, x < k.second
      PROVE  j = k
  <2>0. j.first \in Int /\ j.second \in Int /\ k.first \in Int /\ k.second \in Int
    BY <1>0, <1>1 DEF Byte
  <2>1. ~ (j.first < k.first)
    <3>1. SUFFICES ASSUME j.first < k.first PROVE FALSE
      OBVIOUS
    <3>2. k.first - 1 \in Int /\ j.first <= k.first - 1 /\ k.first - 1 < j.second
      BY <1>2, <2>0, <3>1
    <3> QED BY <1>1, <3>2
  <2>2. ~ (k.first < j.first)
    <3>1. SUFFICES ASSUME k.first < j.first PROVE FALSE
      OBVIOUS
    <3>2. j.first - 1 \in Int /\ k.first <= j.first - 1 /\ j.first - 1 < k.second
      BY <1>2, <2>0, <3>1
    <3> QED BY <1>1, <3>2
  <2>3. ~ (j.second < k.second)
    <3>1. SUFFICES ASSUME j.second < k.second PROVE FALSE
      OBVIOUS
    <3>2. k.first <= j.second
      BY <1>2, <2>0
    <3> QED BY <1>1, <2>0, <3>1, <3>2
  <2>4. ~ (k.second < j.second)
    <3>1. SUFFICES ASSUME k.second < j.second PROVE FALSE
      OBVIOUS
    <3>2. j.first <= k.second
      BY <1>2, <2>0
    <3> QED BY <1>1, <2>0, <3>1, <3>2
  <2>5. j.first = k.first /\ j.second = k.second
    BY <2>0, <2>1, <2>2, <2>3, <2>4
  <2> QED BY <1>b, <1>c, <2>5
<1>3. IsFiniteSet(B)
  <2> DEFINE f == [k \in B |-> k.first]
  <2>1. f \in [B -> Byte]
    BY <1>1
  <2>2. ASSUME NEW j \in B, NEW k \in B, f[j] = f[k] PROVE j = k
    <3>1. j.first = k.first /\ j.first \in Int /\ j.first < j.second /\ k.first < k.second
      BY <1>0, <1>1, <2>2 DEF Byte
    <3>2. j.first <= j.first
      BY <3>1
    <3> QED BY <1>2, <3>1, <3>2
  <2>3. f \in Injection(B, Byte)
    BY <2>1, <2>2, Zenon DEF Injection, IsInjective
  <2>4. IsFiniteSet(Byte)
    BY <1>0, FS_Interval DEF Byte
  <2> HIDE DEF f
  <2> QED BY <2>3, <2>4, FS_Injection
<1> QED BY <1>1, <1>2, <1>3 DEF B

\* The SACK option lists blocks of the receiver.
LEMMA SackListIs ==
    ASSUME NEW R \in SUBSET Byte, NEW x \in Int
    PROVE  /\ SackList(R, x) \in Seq(Block)
           /\ \A i \in 1 .. Len(SackList(R, x)) : SackList(R, x)[i] \in BlocksOf(R)
           /\ ~ snd.sack => SackList(R, x) = << >>
<1> DEFINE B == BlocksOf(R)
           newest == {k \in B : k.first <= x /\ x < k.second}
           key == [k \in B |-> IF k \in newest THEN StreamLen + 2 ELSE k.first]
           rank(k) == Cardinality({j \in B : key[j] >= key[k]})
           list == [i \in 1 .. Cardinality(B) |-> CHOOSE k \in B : rank(k) = i]
           Bl == Block
<1>0. StreamLen \in Nat
  BY TxStreamAssumption
<1>1. IsFiniteSet(B) /\ B \subseteq Bl /\ \A k \in B : k.first \in Int /\ k.first <= StreamLen /\ k.first < k.second
  <2>1. \A k \in B : k \in Block => k.first \in Int
    BY DEF Block
  <2> QED BY <2>1, BlocksApart
<1>2. \A k \in B : key[k] \in Int
  BY <1>0, <1>1
<1>3. ASSUME NEW j \in B, NEW k \in B, key[j] = key[k] PROVE j = k
  <2>1. CASE j \in newest
    <3>1. k \in newest
      BY <1>0, <1>1, <1>3, <2>1
    <3>2. j.first <= x /\ x < j.second /\ k.first <= x /\ x < k.second
      BY <2>1, <3>1
    <3> QED BY <3>2, BlocksApart
  <2>2. CASE j \notin newest
    <3>1. k \notin newest
      BY <1>0, <1>1, <1>3, <2>2
    <3>2. j.first = k.first
      BY <1>3, <2>2, <3>1
    <3>3. j.first \in Int /\ j.first <= j.first /\ j.first < j.second /\ k.first <= j.first /\ j.first < k.second
      BY <1>1, <3>2
    <3> QED BY <3>3, BlocksApart
  <2> QED BY <2>1, <2>2
<1>4. \A i \in 1 .. Cardinality(B) : \E k \in B : rank(k) = i
  <2> HIDE DEF key, B
  <2> QED BY <1>1, <1>2, <1>3, EveryRank
<1>5. Cardinality(B) \in Nat
  BY <1>1, FS_CardinalityType
<1>6. SackList(R, x) = IF snd.sack THEN list ELSE << >>
  <2> DEFINE nkey(k) == IF k \in newest THEN StreamLen + 2 ELSE k.first
             nrank(k) == Cardinality({j \in B : nkey(j) >= nkey(k)})
             nlist == [i \in 1 .. Cardinality(B) |-> CHOOSE k \in B : nrank(k) = i]
  <2>1. SackList(R, x) = IF snd.sack THEN nlist ELSE << >>
    BY Zenon DEF SackList
  <2>2. \A k \in B : key[k] = nkey(k)
    <3> HIDE DEF B, newest
    <3> QED OBVIOUS
  <2> HIDE DEF B, newest, key, nkey
  <2>3. \A k \in B : {j \in B : nkey(j) >= nkey(k)} = {j \in B : key[j] >= key[k]}
    BY <2>2
  <2>4. \A k \in B : rank(k) = nrank(k)
    BY <2>3
  <2> HIDE DEF rank, nrank
  <2>5. \A i : (CHOOSE k \in B : rank(k) = i) = (CHOOSE k \in B : nrank(k) = i)
    BY <2>4
  <2>6. list = nlist
    BY <2>5
  <2> QED BY <2>1, <2>6
<1> HIDE DEF B, key, rank
<1>7. list \in [1 .. Cardinality(B) -> B] /\ \A i \in 1 .. Cardinality(B) : list[i] \in B
  BY <1>4
<1> HIDE DEF list, Bl
<1>8. list \in Seq(Bl) /\ Len(list) = Cardinality(B)
  BY <1>1, <1>5, <1>7
<1>9. << >> \in Seq(Bl) /\ Len(<< >>) = 0
  OBVIOUS
<1>10. \A i \in 1 .. Len(SackList(R, x)) : SackList(R, x)[i] \in B
  BY <1>5, <1>6, <1>7, <1>8, <1>9
<1>11. SackList(R, x) \in Seq(Bl)
  BY <1>6, <1>8, <1>9
<1> QED BY <1>6, <1>10, <1>11 DEF B, Bl

(***************************************************************************)
(* The invariant of the sender, the network and the receiver.              *)
(***************************************************************************)
\* The bytes of the SACK blocks of m.
Blocks(m) == {x \in Int : \E i \in 1 .. Len(m.sack) : m.sack[i].first <= x /\ x < m.sack[i].second}

\* An ACK tells of bytes the receiver has: all below m.ack and those of its blocks,
\* which lie above m.ack.
Receipt(s, m, R) ==
    /\ m.ack \in Nat /\ 1 <= m.ack /\ m.wnd = RcvBufSize
    /\ 1 .. (m.ack - 1) \subseteq R
    /\ m.sack \in Seq(Block)
    /\ \A i \in 1 .. Len(m.sack) : m.ack < m.sack[i].first
    /\ Blocks(m) \subseteq R
    /\ m.sack # << >> => s.sack /\ \E x \in R : m.ack < x

\* The ACKs A in flight, the bytes R the receiver has, and what the sender has
\* concluded.  No ACK, and nothing taken for received, contains the byte another
\* ACK asks for.
Receipts(s, A, R) ==
    /\ \A m \in A : Receipt(s, m, R)
    /\ R \subseteq 1 .. (s.highTx - 1)
    /\ 1 .. (s.buf.first - 1) \subseteq R
    /\ s.sack => /\ SackedBytes(s.buf) \subseteq R
                 /\ \A m \in A : m.ack \notin SackedBytes(s.buf)
                 /\ \A m, n \in A : m.ack \notin Blocks(n)

\* The segments N in flight are part of what was sent.
InTransit(s, N) ==
    \A p \in N : p \in Segment /\ 1 <= p.seq /\ p.seq + p.len <= s.highTx

SenderInv ==
    /\ SockOK(snd) /\ Open(snd) /\ Dups(snd) /\ snd.out = << >>
    /\ InTransit(snd, DOMAIN net)
    /\ Receipts(snd, DOMAIN acks, rcvd)
    /\ snd.sack \/ LimitedTransmit => snd.failed = {}
    /\ NoDelay => Timed(snd)

\* A step of the socket that concludes no more than it was told.
LEMMA ReceiptsKept ==
    ASSUME NEW s, NEW t, NEW A, NEW D, NEW R, Receipts(s, A, R), D \subseteq A,
           s.highTx \in Int, t.highTx \in Int, s.highTx <= t.highTx, t.sack = s.sack,
           1 .. (t.buf.first - 1) \subseteq R,
           s.sack => /\ SackedBytes(t.buf) \subseteq R
                     /\ \A m \in D : m.ack \notin SackedBytes(t.buf)
    PROVE  Receipts(t, D, R)
<1>1. \A m \in D : Receipt(t, m, R)
  BY DEF Receipts, Receipt
<1>2. R \subseteq 1 .. (t.highTx - 1)
  <2>1. R \subseteq 1 .. (s.highTx - 1)
    BY DEF Receipts
  <2> QED BY <2>1
<1>3. s.sack => \A m, n \in D : m.ack \notin Blocks(n)
  BY DEF Receipts
<1> QED BY <1>1, <1>2, <1>3 DEF Receipts

\* The socket after its handler: the segments are handed over.
LEMMA CleanedOK ==
    ASSUME NEW s, NEW t, SockOK(s), Dups(s), SameBut(s, t, {"sendPending", "out"}),
           t.sendPending \in BOOLEAN, t.out = << >> \/ t.out = s.out
    PROVE  /\ SockOK(t) /\ Dups(t) /\ t.sack = s.sack /\ t.buf = s.buf /\ t.highTx = s.highTx
           /\ t.nextTx = s.nextTx /\ t.highRxAck = s.highRxAck /\ t.rWnd = s.rWnd
           /\ t.persist = s.persist /\ t.failed = s.failed /\ (Timed(s) => Timed(t))
<1>1. /\ DOMAIN t = SocketField
      /\ t.sack = s.sack /\ t.buf = s.buf /\ t.highTx = s.highTx /\ t.failed = s.failed
      /\ t.congState = s.congState /\ t.cWnd = s.cWnd /\ t.nextTx = s.nextTx
      /\ t.highRxAck = s.highRxAck /\ t.rWnd = s.rWnd /\ t.dupAckCount = s.dupAckCount
      /\ t.recover = s.recover /\ t.recoverActive = s.recoverActive
      /\ t.isFirstPartialAck = s.isFirstPartialAck /\ t.notProcessed = s.notProcessed
      /\ t.retrCount = s.retrCount /\ t.retx = s.retx /\ t.persist = s.persist
      /\ t.aborted = s.aborted
  BY DEF SameBut, SocketField
<1>2. Half(s) /\ Typed(s) /\ Board(s.buf) /\ Guess(s) /\ Leaving(s)
  BY DEF SockOK, Half
<1>3. Typed(t)
  BY <1>1, <1>2 DEF Typed
<1>4. Guess(t)
  BY <1>1, <1>2 DEF Guess
<1>5. Leaving(t)
  <2>1. << >> \in Seq(Segment) /\ Len(<< >>) = 0
    <3> DEFINE G == Segment
    <3>1. << >> \in Seq(G) /\ Len(<< >>) = 0
      <4> HIDE DEF G
      <4> QED OBVIOUS
    <3> QED BY <3>1
  <2>2. CASE t.out = << >>
    BY <2>1, <2>2 DEF Leaving
  <2>3. CASE t.out = s.out
    BY <1>1, <1>2, <2>3 DEF Leaving
  <2> QED BY <2>2, <2>3
<1>6. SockOK(t)
  BY <1>1, <1>2, <1>3, <1>4, <1>5 DEF SockOK, Half
<1>7. Dups(t)
  BY <1>1 DEF Dups
<1>8. Timed(s) => Timed(t)
  BY <1>1 DEF Timed
<1> QED BY <1>1, <1>6, <1>7, <1>8

\* A handler h has run and its segments join those in flight.
LEMMA DispatchKeeps ==
    ASSUME SenderInv, NEW h, SockOK(h), Open(h), Dups(h), h.sack = snd.sack, snd.highTx <= h.highTx,
           Quiet(snd, h), NoDelay => Timed(h), Dispatch(h), Receipts(h, DOMAIN acks', rcvd')
    PROVE  SenderInv'
<1>1. DOMAIN h = SocketField /\ h.sendPending \in BOOLEAN /\ Leaving(h)
  BY DEF SockOK, Half, Typed
<1>2. snd' = [h EXCEPT !.out = << >>] /\ net' = Enqueue(net, h.out)
  BY DEF Dispatch
<1>3. SameBut(h, snd', {"sendPending", "out"}) /\ snd'.sendPending = h.sendPending /\ snd'.out = << >>
  BY <1>1, <1>2 DEF SameBut, SocketField
<1>4. /\ SockOK(snd') /\ Dups(snd') /\ snd'.sack = h.sack /\ snd'.buf = h.buf /\ snd'.highTx = h.highTx
      /\ snd'.highRxAck = h.highRxAck /\ snd'.rWnd = h.rWnd /\ snd'.persist = h.persist
      /\ snd'.failed = h.failed /\ (Timed(h) => Timed(snd'))
  BY <1>1, <1>3, CleanedOK
<1>10. Open(snd')
  BY <1>4 DEF Open
<1>5. snd.highTx \in Int /\ h.highTx \in Int
  <2>1. \A s : SockOK(s) => s.highTx \in Int
    BY BufferNumbers DEF SockOK, Half, Board, Sound
  <2> QED BY <2>1 DEF SenderInv
<1>6. InTransit(snd', DOMAIN net')
  <2>1. Len(h.out) \in Nat
    BY <1>1 DEF Leaving
  <2>2. SUFFICES ASSUME NEW p \in DOMAIN net'
                 PROVE  p \in Segment /\ 1 <= p.seq /\ p.seq + p.len <= h.highTx
    BY <1>4 DEF InTransit
  <2>3. p \in DOMAIN net \/ \E i \in 1 .. Len(h.out) : p = h.out[i]
    BY <1>2, <2>1, EnqueueHolds
  <2>4. CASE p \in DOMAIN net
    <3>1. p \in Segment /\ 1 <= p.seq /\ p.seq + p.len <= snd.highTx
      BY <2>4 DEF SenderInv, InTransit
    <3>2. p.seq + p.len \in Int
      BY <3>1 DEF Segment
    <3> QED BY <1>5, <3>1, <3>2
  <2>5. ASSUME NEW i \in 1 .. Len(h.out), p = h.out[i]
        PROVE  p \in Segment /\ 1 <= p.seq /\ p.seq + p.len <= h.highTx
    <3> DEFINE G == Segment
    <3>1. h.out \in Seq(G)
      BY <1>1 DEF Leaving
    <3>2. h.out[i] \in G
      <4> HIDE DEF G
      <4> QED BY <3>1
    <3> QED BY <1>1, <2>5, <3>2 DEF Leaving
  <2> QED BY <2>3, <2>4, <2>5
<1>7. Receipts(snd', DOMAIN acks', rcvd')
  BY <1>4 DEF Receipts, Receipt
<1>8. snd'.sack \/ LimitedTransmit => snd'.failed = {}
  BY <1>4 DEF SenderInv, Quiet
<1>9. NoDelay => Timed(snd')
  BY <1>4
<1> QED BY <1>3, <1>4, <1>6, <1>7, <1>8, <1>9, <1>10 DEF SenderInv

\* What the socket alone does leaves the receipts as they are.
LEMMA ReceiptsOfWork ==
    ASSUME SenderInv, NEW h, SockOK(h), h.sack = snd.sack, snd.highTx <= h.highTx,
           h.buf.first = snd.buf.first, snd.sack => SackedBytes(h.buf) \subseteq SackedBytes(snd.buf)
    PROVE  Receipts(h, DOMAIN acks, rcvd)
<1>1. snd.highTx \in Int /\ h.highTx \in Int
  <2>1. \A s : SockOK(s) => s.highTx \in Int
    BY BufferNumbers DEF SockOK, Half, Board, Sound
  <2> QED BY <2>1 DEF SenderInv
<1>2. Receipts(snd, DOMAIN acks, rcvd)
  BY DEF SenderInv
<1>3. snd.sack => /\ SackedBytes(h.buf) \subseteq rcvd
                  /\ \A m \in DOMAIN acks : m.ack \notin SackedBytes(h.buf)
  BY <1>2 DEF Receipts
<1>4. 1 .. (h.buf.first - 1) \subseteq rcvd
  BY <1>2 DEF Receipts
<1> QED BY <1>1, <1>2, <1>3, <1>4, ReceiptsKept

LEMMA SendPendingDataEventKeeps ==
    ASSUME SenderInv, SendPendingDataEvent
    PROVE  SenderInv'
<1> DEFINE p == SendPendingData(snd)
           h == [p EXCEPT !.sendPending = FALSE]
<1>1. SockOK(snd) /\ Dups(snd)
  BY DEF SenderInv
<1>2. Dispatch(h) /\ acks' = acks /\ rcvd' = rcvd
  BY Zenon DEF SendPendingDataEvent
<1>3. Sends(snd, p)
  BY <1>1, SendPendingDataSends
<1> HIDE DEF p
<1>4. SockOK(p) /\ Works(snd, p) /\ Dups(p) /\ DOMAIN p = SocketField
  BY <1>1, <1>3, DupsSame DEF Sends, SockOK, Half, Typed
<1>5. SameBut(p, h, {"sendPending", "out"}) /\ h.sendPending = FALSE /\ h.out = p.out
  BY <1>4 DEF SameBut, SocketField
<1> HIDE DEF h
<1>6. /\ SockOK(h) /\ Dups(h) /\ h.sack = p.sack /\ h.buf = p.buf /\ h.highTx = p.highTx
      /\ h.highRxAck = p.highRxAck /\ h.rWnd = p.rWnd /\ h.persist = p.persist
      /\ h.failed = p.failed /\ (Timed(p) => Timed(h))
  BY <1>4, <1>5, CleanedOK
<1>10. Open(h)
  BY <1>4, <1>6 DEF Works, Open, SenderInv
<1>7. /\ h.sack = snd.sack /\ snd.highTx <= h.highTx /\ h.buf.first = snd.buf.first
      /\ snd.sack => SackedBytes(h.buf) \subseteq SackedBytes(snd.buf)
      /\ Quiet(snd, h)
  BY <1>4, <1>6 DEF Works, Quiet
<1>8. NoDelay => Timed(h)
  BY <1>4, <1>6 DEF Works, SenderInv
<1>9. Receipts(h, DOMAIN acks, rcvd)
  BY <1>6, <1>7, ReceiptsOfWork
<1> QED BY <1>2, <1>6, <1>7, <1>8, <1>9, <1>10, DispatchKeeps

LEMMA ReTxTimeoutKeeps ==
    ASSUME SenderInv, ReTxTimeout
    PROVE  SenderInv'
<1> DEFINE h == ReTxTimeoutOf(snd)
<1>1. SockOK(snd) /\ Dups(snd) /\ ~ snd.aborted
  BY DEF SenderInv, ReTxTimeout
<1>2. Dispatch(h) /\ acks' = acks /\ rcvd' = rcvd
  BY Zenon DEF ReTxTimeout
<1>3. Expires(snd, h)
  BY <1>1, ReTxTimeoutWorks
<1> HIDE DEF h
<1>4. /\ SockOK(h) /\ Dups(h) /\ h.sack = snd.sack /\ snd.highTx <= h.highTx
      /\ h.buf.first = snd.buf.first
      /\ snd.sack => SackedBytes(h.buf) \subseteq SackedBytes(snd.buf)
      /\ Quiet(snd, h)
  BY <1>3, Zenon DEF Expires
<1>8. /\ h.highRxAck = snd.highRxAck /\ h.rWnd = snd.rWnd
      /\ h.persist = snd.persist \/ h.persist = FALSE
      /\ NoDelay /\ SegmentSize <= snd.rWnd => Timed(h)
  BY <1>3, Zenon DEF Expires
<1>9. Open(snd)
  BY DEF SenderInv
<1>6. NoDelay => Timed(h)
  BY <1>8, <1>9, SenderAssumption DEF Open
<1>7. Open(h)
  BY <1>4, <1>8, <1>9 DEF Open
<1>5. Receipts(h, DOMAIN acks, rcvd)
  BY <1>4, ReceiptsOfWork
<1> QED BY <1>2, <1>4, <1>5, <1>6, <1>7, DispatchKeeps

\* An ACK of the network is one the socket may receive.
LEMMA ReceiptAcceptable ==
    ASSUME SenderInv, NEW m \in DOMAIN acks, m.ack >= snd.buf.first
    PROVE  Acceptable(snd, m, Blocks(m))
<1>0. snd.highTx \in Int /\ snd.buf.first \in Int
  BY BufferNumbers DEF SenderInv, SockOK, Half, Board, Sound
<1>1. Receipt(snd, m, rcvd) /\ rcvd \subseteq 1 .. (snd.highTx - 1)
  BY DEF SenderInv, Receipts
<1>2. m.ack \in Nat /\ 1 <= m.ack /\ 1 .. (m.ack - 1) \subseteq rcvd
  BY <1>1 DEF Receipt
<1>a. 1 <= snd.highTx
  BY BufferNumbers DEF SenderInv, SockOK, Half, Board, Sound
<1>3. m.ack <= snd.highTx
  <2>1. CASE m.ack = 1
    BY <1>a, <2>1
  <2>2. CASE m.ack > 1
    <3>1. m.ack - 1 \in 1 .. (m.ack - 1)
      BY <1>2, <2>2
    <3>2. m.ack - 1 \in 1 .. (snd.highTx - 1)
      BY <1>1, <1>2, <3>1
    <3> QED BY <1>0, <1>2, <3>2
  <2> QED BY <1>2, <2>1, <2>2
<1>4. m.sack \in Seq(Block) /\ \A i \in 1 .. Len(m.sack) : m.ack < m.sack[i].first
  BY <1>1 DEF Receipt
<1>5. \A i \in 1 .. Len(m.sack) :
         \A x \in Int : m.sack[i].first <= x /\ x < m.sack[i].second => x \in Blocks(m)
  BY DEF Blocks
<1>6. m.sack # << >> => snd.sack /\ m.ack < snd.highTx
  <2>1. SUFFICES ASSUME m.sack # << >> PROVE snd.sack /\ m.ack < snd.highTx
    OBVIOUS
  <2>2. snd.sack
    BY <1>1, <2>1 DEF Receipt
  <2>3. PICK x \in rcvd : m.ack < x
    BY <1>1, <2>1 DEF Receipt
  <2>4. x \in 1 .. (snd.highTx - 1)
    BY <1>1
  <2> QED BY <1>0, <1>2, <2>2, <2>3, <2>4
<1>7. snd.sack => m.ack \notin SackedBytes(snd.buf) \cup Blocks(m)
  BY DEF SenderInv, Receipts
<1> QED BY <1>0, <1>2, <1>3, <1>4, <1>5, <1>6, <1>7 DEF Acceptable

LEMMA ReceiveAckKeeps ==
    ASSUME SenderInv, NEW m, NEW w \in Windows, ReceiveAck(m, w)
    PROVE  SenderInv'
<1> DEFINE h == DoForwardUp(snd, m, w)
<1>0. SockOK(snd) /\ Open(snd) /\ Dups(snd) /\ Receipts(snd, DOMAIN acks, rcvd)
  BY DEF SenderInv
<1>1. BagIn(m, acks) /\ acks' = acks (-) SetToBag({m}) /\ Dispatch(h) /\ rcvd' = rcvd
  BY Zenon DEF ReceiveAck
<1>2. m \in DOMAIN acks /\ DOMAIN acks' \subseteq DOMAIN acks
  BY <1>1, BagFacts
<1>3. Receipt(snd, m, rcvd)
  BY <1>0, <1>2 DEF Receipts
<1>4. m.ack \in Nat /\ m.wnd = RcvBufSize
  BY <1>3 DEF Receipt
<1>5. /\ m.ack < snd.buf.first => h = snd
      /\ \A U : m.ack >= snd.buf.first /\ Acceptable(snd, m, U) => Acked(snd, h, m, U) /\ Open(h)
  BY <1>0, <1>4, DoForwardUpWorks
<1> HIDE DEF h
<1>6. snd.buf.first \in Int /\ snd.highTx \in Int
  BY <1>0, BufferNumbers DEF SockOK, Half, Board, Sound
<1>7. CASE m.ack < snd.buf.first
  <2>1. h = snd
    BY <1>5, <1>7
  <2>2. Receipts(h, DOMAIN acks', rcvd)
    BY <1>0, <1>2, <2>1 DEF Receipts
  <2>3. Quiet(snd, h) /\ snd.highTx <= h.highTx
    BY <1>6, <2>1 DEF Quiet
  <2>4. NoDelay => Timed(h)
    BY <2>1 DEF SenderInv
  <2> QED BY <1>0, <1>1, <2>1, <2>2, <2>3, <2>4, DispatchKeeps
<1>8. CASE m.ack >= snd.buf.first
  <2>1. Acked(snd, h, m, Blocks(m)) /\ Open(h)
    BY <1>2, <1>5, <1>8, ReceiptAcceptable
  <2>2. /\ SockOK(h) /\ Dups(h) /\ h.sack = snd.sack /\ snd.highTx <= h.highTx
        /\ h.buf.first = m.ack /\ Quiet(snd, h) /\ (Timed(snd) => Timed(h))
        /\ snd.sack => SackedBytes(h.buf) \subseteq SackedBytes(snd.buf) \cup Blocks(m)
    BY <2>1, Zenon DEF Acked
  <2>3. h.highTx \in Int
    BY <2>2, BufferNumbers DEF SockOK, Half, Board, Sound
  <2>4. 1 .. (h.buf.first - 1) \subseteq rcvd
    BY <1>3, <2>2 DEF Receipt
  <2>5. ASSUME snd.sack
        PROVE  /\ SackedBytes(h.buf) \subseteq rcvd
               /\ \A n \in DOMAIN acks' : n.ack \notin SackedBytes(h.buf)
    <3>1. SackedBytes(snd.buf) \subseteq rcvd /\ Blocks(m) \subseteq rcvd
      BY <1>0, <1>3, <2>5 DEF Receipts, Receipt
    <3>2. \A n \in DOMAIN acks : n.ack \notin SackedBytes(snd.buf) /\ n.ack \notin Blocks(m)
      BY <1>0, <1>2, <2>5 DEF Receipts
    <3> QED BY <1>2, <2>2, <2>5, <3>1, <3>2
  <2>6. Receipts(h, DOMAIN acks', rcvd)
    BY <1>0, <1>2, <1>6, <2>2, <2>3, <2>4, <2>5, ReceiptsKept
  <2>7. NoDelay => Timed(h)
    BY <2>2 DEF SenderInv
  <2> QED BY <1>1, <2>1, <2>2, <2>6, <2>7, DispatchKeeps
<1> QED BY <1>4, <1>6, <1>7, <1>8

\* The application writes n bytes, which join the buffer.
LEMMA SendWorks ==
    ASSUME SockOK(snd), Dups(snd), NEW n \in Writes, Send(n)
    PROVE  /\ SockOK(snd') /\ Dups(snd') /\ Works(snd, snd')
           /\ snd'.highTx = snd.highTx /\ snd'.out = snd.out /\ snd'.failed = snd.failed
           /\ net' = net /\ acks' = acks /\ rcvd' = rcvd
<1> DEFINE c == Add(snd.buf, n)
           s == [snd EXCEPT !.buf = Add(@, n)]
           r == snd.sendPending \/ AvailableWindow(s) > 0
<1>0. Half(snd) /\ Typed(snd) /\ Board(snd.buf) /\ Guess(snd) /\ Leaving(snd)
  BY DEF SockOK, Half
<1>a. n \in Nat
  BY SenderAssumption
<1>1. /\ TailSequence(snd.buf) + n <= StreamLen + 1
      /\ snd' = [s EXCEPT !.sendPending = @ \/ AvailableWindow(s) > 0]
      /\ net' = net /\ acks' = acks /\ rcvd' = rcvd
  BY Zenon DEF Send
<1>2. /\ Sound(c) /\ c.first = snd.buf.first /\ c.sentSize = snd.buf.sentSize
      /\ c.highest = snd.buf.highest /\ c.sent = snd.buf.sent
  BY <1>0, <1>a, <1>1, AddSound DEF Board
<1>3. DOMAIN snd = SocketField
  BY <1>0 DEF Typed
<1>4. SameBut(snd, s, {"buf"}) /\ s.buf = c
  BY <1>3 DEF SameBut, SocketField
<1>5. SameBut(s, snd', {"sendPending"}) /\ snd'.sendPending = r
  <2> HIDE DEF s
  <2>1. s.sendPending = snd.sendPending /\ DOMAIN s = SocketField
    BY <1>4 DEF SameBut, SocketField
  <2> QED BY <1>1, <2>1 DEF SameBut, SocketField
<1>6. r \in BOOLEAN
  <2>1. snd.sendPending \in BOOLEAN
    BY <1>0, Zenon DEF Typed
  <2> QED BY <2>1, Zenon
<1> HIDE DEF s, r, c
<1>7. /\ DOMAIN snd' = SocketField /\ snd'.buf = c
      /\ snd'.sack = snd.sack /\ snd'.highTx = snd.highTx /\ snd'.failed = snd.failed
      /\ snd'.congState = snd.congState /\ snd'.cWnd = snd.cWnd /\ snd'.nextTx = snd.nextTx
      /\ snd'.highRxAck = snd.highRxAck /\ snd'.rWnd = snd.rWnd /\ snd'.dupAckCount = snd.dupAckCount
      /\ snd'.recover = snd.recover /\ snd'.recoverActive = snd.recoverActive
      /\ snd'.isFirstPartialAck = snd.isFirstPartialAck /\ snd'.notProcessed = snd.notProcessed
      /\ snd'.retrCount = snd.retrCount /\ snd'.retx = snd.retx /\ snd'.persist = snd.persist
      /\ snd'.aborted = snd.aborted /\ snd'.out = snd.out
  BY <1>4, <1>5 DEF SameBut, SocketField
<1>8. /\ \A f : With(c, f) = With(snd.buf, f)
      /\ \A S : Covered(c, S) = Covered(snd.buf, S)
      /\ SentEnd(c) = SentEnd(snd.buf)
  BY <1>2 DEF With, Covered, EndOf, SentEnd
<1>9. Board(c) /\ SackedBytes(c) = SackedBytes(snd.buf) /\ LostBytes(c) = LostBytes(snd.buf)
  BY <1>0, <1>2, <1>8 DEF Board, Exclusive, Short, Live, SackedBytes, LostBytes
<1>10. Typed(snd')
  BY <1>0, <1>5, <1>6, <1>7 DEF Typed
<1>11. Guess(snd')
  BY <1>0, <1>2, <1>7, <1>8, <1>9 DEF Guess
<1>12. Leaving(snd')
  BY <1>0, <1>7 DEF Leaving
<1>13. SockOK(snd') /\ Dups(snd')
  BY <1>0, <1>2, <1>7, <1>8, <1>9, <1>10, <1>11, <1>12 DEF SockOK, Half, Dups
<1>14. snd.highTx <= snd.highTx
  BY <1>0, BufferNumbers DEF Half, Board, Sound
<1>15. Works(snd, snd')
  BY <1>2, <1>7, <1>9, <1>14 DEF Works, Within, Ready, Quiet, Timed
<1> QED BY <1>1, <1>7, <1>13, <1>15

LEMMA SendKeeps ==
    ASSUME SenderInv, NEW n \in Writes, Send(n)
    PROVE  SenderInv'
<1>1. /\ SockOK(snd') /\ Dups(snd') /\ Works(snd, snd')
      /\ snd'.highTx = snd.highTx /\ snd'.out = snd.out /\ snd'.failed = snd.failed
      /\ net' = net /\ acks' = acks /\ rcvd' = rcvd
  BY SendWorks DEF SenderInv
<1>2. Receipts(snd', DOMAIN acks', rcvd')
  <2>1. Receipts(snd', DOMAIN acks, rcvd)
    BY <1>1, ReceiptsOfWork DEF Works
  <2> QED BY <1>1, <2>1
<1>3. InTransit(snd', DOMAIN net')
  BY <1>1 DEF InTransit, SenderInv
<1>4. snd'.out = << >> /\ (snd'.sack \/ LimitedTransmit => snd'.failed = {}) /\ Open(snd')
  BY <1>1 DEF SenderInv, Open, Works
<1>5. NoDelay => Timed(snd')
  BY <1>1 DEF Works, SenderInv
<1> QED BY <1>1, <1>2, <1>3, <1>4, <1>5 DEF SenderInv

\* The receiver acknowledges the segment p.
LEMMA ReceiverAcksKeeps ==
    ASSUME SenderInv, NEW p, ReceiverAcks(p)
    PROVE  SenderInv'
<1> DEFINE R == rcvd \cup (p.seq .. (p.seq + p.len - 1))
           F == FirstMissing(R)
           L == SackList(R, p.seq)
           a == [ack |-> F, sack |-> L, wnd |-> RcvBufSize]
<1>0. /\ SockOK(snd) /\ Dups(snd) /\ Receipts(snd, DOMAIN acks, rcvd) /\ InTransit(snd, DOMAIN net)
      /\ snd.highTx \in Int /\ snd.highTx <= StreamLen + 1 /\ StreamLen \in Nat
      /\ snd.buf.first \in Int
  <2>1. SockOK(snd) /\ Shape(snd.buf) /\ snd.highTx = SentEnd(snd.buf)
    BY DEF SenderInv, SockOK, Half, Board, Sound
  <2>2. snd.highTx \in Int /\ snd.highTx <= StreamLen + 1 /\ snd.buf.first \in Int
    BY <2>1, BufferNumbers, TxStreamAssumption
  <2> QED BY <2>1, <2>2, TxStreamAssumption DEF SenderInv
<1>1. /\ BagIn(p, net) /\ net' = net (-) SetToBag({p}) /\ rcvd' = R
      /\ acks' = Enqueue(acks, <<a>>) /\ snd' = snd
  <2>1. rcvd' = R
    BY Zenon DEF ReceiverAcks
  <2>2. acks' = Enqueue(acks, <<[ack |-> FirstMissing(rcvd'), sack |-> SackList(rcvd', p.seq),
                                 wnd |-> RcvBufSize]>>)
    BY Zenon DEF ReceiverAcks
  <2>3. acks' = Enqueue(acks, <<a>>)
    <3> HIDE DEF R
    <3> QED BY <2>1, <2>2
  <2> QED BY <2>1, <2>3, Zenon DEF ReceiverAcks
<1>2. p \in DOMAIN net /\ DOMAIN net' \subseteq DOMAIN net
  BY <1>1, BagFacts
<1>3. p \in Segment /\ 1 <= p.seq /\ p.seq + p.len <= snd.highTx
  BY <1>0, <1>2 DEF InTransit
<1>4. p.seq \in Int /\ p.len \in Int
  BY <1>3 DEF Segment
<1>5. R \subseteq 1 .. (snd.highTx - 1) /\ rcvd \subseteq R
  <2>1. rcvd \subseteq 1 .. (snd.highTx - 1)
    BY <1>0 DEF Receipts
  <2>2. p.seq .. (p.seq + p.len - 1) \subseteq 1 .. (snd.highTx - 1)
    BY <1>0, <1>3, <1>4
  <2> QED BY <2>1, <2>2
<1>6. R \in SUBSET Byte
  BY <1>0, <1>5 DEF Byte
<1> HIDE DEF R
<1>7. F \in 1 .. (StreamLen + 1) /\ F \notin R /\ 1 .. (F - 1) \subseteq R
  BY <1>6, FirstMissingIs
<1>8. L \in Seq(Block) /\ (\A i \in 1 .. Len(L) : L[i] \in BlocksOf(R)) /\ (~ snd.sack => L = << >>)
  BY <1>4, <1>6, SackListIs
<1>9. \A k \in BlocksOf(R) : /\ k \in Block /\ F < k.first /\ k.first \in R
                             /\ \A x \in Int : k.first <= x /\ x < k.second => x \in R
  BY <1>6, BlocksApart, Zenon
<1>10. a.ack = F /\ a.sack = L /\ a.wnd = RcvBufSize
  BY DEF a
<1> HIDE DEF F, L, a
\* The blocks of the new ACK.
<1>11. Blocks(a) \subseteq R /\ \A x \in Blocks(a) : F < x
  <2>1. SUFFICES ASSUME NEW x \in Blocks(a) PROVE x \in R /\ F < x
    OBVIOUS
  <2>2. PICK i \in 1 .. Len(L) : L[i].first <= x /\ x < L[i].second
    BY <1>10 DEF Blocks
  <2>3. x \in Int
    BY DEF Blocks
  <2>4. L[i] \in BlocksOf(R)
    BY <1>8
  <2>5. L[i] \in Block /\ F < L[i].first /\ (L[i].first <= x /\ x < L[i].second => x \in R)
    BY <1>9, <2>3, <2>4
  <2>6. L[i].first \in Int
    BY <2>5 DEF Block
  <2>7. F \in Int
    BY <1>0, <1>7
  <2> QED BY <2>2, <2>3, <2>5, <2>6, <2>7
<1>12. Receipt(snd, a, R)
  <2>1. F \in Nat /\ 1 <= F
    BY <1>0, <1>7
  <2>2. \A i \in 1 .. Len(L) : F < L[i].first
    BY <1>8, <1>9
  <2>3. L # << >> => snd.sack /\ \E x \in R : F < x
    <3>1. SUFFICES ASSUME L # << >> PROVE snd.sack /\ \E x \in R : F < x
      OBVIOUS
    <3>2. snd.sack
      BY <1>8, <3>1
    <3>3. 1 \in 1 .. Len(L)
      <4> DEFINE Bl == Block
      <4>1. L \in Seq(Bl)
        BY <1>8
      <4> HIDE DEF Bl
      <4> QED BY <3>1, <4>1
    <3>4. L[1] \in BlocksOf(R)
      BY <1>8, <3>3
    <3>5. F < L[1].first /\ L[1].first \in R
      BY <1>9, <3>4
    <3> QED BY <3>2, <3>5
  <2> QED BY <1>7, <1>8, <1>10, <1>11, <2>1, <2>2, <2>3 DEF Receipt
\* The ACKs that were in flight before.
<1>13. ASSUME NEW m \in DOMAIN acks
       PROVE  /\ Receipt(snd, m, R)
              /\ m.ack <= F /\ m.ack \in Nat
              /\ Blocks(m) \subseteq R
  <2>1. Receipt(snd, m, rcvd)
    BY <1>0 DEF Receipts
  <2>2. Receipt(snd, m, R)
    BY <1>5, <2>1 DEF Receipt
  <2>3. m.ack \in Nat /\ 1 .. (m.ack - 1) \subseteq R /\ Blocks(m) \subseteq R
    BY <2>2 DEF Receipt
  <2>4. m.ack <= F
    <3>1. SUFFICES ASSUME F < m.ack PROVE FALSE
      BY <1>0, <1>7, <2>3
    <3>2. F \in 1 .. (m.ack - 1)
      BY <1>0, <1>7, <2>3, <3>1
    <3> QED BY <1>7, <2>3, <3>2
  <2> QED BY <2>2, <2>3, <2>4
<1>14. \A m \in DOMAIN acks' : m \in DOMAIN acks \/ m = a
  <2>1. Len(<<a>>) = 1 /\ <<a>>[1] = a
    OBVIOUS
  <2>2. Len(<<a>>) \in Nat
    BY <2>1
  <2>3. \A m \in DOMAIN Enqueue(acks, <<a>>) : m \in DOMAIN acks \/ \E i \in 1 .. Len(<<a>>) : m = <<a>>[i]
    BY <2>2, EnqueueHolds
  <2>4. \A i \in 1 .. Len(<<a>>) : i = 1
    BY <2>1
  <2> QED BY <1>1, <2>1, <2>3, <2>4
<1>15. \A m \in DOMAIN acks' : Receipt(snd, m, R) /\ m.ack \in Nat /\ m.ack <= F
  <2>1. F \in Nat /\ F <= F
    BY <1>0, <1>7
  <2> QED BY <1>10, <1>12, <1>13, <1>14, <2>1
<1>16. ASSUME snd.sack
       PROVE  /\ SackedBytes(snd.buf) \subseteq R
              /\ \A m \in DOMAIN acks' : m.ack \notin SackedBytes(snd.buf)
              /\ \A m, n \in DOMAIN acks' : m.ack \notin Blocks(n)
  <2>1. SackedBytes(snd.buf) \subseteq R
    BY <1>0, <1>5, <1>16 DEF Receipts
  <2>2. \A m \in DOMAIN acks' : m.ack \notin SackedBytes(snd.buf)
    BY <1>0, <1>7, <1>10, <1>14, <1>16, <2>1 DEF Receipts
  <2>3. ASSUME NEW m \in DOMAIN acks', NEW n \in DOMAIN acks' PROVE m.ack \notin Blocks(n)
    <3>1. CASE n = a
      <4>1. m.ack \in Int /\ m.ack <= F /\ F \in Int
        BY <1>0, <1>7, <1>15
      <4>2. m.ack \in Blocks(a) => F < m.ack
        BY <1>11
      <4> QED BY <3>1, <4>1, <4>2
    <3>2. CASE n \in DOMAIN acks /\ m = a
      BY <1>7, <1>10, <1>13, <3>2
    <3>3. CASE n \in DOMAIN acks /\ m \in DOMAIN acks
      BY <1>0, <1>16, <3>3 DEF Receipts
    <3> QED BY <1>14, <3>1, <3>2, <3>3
  <2> QED BY <2>1, <2>2, <2>3
<1>17. Receipts(snd, DOMAIN acks', R)
  <2>1. 1 .. (snd.buf.first - 1) \subseteq R
    BY <1>0, <1>5 DEF Receipts
  <2> QED BY <1>5, <1>15, <1>16, <2>1 DEF Receipts
<1>18. InTransit(snd, DOMAIN net')
  BY <1>0, <1>2 DEF InTransit
<1> QED BY <1>1, <1>17, <1>18 DEF SenderInv

LEMMA LossKeeps ==
    ASSUME SenderInv, NEW p, LoseSegment(p) \/ LoseAck(p)
    PROVE  SenderInv'
<1>1. snd' = snd /\ rcvd' = rcvd
  BY DEF LoseSegment, LoseAck
<1>2. DOMAIN net' \subseteq DOMAIN net /\ DOMAIN acks' \subseteq DOMAIN acks
  BY BagFacts DEF LoseSegment, LoseAck
<1>3. InTransit(snd, DOMAIN net')
  BY <1>2 DEF InTransit, SenderInv
<1>4. Receipts(snd, DOMAIN acks', rcvd)
  <2>1. Receipts(snd, DOMAIN acks, rcvd)
    BY DEF SenderInv
  <2> QED BY <1>2, <2>1 DEF Receipts
<1> QED BY <1>1, <1>3, <1>4 DEF SenderInv

LEMMA InitSenderInv ==
    ASSUME Init
    PROVE  SenderInv
<1>1. PICK w \in Windows, sack \in SackModes : snd = SenderInit(w, sack)
  BY DEF Init
<1>2. net = EmptyBag /\ acks = EmptyBag /\ rcvd = {}
  BY DEF Init
<1>3. /\ DOMAIN snd = SocketField
      /\ snd.sack = sack /\ snd.buf = EmptyBuffer /\ snd.congState = "CA_OPEN" /\ snd.cWnd = w
      /\ snd.highTx = 1 /\ snd.nextTx = 1 /\ snd.highRxAck = 1 /\ snd.rWnd = RcvBufSize
      /\ snd.dupAckCount = 0 /\ snd.recover = 0 /\ snd.recoverActive = FALSE
      /\ snd.isFirstPartialAck = TRUE /\ snd.notProcessed = 0 /\ snd.retrCount = DataRetries
      /\ snd.retx = FALSE /\ snd.persist = FALSE /\ snd.sendPending = FALSE
      /\ snd.aborted = FALSE /\ snd.out = << >> /\ snd.failed = {}
  BY <1>1 DEF SenderInit, SocketField
<1>4. /\ Board(snd.buf) /\ snd.buf.first = 1 /\ snd.buf.sentSize = 0 /\ SentEnd(snd.buf) = 1
      /\ \A f : With(snd.buf, f) = {}
  <2>1. /\ Sound(EmptyBuffer) /\ Exclusive(EmptyBuffer) /\ Short(EmptyBuffer) /\ Live(EmptyBuffer)
        /\ EmptyBuffer.first = 1 /\ EmptyBuffer.sentSize = 0 /\ SentEnd(EmptyBuffer) = 1
        /\ \A f : With(EmptyBuffer, f) = {}
    BY EmptyBufferSound
  <2> QED BY <1>3, <2>1 DEF Board
<1>5. Typed(snd)
  <2>1. snd.recoverActive \in BOOLEAN /\ snd.isFirstPartialAck \in BOOLEAN /\ snd.retx \in BOOLEAN
    BY <1>3, Zenon
  <2>2. snd.sendPending \in BOOLEAN /\ snd.aborted \in BOOLEAN
    BY <1>3, Zenon
  <2>3. /\ snd.nextTx \in 1 .. snd.highTx /\ snd.notProcessed \in 0 .. (SegmentSize - 1)
        /\ snd.retrCount \in 0 .. DataRetries /\ snd.dupAckCount \in Nat /\ snd.recover \in Nat
    BY <1>3, TxStreamAssumption, TxSegmentAssumption, SenderAssumption
  <2>4. snd.congState \in CongState
    BY <1>3 DEF CongState
  <2> QED BY <1>3, <2>1, <2>2, <2>3, <2>4 DEF Typed
<1>6. Guess(snd)
  BY <1>3, <1>4 DEF Guess
<1>7. Leaving(snd)
  <2> DEFINE G == Segment
  <2>1. << >> \in Seq(G) /\ Len(<< >>) = 0
    <3> HIDE DEF G
    <3> QED OBVIOUS
  <2> QED BY <1>3, <2>1 DEF Leaving
<1>8. SockOK(snd) /\ Open(snd)
  <2>1. snd.highRxAck \in Nat /\ snd.rWnd \in Nat /\ snd.buf.first <= snd.highRxAck
    BY <1>3, <1>4, SenderAssumption
  <2>2. snd.persist \in BOOLEAN
    BY <1>3, Zenon
  <2>3. snd.highTx = SentEnd(snd.buf) /\ snd.recover <= snd.highTx
    BY <1>3, <1>4
  <2>4. Open(snd)
    BY <1>3, <1>4 DEF Open
  <2> QED BY <1>4, <1>5, <1>6, <1>7, <2>1, <2>2, <2>3, <2>4 DEF SockOK, Half
<1>9. Dups(snd)
  BY <1>3, TxThreshAssumption DEF Dups
<1>10. InTransit(snd, DOMAIN net)
  BY <1>2, BagFacts DEF InTransit
<1>11. Receipts(snd, DOMAIN acks, rcvd)
  <2>1. SackedBytes(snd.buf) = {}
    BY <1>4 DEF SackedBytes, Covered
  <2>2. 1 .. (snd.buf.first - 1) \subseteq rcvd
    BY <1>4
  <2>3. rcvd \subseteq 1 .. (snd.highTx - 1)
    BY <1>2
  <2>4. DOMAIN acks = {}
    BY <1>2, BagFacts
  <2> QED BY <2>1, <2>2, <2>3, <2>4 DEF Receipts
<1>12. Timed(snd)
  BY <1>4 DEF Timed
<1> QED BY <1>3, <1>8, <1>9, <1>10, <1>11, <1>12 DEF SenderInv

\* Every step keeps the invariant.
LEMMA NextSenderInv ==
    ASSUME SenderInv, [Next]_vars
    PROVE  SenderInv'
<1>1. ASSUME NEW n \in Writes, Send(n) PROVE SenderInv'
  BY <1>1, SendKeeps
<1>2. ASSUME SendPendingDataEvent PROVE SenderInv'
  BY <1>2, SendPendingDataEventKeeps
<1>3. ASSUME NEW m, NEW w \in Windows, ReceiveAck(m, w) PROVE SenderInv'
  BY <1>3, ReceiveAckKeeps
<1>4. ASSUME ReTxTimeout PROVE SenderInv'
  BY <1>4, ReTxTimeoutKeeps
<1>5. ASSUME NEW p, ReceiverAcks(p) PROVE SenderInv'
  BY <1>5, ReceiverAcksKeeps
<1>6. ASSUME NEW p, LoseSegment(p) \/ LoseAck(p) PROVE SenderInv'
  BY <1>6, LossKeeps
<1>7. CASE UNCHANGED vars
  BY <1>7 DEF vars, SenderInv
<1> QED BY <1>1, <1>2, <1>3, <1>4, <1>5, <1>6, <1>7 DEF Next

\* The invariant of sender, network and receiver holds in every state, whatever
\* is lost or overtaken and whenever the timer expires (ReceivedAck, ReTxTimeout).
THEOREM SenderInvHolds == Spec => []SenderInv
BY InitSenderInv, NextSenderInv, PTL DEF Spec

(***************************************************************************)
(* What the invariant gives.                                               *)
(***************************************************************************)
\* The socket is a record of its fields, whatever handler has run.
Whole(s) == s = [f \in SocketField |-> s[f]]

LEMMA WholeSocket ==
    ASSUME SenderInv, SenderInv', Whole(snd), [Next]_vars
    PROVE  Whole(snd')
<1>0. DOMAIN snd' = SocketField
  BY DEF SenderInv, SockOK, Half, Typed
<1>1. ASSUME NEW h, NEW e, NEW g, snd' = [h EXCEPT ![g] = e] PROVE Whole(snd')
  <2>1. snd' = [f \in DOMAIN h |-> snd'[f]]
    BY <1>1
  <2>2. DOMAIN snd' = DOMAIN h
    BY <1>1
  <2> QED BY <1>0, <2>1, <2>2 DEF Whole
<1>2. ASSUME NEW h, Dispatch(h) PROVE Whole(snd')
  BY <1>1, <1>2 DEF Dispatch
<1>3. ASSUME NEW n, Send(n) PROVE Whole(snd')
  <2> DEFINE s == [snd EXCEPT !.buf = Add(@, n)]
             r == s.sendPending \/ AvailableWindow(s) > 0
  <2>1. snd' = [s EXCEPT !.sendPending = r]
    BY <1>3, Zenon DEF Send
  <2> HIDE DEF s, r
  <2> QED BY <1>1, <2>1
<1>4. ASSUME SendPendingDataEvent PROVE Whole(snd')
  BY <1>2, <1>4, Zenon DEF SendPendingDataEvent
<1>5. ASSUME NEW m, NEW w, ReceiveAck(m, w) PROVE Whole(snd')
  BY <1>2, <1>5, Zenon DEF ReceiveAck
<1>6. ASSUME ReTxTimeout PROVE Whole(snd')
  BY <1>2, <1>6, Zenon DEF ReTxTimeout
<1>7. ASSUME NEW p, ReceiverAcks(p) \/ LoseSegment(p) \/ LoseAck(p) PROVE Whole(snd')
  BY <1>7 DEF ReceiverAcks, LoseSegment, LoseAck
<1>8. CASE UNCHANGED vars
  BY <1>8 DEF vars
<1> QED BY <1>3, <1>4, <1>5, <1>6, <1>7, <1>8 DEF Next

\* Every field of the socket keeps its type and its bounds (tcp-socket-base.h,
\* tcp-socket-state.h): the retry counter never passes below zero, duplicate ACKs
\* are counted up to the threshold, the window of the receiver that reads at once
\* never closes, and m_nextTxSequence and the marks stay within the stream.
THEOREM SenderTypes == Spec => []TypeOK
<1>1. Init => Whole(snd)
  BY DEF Init, SenderInit, Whole, SocketField
<1>2. SenderInv /\ SenderInv' /\ Whole(snd) /\ [Next]_vars => Whole(snd)'
  BY WholeSocket
<1>3. SenderInv /\ Whole(snd) => TypeOK
  <2> SUFFICES ASSUME SenderInv, Whole(snd) PROVE TypeOK
    OBVIOUS
  <2>1. /\ SockOK(snd) /\ Half(snd) /\ Typed(snd) /\ Board(snd.buf) /\ Dups(snd)
        /\ snd.out = << >> /\ rcvd \subseteq 1 .. (snd.highTx - 1)
    BY DEF SenderInv, SockOK, Half, Receipts
  <2>2. Sound(snd.buf) /\ Exclusive(snd.buf) /\ Live(snd.buf) /\ Shape(snd.buf)
    BY <2>1 DEF Board, Sound
  <2>3. IsBuffer(snd.buf)
    BY <2>2, SoundIsBuffer
  <2>4. StreamLen \in Nat /\ DupAckThresh \in Nat /\ RcvBufSize \in Nat /\ DataRetries \in Nat
    BY TxStreamAssumption, TxThreshAssumption, SenderAssumption
  <2>5. snd.highTx \in 1 .. (StreamLen + 1) /\ snd.buf.first \in 1 .. (StreamLen + 1)
    BY <2>1, <2>2, <2>4, BufferNumbers DEF Half
  <2>6. rcvd \subseteq Byte
    BY <2>1, <2>4, <2>5 DEF Byte
  <2>7. /\ snd.highRxAck \in 1 .. (StreamLen + 1) /\ snd.rWnd \in 0 .. RcvBufSize
        /\ snd.recover \in 0 .. (StreamLen + 1) /\ snd.dupAckCount \in 0 .. DupAckThresh
    BY <2>1, <2>4, <2>5 DEF SenderInv, Open, Half, Typed, Dups
  <2>8. snd.persist \in BOOLEAN
    BY <2>1, Zenon DEF Half
  <2>9. snd.out \in {<< >>} /\ snd.buf \in {snd.buf}
    BY <2>1
  <2>10. /\ snd.sack \in SackModes /\ snd.congState \in CongState /\ snd.cWnd \in Windows
         /\ snd.notProcessed \in 0 .. (SegmentSize - 1)
         /\ snd.retrCount \in 0 .. DataRetries /\ snd.recoverActive \in BOOLEAN
         /\ snd.isFirstPartialAck \in BOOLEAN /\ snd.retx \in BOOLEAN
         /\ snd.sendPending \in BOOLEAN /\ snd.aborted \in BOOLEAN
         /\ snd.failed \in SUBSET AssertName
    BY <2>1, Zenon DEF Typed
  <2>11. snd = [sack |-> snd.sack, buf |-> snd.buf, congState |-> snd.congState, cWnd |-> snd.cWnd,
                highTx |-> snd.highTx, nextTx |-> snd.nextTx, highRxAck |-> snd.highRxAck,
                rWnd |-> snd.rWnd, dupAckCount |-> snd.dupAckCount, recover |-> snd.recover,
                recoverActive |-> snd.recoverActive, isFirstPartialAck |-> snd.isFirstPartialAck,
                notProcessed |-> snd.notProcessed, retrCount |-> snd.retrCount, retx |-> snd.retx,
                persist |-> snd.persist, sendPending |-> snd.sendPending, aborted |-> snd.aborted,
                out |-> snd.out, failed |-> snd.failed]
    BY DEF Whole, SocketField
  <2>12. snd.nextTx \in 1 .. (StreamLen + 1)
    BY <2>1, <2>4, <2>5 DEF Typed
  <2> QED BY <2>3, <2>5, <2>6, <2>7, <2>8, <2>9, <2>10, <2>11, <2>12 DEF TypeOK
<1> QED BY <1>1, <1>2, <1>3, SenderInvHolds, PTL DEF Spec

\* The sent list of tcp-tx-buffer.cc holds every outstanding byte once and in place,
\* its counters are what a recount would give and no item is both sacked and lost,
\* through every splitting, merging, marking and discarding that ACKs, timeouts and
\* retransmissions cause, for streams, segments and windows of every size.
THEOREM SenderScoreboardSound == Spec => []ScoreboardSound
<1>1. SenderInv => ScoreboardSound
  BY SoundScoreboard DEF SenderInv, SockOK, Half, Board, ScoreboardSound
<1> QED BY <1>1, SenderInvHolds, PTL

\* m_highestSack is end() or a live, sacked item whenever UpdateLostCount reads it.
THEOREM SenderHighestLive == Spec => []HighestSackIsLive
<1>1. SenderInv => HighestSackIsLive
  BY DEF SenderInv, SockOK, Half, Board, Live, HighestSackIsLive, HighestIsLive
<1> QED BY <1>1, SenderInvHolds, PTL

\* DiscardUpTo forgets, and with SACK Update marks, only bytes the receiver has,
\* although ACKs are lost and reordered and segments are cut anew when resent.
THEOREM SenderForgetsNothing == Spec => []NeverForgetsMissing
<1>1. SenderInv => NeverForgetsMissing
  <2> SUFFICES ASSUME SenderInv PROVE NeverForgetsMissing
    OBVIOUS
  <2>1. Receipts(snd, DOMAIN acks, rcvd)
    BY DEF SenderInv
  <2>2. snd.buf.first \in Int
    BY BufferNumbers DEF SenderInv, SockOK, Half, Board, Sound
  <2>3. 1 .. (snd.buf.first - 1) \subseteq rcvd
    BY <2>1 DEF Receipts
  <2>4. \A x \in Byte : x < snd.buf.first => x \in rcvd
    BY <2>2, <2>3, TxStreamAssumption DEF Byte
  <2>5. snd.sack => SackedBytes(snd.buf) \subseteq rcvd
    BY <2>1 DEF Receipts
  <2> QED BY <2>4, <2>5 DEF NeverForgetsMissing, SackedBytes
<1> QED BY <1>1, SenderInvHolds, PTL

\* No NS_ASSERT of the sending side fails on a connection with SACK, nor on one
\* without it if the first duplicate ACKs may send new data (m_limitedTx).
THEOREM SenderAssertsHold == Spec => [](snd.sack \/ LimitedTransmit => NoAssertFails)
<1>1. SenderInv => (snd.sack \/ LimitedTransmit => NoAssertFails)
  BY DEF SenderInv, NoAssertFails
<1> QED BY <1>1, SenderInvHolds, PTL

\* With Nagle's algorithm off (m_noDelay) the retransmission timer runs whenever
\* data is outstanding: ReTxTimeout itself sends a segment, which starts it again.
THEOREM SenderKeepsTimer == Spec => [](NoDelay => OutstandingHasTimer)
<1>1. SenderInv => (NoDelay => OutstandingHasTimer)
  BY DEF SenderInv, Timed, OutstandingHasTimer
<1> QED BY <1>1, SenderInvHolds, PTL

\* A recovery phase starts only when no recovery point is active, that is when the
\* ACKs have reached the one before (DupAck, FullAck, ReTxTimeout of tcp-socket-base.cc):
\* for every window of congestion control, every network and every scoreboard.
THEOREM RecoversOncePerWindow == Spec => OneRecoveryPerWindow
<1>1. Init => Control(snd)
  BY DEF Init, SenderInit, Control, SocketField, CongState
<1>2. Control(snd) /\ [Next]_vars => Control(snd)'
  BY SenderMoves DEF Moves
<1>3. Control(snd) /\ [Next]_vars =>
        [snd.congState # "CA_RECOVERY" /\ snd'.congState = "CA_RECOVERY"
           => snd'.highRxAck >= snd.recover \/ ~ snd.recoverActive]_vars
  BY SenderMoves DEF Moves
<1> QED BY <1>1, <1>2, <1>3, PTL DEF Spec, OneRecoveryPerWindow
=============================================================================
