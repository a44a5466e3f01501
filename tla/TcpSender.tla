----------------------------- MODULE TcpSender -----------------------------
(***************************************************************************)
(* The sending side of an established TCP connection: the acknowledgement  *)
(* processing, loss recovery and retransmission timer of tcp-socket-base.cc *)
(* on top of the scoreboard of TcpTxBuffer, against a receiver that reads  *)
(* at once and a network that loses, reorders and drops what exceeds its   *)
(* capacity.  TcpFlowControl puts a slow receiver in its place.            *)
(*                                                                         *)
(* Congestion control and recovery are plug-ins of the socket              *)
(* (TcpCongestionOps, TcpRecoveryOps): whenever the code asks them for a   *)
(* window, any value of Windows may be the answer.  A handler is a         *)
(* function from the state of the socket to the state it leaves, so that   *)
(* the calls it makes follow one another as in the code.                   *)
(***************************************************************************)
EXTENDS TcpTxBuffer, Bags

CONSTANTS
    SackModes,        \* values m_sackEnabled may have
    LimitedTransmit,  \* m_limitedTx
    NoDelay,          \* m_noDelay: Nagle's algorithm is off
    RcvBufSize,       \* m_maxBuffer of the receiver, the window it first advertises
    Windows,          \* what congestion control may set m_cWnd to
    DataRetries,      \* m_dataRetries
    Writes,           \* sizes of the writes of the application
    NetCapacity       \* messages the network holds in each direction

ASSUME SenderAssumption ==
    /\ SackModes \cup {LimitedTransmit, NoDelay} \subseteq BOOLEAN /\ SackModes # {}
    /\ RcvBufSize \in Nat /\ SegmentSize <= RcvBufSize
    /\ Windows \subseteq Nat /\ SegmentSize \in Windows
    /\ DataRetries \in Nat
    /\ Writes \subseteq Nat \ {0}
    /\ NetCapacity \in Nat \ {0}

VARIABLES
    snd,    \* the socket
    net,    \* bag of data segments [seq, len] on their way
    acks,   \* bag of ACKs [ack, sack, wnd] on their way
    rcvd    \* bytes the receiver holds or has delivered

vars == <<snd, net, acks, rcvd>>

CongState == {"CA_OPEN", "CA_DISORDER", "CA_RECOVERY", "CA_LOSS"}

\* The NS_ASSERTs of the handlers.
AssertName ==
    {"leftOut", "nothing to send", "sacked segment resent", "outside the window",
     "sent in CA_DISORDER without limited transmit", "retransmission of another than the head",
     "Reno SACK without segments", "first duplicate", "duplicates beyond the threshold",
     "sacked in CA_LOSS", "head sacked", "in flight after the timeout",
     "more than a segment after the timeout"}

\* sack               m_sackEnabled, agreed on by the handshake
\* buf                m_txBuffer
\* congState, cWnd    m_tcb->m_congState, m_cWnd
\* highTx, nextTx     m_tcb->m_highTxMark, m_nextTxSequence
\* highRxAck, rWnd    m_highRxAckMark, m_rWnd
\* dupAckCount, recover, recoverActive, isFirstPartialAck
\* notProcessed       m_bytesAckedNotProcessed
\* retrCount          m_dataRetrCount
\* retx, persist      m_retxEvent, m_persistEvent are pending
\* sendPending        m_sendPendingDataEvent is pending
\* aborted            the connection was given up (NotifyErrorClose)
\* out                segments handed to TcpL4Protocol by the current handler
\* failed             the NS_ASSERTs that failed, by name
SenderInit(w, sack) ==
    [sack |-> sack, buf |-> EmptyBuffer, congState |-> "CA_OPEN", cWnd |-> w, highTx |-> 1,
     nextTx |-> 1, highRxAck |-> 1, rWnd |-> RcvBufSize, dupAckCount |-> 0, recover |-> 0,
     recoverActive |-> FALSE, isFirstPartialAck |-> TRUE, notProcessed |-> 0,
     retrCount |-> DataRetries, retx |-> FALSE, persist |-> FALSE, sendPending |-> FALSE,
     aborted |-> FALSE, out |-> << >>, failed |-> {}]

\* NS_ASSERT
Check(s, name, cond) == IF cond THEN s ELSE [s EXCEPT !.failed = @ \cup {name}]

CheckInFlight(s) ==
    Check(s, "leftOut", s.buf.count["sacked"] + s.buf.count["lost"] <= s.buf.sentSize)

(***************************************************************************)
(* Sending.                                                                *)
(***************************************************************************)
AvailableWindow(s) == Max({0, Min({s.rWnd, s.cWnd}) - BytesInFlight(s.buf)})

UnAckDataCount(s) == s.highTx - s.buf.first

\* A faulty variant: the segment leaves and no timer watches it.
SendDataPacketNoTimer(s, seq, maxSize) ==
    LET b == CopyFromSequence(s.buf, maxSize, seq)
    IN  [s EXCEPT !.buf = b,
                  !.highTx = Max({@, seq + b.sent[seq].len}),
                  !.out = Append(@, [seq |-> seq, len |-> b.sent[seq].len])]

SendDataPacket(s, seq, maxSize) ==
    LET b == CopyFromSequence(s.buf, maxSize, seq)
        sent == [s EXCEPT !.buf = b,
                          !.retx = TRUE,
                          !.highTx = Max({@, seq + b.sent[seq].len}),
                          !.out = Append(@, [seq |-> seq, len |-> b.sent[seq].len])]
    IN  IF seq \notin DOMAIN b.sent THEN Check(s, "nothing to send", FALSE)
        ELSE Check(Check(sent, "sacked segment resent", ~ b.sent[seq].sacked),
                   "outside the window",
                   b.sent[seq].retrans \/ s.highRxAck + s.rWnd >= seq + maxSize)

\* One turn of the loop of SendPendingData, and whether the loop stops there.
\* A call sends a byte at most twice, as new data and by rule 3 of NextSeg.
NextOf(s) == NextSeg(s.buf, s.sack /\ s.congState = "CA_RECOVERY", s.rWnd)

SillyWindow(s, data) == AvailableWindow(s) < SegmentSize /\ data > AvailableWindow(s)
Nagle(s, data) == ~ NoDelay /\ UnAckDataCount(s) > 0 /\ data < SegmentSize

Held(s) ==
    \/ AvailableWindow(s) = 0
    \/ NextOf(s) = NoSeg
    \/ LET data == SizeFromSequence(s.buf, NextOf(s).seq)
       IN  SillyWindow(s, data) \/ Nagle(s, data)

SendOne(s) ==
    LET next == NextOf(s)
        size == Min({AvailableWindow(s), SegmentSize, next.seqHigh - next.seq})
        sent == SendDataPacket(s, next.seq, size)
    IN  IF Held(s) THEN s
        ELSE CheckInFlight([sent EXCEPT !.nextTx = EndOf(sent.buf, next.seq)])

SendPendingData(s) ==
    LET turn[n \in 0 .. (2 * StreamLen)] ==
            IF n = 0 THEN CheckInFlight(s) ELSE SendOne(turn[n - 1])
        done == turn[2 * StreamLen]
    IN  IF s.buf.size = 0 \/ s.aborted THEN s
        ELSE Check(done, "sent in CA_DISORDER without limited transmit",
                   \/ done.out = s.out \/ s.sack \/ LimitedTransmit
                   \/ s.congState # "CA_DISORDER")

\* The first lost segment, or the head again, whatever the window.
DoRetransmit(s) ==
    LET next == NextSeg(s.buf, FALSE, s.rWnd)
        seq == IF next = NoSeg THEN s.buf.first ELSE next.seq
        maxSize == IF next = NoSeg THEN SegmentSize ELSE next.seqHigh - next.seq
        c == Check(s, "retransmission of another than the head", s.sack \/ seq = s.buf.first)
    IN  [SendDataPacket(c, seq, maxSize) EXCEPT !.nextTx = seq]

(***************************************************************************)
(* Acknowledgements.  w is the window congestion control answers with.     *)
(***************************************************************************)
\* A faulty variant: the timer is cancelled and not scheduled again.
NewAckNoTimer(s, resetRTO) ==
    [s EXCEPT !.retrCount = DataRetries,
              !.nextTx = Max({@, s.buf.first}),
              !.retx = @ /\ ~ resetRTO /\ s.buf.size # 0]

NewAck(s, resetRTO) ==
    [s EXCEPT !.retrCount = DataRetries,
              !.nextTx = Max({@, s.buf.first}),
              !.retx = IF s.buf.size = 0 THEN FALSE ELSE @ \/ resetRTO]

RenoSack(s) ==
    LET c == Check(s, "Reno SACK without segments",
                   IF s.sack THEN Cardinality(DOMAIN s.buf.sent) > 1
                                  ELSE DOMAIN s.buf.sent # {})
    IN  IF DOMAIN s.buf.sent = {} THEN c ELSE [c EXCEPT !.buf = AddRenoSack(@)]

EnterRecovery(s, w) ==
    LET marked == IF ~ s.sack THEN [RenoSack(s) EXCEPT !.buf = MarkHeadAsLost(@)]
                  ELSE IF IsLost(s.buf, s.buf.first) THEN s
                  ELSE [s EXCEPT !.buf = MarkHeadAsLost(@)]
        entered == [marked EXCEPT !.recover = s.highTx,
                                  !.recoverActive = TRUE,
                                  !.congState = "CA_RECOVERY",
                                  !.cWnd = w]
    IN  SendDataPacket(CheckInFlight(entered), s.highRxAck, SegmentSize)

\* A duplicate ACK counts in CA_OPEN and CA_DISORDER, and starts recovery
\* when there are enough of them or the head is known to be lost.
DupAck(s, w) ==
    LET counted == IF s.congState = "CA_RECOVERY" THEN s
                   ELSE [s EXCEPT !.dupAckCount = @ + 1]
        d == IF s.congState = "CA_OPEN"
             THEN [Check(counted, "first duplicate", counted.dupAckCount = 1)
                      EXCEPT !.congState = "CA_DISORDER"]
             ELSE counted
        c == Check(d, "duplicates beyond the threshold",
                   d.dupAckCount <= DupAckThresh \/ d.recoverActive)
    IN  CASE s.congState = "CA_LOSS" -> s
          [] s.congState = "CA_RECOVERY" ->
                [(IF s.sack THEN s ELSE RenoSack(s)) EXCEPT !.cWnd = w]
          [] OTHER ->
                IF \/ /\ d.dupAckCount = DupAckThresh
                      /\ d.highRxAck >= d.recover \/ ~ d.recoverActive
                   \/ IsLost(d.buf, d.highRxAck)
                THEN EnterRecovery(c, w)
                ELSE IF ~ s.sack /\ LimitedTransmit THEN RenoSack(c) ELSE c

\* An ACK below the recovery point, in recovery.
PartialAck(s, ack, segsAcked, w) ==
    LET m == IF s.sack THEN s ELSE [s EXCEPT !.buf = MarkHeadAsLost(@)]
        c == IF segsAcked >= 1 THEN [m EXCEPT !.cWnd = w] ELSE m
        r == IF IsRetransmittedDataAcked(c.buf, ack + SegmentSize) THEN c ELSE DoRetransmit(c)
    IN  [NewAck(r, r.isFirstPartialAck) EXCEPT !.isFirstPartialAck = FALSE]

\* An ACK of new data outside recovery, or one that ends it.
FullAck(s, ack, isDupack, w) ==
    LET o == CASE s.congState = "CA_OPEN" -> s
               [] s.congState = "CA_DISORDER" ->
                     IF isDupack THEN s ELSE [s EXCEPT !.congState = "CA_OPEN"]
               [] s.congState = "CA_RECOVERY" ->
                     [s EXCEPT !.congState = "CA_OPEN", !.isFirstPartialAck = TRUE,
                               !.dupAckCount = 0]
               [] s.congState = "CA_LOSS" ->
                     [s EXCEPT !.congState = "CA_OPEN", !.isFirstPartialAck = TRUE]
        r == [o EXCEPT !.recoverActive = @ /\ ack < s.recover]
    IN  IF r.congState = "CA_OPEN" THEN NewAck([r EXCEPT !.cWnd = w], TRUE) ELSE r

\* A faulty variant: any ACK of new data ends the recovery.
ProcessAckAnyEnds(s, ack, oldHead, scoreboardUpdated, w) ==
    LET isDupack == IF s.sack THEN scoreboardUpdated
                    ELSE ack = oldHead /\ ack < s.highTx
        d == IF isDupack THEN DupAck(s, w) ELSE s
    IN  IF ack = oldHead THEN d
        ELSE FullAck([d EXCEPT !.dupAckCount = IF isDupack THEN @ ELSE 0], ack, isDupack, w)

\* Bytes acknowledged beyond whole segments are kept for the next ACK.
ProcessAck(s, ack, oldHead, scoreboardUpdated, w) ==
    LET isDupack == IF s.sack THEN scoreboardUpdated
                    ELSE ack = oldHead /\ ack < s.highTx
        d == IF isDupack THEN DupAck(s, w) ELSE s
        rest == d.notProcessed + ((ack - oldHead) % SegmentSize)
        segsAcked == (ack - oldHead) \div SegmentSize + rest \div SegmentSize
        n == [d EXCEPT !.dupAckCount = IF isDupack THEN @ ELSE 0,
                       !.notProcessed = rest % SegmentSize]
    IN  IF ack = oldHead THEN d
        ELSE IF ack < n.recover /\ n.congState = "CA_RECOVERY"
        THEN PartialAck(n, ack, segsAcked, w)
        ELSE IF ack < n.recover /\ n.congState = "CA_LOSS"
        THEN NewAck([Check(n, "sacked in CA_LOSS", s.sack \/ n.buf.count["sacked"] = 0)
                        EXCEPT !.cWnd = w], TRUE)
        ELSE FullAck(n, ack, isDupack, w)

\* A faulty variant: the window of an ACK that was overtaken counts as well.
UpdateWindowSizeAlways(s, m) == [s EXCEPT !.highRxAck = Max({@, m.ack}), !.rWnd = m.wnd]

\* The code also takes the window of a segment whose sequence number is above
\* m_highRxMark.  The peer sends no data, so that is its first ACK only, which
\* acknowledges something or has the window of the handshake: no third disjunct.
UpdateWindowSize(s, m) ==
    IF m.ack > s.highRxAck \/ (m.ack = s.highRxAck /\ m.wnd > s.rWnd)
    THEN [s EXCEPT !.highRxAck = m.ack, !.rWnd = m.wnd]
    ELSE s

ReceivedAck(s, m, w) ==
    LET marked == Update(s.buf, m.sack)
        b == DiscardUpTo(marked, m.ack)
        updated == marked.count["sacked"] > s.buf.count["sacked"]
        r == CheckInFlight([s EXCEPT !.buf = b])
        c == Check(r, "head sacked",
                   m.sack # << >> => /\ DOMAIN marked.sent # {}
                                     /\ ~ marked.sent[HeadItem(marked)].sacked)
    IN  SendPendingData(ProcessAck(c, m.ack, s.buf.first, updated, w))

\* An ACK of what was not sent is answered by an ACK, which changes nothing.
ProcessEstablished(s, m, w) ==
    IF m.ack < s.buf.first \/ s.highTx < m.ack THEN s ELSE ReceivedAck(s, m, w)

\* The persist timer takes over from the retransmission timer when the window
\* closes, before the ACK itself is processed, and stops when it has opened.
EnterPersist(s) ==
    IF s.rWnd = 0 /\ ~ s.persist THEN [s EXCEPT !.persist = TRUE, !.retx = FALSE] ELSE s

LeavePersist(s) ==
    IF s.rWnd # 0 /\ s.persist THEN SendPendingData([s EXCEPT !.persist = FALSE]) ELSE s

DoForwardUp(s, m, w) ==
    LeavePersist(ProcessEstablished(EnterPersist(UpdateWindowSize(s, m)), m, w))

(***************************************************************************)
(* The retransmission timer.                                               *)
(***************************************************************************)
TimedOut(s) ==
    LET r == IF s.sack THEN s ELSE [s EXCEPT !.buf = ResetRenoSack(@)]
    IN  [r EXCEPT !.buf = SetSentListLost(@, ~ s.sack),
                  !.dupAckCount = 0,
                  !.recover = s.highTx,
                  !.recoverActive = TRUE,
                  !.congState = "CA_LOSS",
                  !.cWnd = SegmentSize,
                  !.retrCount = @ - 1]

\* All timers are cancelled; segments no longer find the socket.
DeallocateEndPoint(s) ==
    [s EXCEPT !.aborted = TRUE, !.retx = FALSE, !.persist = FALSE, !.sendPending = FALSE]

\* A faulty variant: the connection is never given up.
ReTxTimeoutNoLimit(s) ==
    IF s.buf.size = 0 THEN [s EXCEPT !.retx = FALSE]
    ELSE SendPendingData(TimedOut([s EXCEPT !.retx = FALSE]))

ReTxTimeoutOf(s) ==
    LET expired == [s EXCEPT !.retx = FALSE]
        lost == TimedOut(expired)
        sent == SendPendingData(Check(lost, "in flight after the timeout",
                                      BytesInFlight(lost.buf) = 0))
    IN  IF s.buf.size = 0 THEN expired
        ELSE IF s.retrCount = 0 THEN DeallocateEndPoint(expired)
        ELSE Check(sent, "more than a segment after the timeout",
                   BytesInFlight(sent.buf) <= SegmentSize)

(***************************************************************************)
(* The network and the receiver.                                           *)
(***************************************************************************)
\* What fits of the messages ms joins the bag; a full queue drops the rest.
Enqueue(bag, ms) ==
    LET room == Max({0, NetCapacity - BagCardinality(bag)})
        put[n \in 0 .. Len(ms)] ==
            IF n = 0 THEN bag
            ELSE IF n <= room THEN put[n - 1] (+) SetToBag({ms[n]}) ELSE put[n - 1]
    IN  put[Len(ms)]

FirstMissing(R) == Min((1 .. (StreamLen + 1)) \ R)

\* The SACK blocks of the bytes R beyond the first gap; SackList puts the block
\* that holds byte x, the last to arrive, in front, and the others from high to low.
BlocksOf(R) ==
    {k \in [first : Byte, second : 2 .. (StreamLen + 1)] :
        /\ FirstMissing(R) < k.first /\ k.first < k.second
        /\ \A x \in k.first .. (k.second - 1) : x \in R
        /\ k.first - 1 \notin R /\ k.second \notin R}

SackList(R, x) ==
    LET blocks == BlocksOf(R)
        newest == {k \in blocks : k.first <= x /\ x < k.second}
        key(k) == IF k \in newest THEN StreamLen + 2 ELSE k.first
        rank(k) == Cardinality({j \in blocks : key(j) >= key(k)})
    IN  IF snd.sack
        THEN [i \in 1 .. Cardinality(blocks) |-> CHOOSE k \in blocks : rank(k) = i]
        ELSE << >>

\* The socket's handler h has run: its segments leave, if they fit.
Dispatch(h) ==
    /\ snd' = [h EXCEPT !.out = << >>]
    /\ net' = Enqueue(net, h.out)

Init ==
    /\ \E w \in Windows, sack \in SackModes : snd = SenderInit(w, sack)
    /\ net = EmptyBag
    /\ acks = EmptyBag
    /\ rcvd = {}

\* The application writes n bytes; the attempt to send them is an event of
\* its own, scheduled only if the window has room.
Send(n) ==
    /\ TailSequence(snd.buf) + n <= StreamLen + 1
    /\ n <= MaxBuffer - snd.buf.size
    /\ LET s == [snd EXCEPT !.buf = Add(@, n)]
       IN  snd' = [s EXCEPT !.sendPending = @ \/ AvailableWindow(s) > 0]
    /\ UNCHANGED <<net, acks, rcvd>>

SendPendingDataEvent ==
    /\ snd.sendPending
    /\ Dispatch([SendPendingData(snd) EXCEPT !.sendPending = FALSE])
    /\ UNCHANGED <<acks, rcvd>>

ReceiveAck(m, w) ==
    /\ BagIn(m, acks)
    /\ ~ snd.aborted
    /\ acks' = acks (-) SetToBag({m})
    /\ Dispatch(DoForwardUp(snd, m, w))
    /\ UNCHANGED rcvd

ReTxTimeout ==
    /\ snd.retx /\ ~ snd.aborted
    /\ Dispatch(ReTxTimeoutOf(snd))
    /\ UNCHANGED <<acks, rcvd>>

\* The receiver takes a segment, reads it at once, so that its window stays open,
\* and acknowledges it.  A delayed ACK differs from one that is lost and one that
\* is late only in sparing messages.
ReceiverAcks(p) ==
    /\ BagIn(p, net)
    /\ net' = net (-) SetToBag({p})
    /\ rcvd' = rcvd \cup (p.seq .. (p.seq + p.len - 1))
    /\ acks' = Enqueue(acks, <<[ack |-> FirstMissing(rcvd'), sack |-> SackList(rcvd', p.seq),
                                wnd |-> RcvBufSize]>>)
    /\ UNCHANGED snd

LoseSegment(p) ==
    /\ BagIn(p, net)
    /\ net' = net (-) SetToBag({p})
    /\ UNCHANGED <<snd, acks, rcvd>>

LoseAck(m) ==
    /\ BagIn(m, acks)
    /\ acks' = acks (-) SetToBag({m})
    /\ UNCHANGED <<snd, net, rcvd>>

Next ==
    \/ \E n \in Writes : Send(n)
    \/ SendPendingDataEvent
    \/ \E m \in BagToSet(acks), w \in Windows : ReceiveAck(m, w)
    \/ ReTxTimeout
    \/ \E p \in BagToSet(net) : ReceiverAcks(p) \/ LoseSegment(p)
    \/ \E m \in BagToSet(acks) : LoseAck(m)

Spec == Init /\ [][Next]_vars

\* The simulator runs every event that is scheduled and not cancelled: weak
\* fairness of the two timed events, with the ENABLED of each written out as its
\* guard.  Nothing is assumed of the network.
FairSpec ==
    /\ Spec
    /\ <>[] snd.sendPending => []<> <<SendPendingDataEvent>>_vars
    /\ <>[] (snd.retx /\ ~ snd.aborted) => []<> <<ReTxTimeout>>_vars

-----------------------------------------------------------------------------
(***************************************************************************)
(* Properties.                                                             *)
(***************************************************************************)
\* Type invariant.  The retry counter stays in its range: it is unsigned, and
\* ReTxTimeout gives the connection up before it would pass below zero.
TypeOK ==
    /\ snd \in [sack : SackModes, buf : {snd.buf}, congState : CongState, cWnd : Windows,
                highTx : 1 .. (StreamLen + 1), nextTx : 1 .. (StreamLen + 1),
                highRxAck : 1 .. (StreamLen + 1), rWnd : 0 .. RcvBufSize,
                dupAckCount : 0 .. DupAckThresh, recover : 0 .. (StreamLen + 1),
                recoverActive : BOOLEAN, isFirstPartialAck : BOOLEAN,
                notProcessed : 0 .. (SegmentSize - 1), retrCount : 0 .. DataRetries,
                retx : BOOLEAN, persist : BOOLEAN, sendPending : BOOLEAN, aborted : BOOLEAN,
                out : {<< >>}, failed : SUBSET AssertName]
    /\ IsBuffer(snd.buf)
    /\ rcvd \subseteq Byte

\* Whatever is lost, resent, split, merged, sacked and acknowledged in whatever
\* order, the sent list of TcpTxBuffer holds every outstanding byte once and in
\* place, its three incremental counters are what a recount would give, and no
\* byte is both sacked and lost, so that BytesInFlight never underflows.
ScoreboardSound == Tiled(snd.buf) /\ Counted(snd.buf) /\ SackedNotLost(snd.buf)

\* The iterator m_highestSack, kept across calls, is never left at an item that
\* DiscardUpTo has deleted or whose SACK mark was taken back: UpdateLostCount
\* dereferences it.
HighestSackIsLive == HighestIsLive(snd.buf)

\* No NS_ASSERT of the handlers of ReceivedAck, ReTxTimeout and SendPendingData
\* fails: nothing sacked is resent, nothing is in flight after a timeout and one
\* segment at most once it is handled, no duplicate ACK is miscounted, nothing
\* new is sent beyond the advertised window, no empty segment is built.
NoAssertFails == snd.failed = {}

\* The sender forgets a byte (DiscardUpTo) only when the receiver has it, and
\* with SACK takes a byte for received (Update) only when the receiver has it,
\* however the segments were cut and merged on their retransmissions.
NeverForgetsMissing ==
    /\ \A x \in Byte : x < snd.buf.first => x \in rcvd
    /\ snd.sack => Covered(snd.buf, With(snd.buf, "sacked")) \subseteq rcvd

\* While data is outstanding on a live connection the retransmission timer runs,
\* through every cancellation and rescheduling of NewAck and ReTxTimeout: without
\* it the loss of all that is in flight would never be noticed.
OutstandingHasTimer == snd.buf.sentSize > 0 /\ ~ snd.aborted => snd.retx

\* A new recovery phase starts only when the ACKs have reached the recovery point
\* of the last one (RFC 6675, quoted in ProcessAck), whichever of the two branches
\* of DupAck starts it: the window is not reduced twice for one loss event.
OneRecoveryPerWindow ==
    [][snd.congState # "CA_RECOVERY" /\ snd'.congState = "CA_RECOVERY"
       => snd'.highRxAck >= snd.recover \/ ~ snd.recoverActive]_vars

\* When the retransmission timer expires and the connection is not given up, "the
\* transmission is re-started from the SND.UNA sequence number"
\* (tcp-socket-base.h): the head of the list is resent by ReTxTimeout itself.
RtoRestartsTransmission ==
    [][snd'.retrCount < snd.retrCount => snd'.buf.sent[HeadItem(snd'.buf)].retrans]_vars

\* Data the application wrote is acknowledged in the end, or the connection is
\* given up after DataRetries timeouts in a row, even if the network loses
\* everything: no order of writes, ACKs and timeouts leaves the sender waiting
\* for an event that nobody has scheduled.
AckedOrAborted == snd.buf.size > 0 ~> snd.buf.size = 0 \/ snd.aborted
=============================================================================
