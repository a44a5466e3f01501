--------------------------- MODULE TcpFlowControl ---------------------------
(***************************************************************************)
(* Flow control of an established connection: the sender of TcpSender      *)
(* against a receiver whose application reads when it likes and whose ACKs *)
(* are delayed (tcp-socket-base.cc).  The receive buffer fills, the window *)
(* the receiver advertises closes, the persist timer of the sender probes  *)
(* it with single bytes, and the window opens again; Recv itself sends     *)
(* nothing.  ACKs with old and new windows are lost, delayed and reordered *)
(* like the data.                                                          *)
(***************************************************************************)
EXTENDS TcpSender

CONSTANT DelAckMaxCount   \* m_delAckMaxCount (DelAckCount)

ASSUME DelAckAssumption == DelAckMaxCount \in Nat \ {0}

\* The receiver; the bytes it has received are rcvd.
\* read         bytes the application has read
\* delAckCount  m_delAckCount
\* delAck       m_delAckEvent is pending
\* highTxAck    m_highTxAck, the highest ACK sent
VARIABLE rcv

flowVars == <<snd, net, acks, rcvd, rcv>>

ReceiverInit == [read |-> 0, delAckCount |-> 0, delAck |-> FALSE, highTxAck |-> 1]

(***************************************************************************)
(* The receive buffer, R being the bytes received and n how many are read. *)
(***************************************************************************)
NextRxSequence(R) == FirstMissing(R)
MaxRxSequence(n) == n + 1 + RcvBufSize
AdvertisedWindowSize(R, n) == MaxRxSequence(n) - NextRxSequence(R)

IsProbe(p) == "probe" \in DOMAIN p

OutOfRange(p) ==
    \/ p.seq + p.len < NextRxSequence(rcvd)
    \/ MaxRxSequence(rcv.read) <= p.seq

\* What TcpRxBuffer::Add stores of a segment, trimmed to the room that begins at
\* the first byte held.
Stored(p) ==
    LET unread == {x \in rcvd : x > rcv.read}
    IN  {x \in (p.seq .. (p.seq + p.len - 1)) \ rcvd :
            /\ NextRxSequence(rcvd) <= x
            /\ unread # {} => x < Min(unread) + RcvBufSize}

(***************************************************************************)
(* Actions of the receiver.                                                *)
(***************************************************************************)
\* An ACK for the bytes R, n of them read, with the block of byte x in front.
\* It cancels the delayed ACK.
SendAck(R, n, x) ==
    /\ acks' = Enqueue(acks, <<[ack |-> NextRxSequence(R), sack |-> SackList(R, x),
                                wnd |-> AdvertisedWindowSize(R, n)]>>)
    /\ rcv' = [read |-> n, delAckCount |-> 0, delAck |-> FALSE,
               highTxAck |-> Max({rcv.highTxAck, NextRxSequence(R)})]

\* A faulty variant: the first segment not acknowledged at once starts no timer.
DelayAckFromSecond(n) ==
    /\ rcv' = [rcv EXCEPT !.read = n, !.delAckCount = @ + 1, !.delAck = rcv.delAckCount > 0]
    /\ UNCHANGED acks

DelayAck(n) ==
    /\ rcv' = [rcv EXCEPT !.read = n, !.delAckCount = @ + 1, !.delAck = TRUE]
    /\ UNCHANGED acks

\* Segment p arrives.  If the in-order data grows the application is told, and
\* reads up to byte n before the ACK is built.
ReceivedData(p, n) ==
    LET R == rcvd \cup Stored(p)
        next == NextRxSequence(R)
        grown == next > NextRxSequence(rcvd)
        gap == \E x \in R : x > next
        filled == next > NextRxSequence(rcvd) + p.len
    IN  /\ BagIn(p, net)
        /\ net' = net (-) SetToBag({p})
        /\ UNCHANGED snd
        /\ \/ /\ OutOfRange(p) \/ Stored(p) = {}
              /\ n = rcv.read
              /\ rcvd' = rcvd
              /\ SendAck(rcvd, n, p.seq)
           \/ /\ ~ OutOfRange(p) /\ Stored(p) # {}
              /\ n = rcv.read \/ (grown /\ n \in rcv.read .. (next - 1))
              /\ rcvd' = R
              /\ IF gap \/ filled \/ rcv.delAckCount + 1 >= DelAckMaxCount
                 THEN SendAck(R, n, p.seq)
                 ELSE DelayAck(n)

DelAckTimeout ==
    /\ rcv.delAck
    /\ SendAck(rcvd, rcv.read, 0)
    /\ UNCHANGED <<snd, net, rcvd>>

\* The application reads up to byte n, outside of any callback.
Recv(n) ==
    /\ n \in (rcv.read + 1) .. (NextRxSequence(rcvd) - 1)
    /\ rcv' = [rcv EXCEPT !.read = n]
    /\ UNCHANGED <<snd, net, acks, rcvd>>

(***************************************************************************)
(* The persist timer of the sender, which schedules itself again.  The     *)
(* byte at m_nextTxSequence leaves the buffer and goes back to it.  With   *)
(* no such byte a null pointer is followed and the program ends.           *)
(***************************************************************************)
NoByte == "no byte to probe"
Running == NoByte \notin snd.failed

\* Faulty variants: the timer is not scheduled again; the probe stays in the sent list.
PersistTimeoutOnce(s) ==
    IF SizeFromSequence(s.buf, s.nextTx) = 0
    THEN [s EXCEPT !.failed = @ \cup {NoByte}]
    ELSE [s EXCEPT !.buf = ResetLastSegmentSent(CopyFromSequence(@, 1, s.nextTx)),
                   !.persist = FALSE,
                   !.out = <<[seq |-> s.nextTx, len |-> 1, probe |-> TRUE]>>]
PersistTimeoutKeepSent(s) ==
    IF SizeFromSequence(s.buf, s.nextTx) = 0
    THEN [s EXCEPT !.failed = @ \cup {NoByte}]
    ELSE [s EXCEPT !.buf = CopyFromSequence(@, 1, s.nextTx),
                   !.out = <<[seq |-> s.nextTx, len |-> 1, probe |-> TRUE]>>]

PersistTimeoutOf(s) ==
    IF SizeFromSequence(s.buf, s.nextTx) = 0
    THEN [s EXCEPT !.failed = @ \cup {NoByte}]
    ELSE [s EXCEPT !.buf = ResetLastSegmentSent(CopyFromSequence(@, 1, s.nextTx)),
                   !.out = <<[seq |-> s.nextTx, len |-> 1, probe |-> TRUE]>>]

PersistTimeout ==
    /\ snd.persist
    /\ Dispatch(PersistTimeoutOf(snd))
    /\ UNCHANGED <<acks, rcvd, rcv>>

(***************************************************************************)
(* The composition.                                                        *)
(***************************************************************************)
FlowInit == Init /\ rcv = ReceiverInit

SenderStep ==
    \/ \E n \in Writes : Send(n)
    \/ SendPendingDataEvent
    \/ \E m \in BagToSet(acks), w \in Windows : ReceiveAck(m, w)
    \/ ReTxTimeout
    \/ \E p \in BagToSet(net) : LoseSegment(p)
    \/ \E m \in BagToSet(acks) : LoseAck(m)

FlowNext ==
    /\ Running
    /\ \/ SenderStep /\ UNCHANGED rcv
       \/ PersistTimeout
       \/ \E p \in BagToSet(net), n \in 0 .. StreamLen : ReceivedData(p, n)
       \/ DelAckTimeout
       \/ \E n \in Byte : Recv(n)

FlowSpec == FlowInit /\ [][FlowNext]_flowVars

\* Scheduled events run, the application of the receiver keeps reading, and the
\* network does not lose all of infinitely many messages.  For the long handlers
\* WF and SF are written out, with the ENABLED of the action as its guard.
Arrival == \E p \in BagToSet(net), n \in 0 .. StreamLen : ReceivedData(p, n)
Ack == \E m \in BagToSet(acks), w \in Windows : ReceiveAck(m, w) /\ UNCHANGED rcv
Read == \E n \in Byte : Recv(n)

FairFlowSpec ==
    /\ FlowSpec
    /\ <>[] (Running /\ snd.sendPending) => []<> <<SendPendingDataEvent>>_flowVars
    /\ <>[] (Running /\ snd.retx /\ ~ snd.aborted) => []<> <<ReTxTimeout>>_flowVars
    /\ <>[] (Running /\ snd.persist) => []<> <<PersistTimeout>>_flowVars
    /\ WF_flowVars(Running /\ DelAckTimeout)
    /\ WF_flowVars(Running /\ Read)
    /\ []<> (Running /\ net # EmptyBag) => []<> <<Arrival>>_flowVars
    /\ []<> (Running /\ acks # EmptyBag /\ ~ snd.aborted) => []<> <<Ack>>_flowVars

-----------------------------------------------------------------------------
(***************************************************************************)
(* Properties.                                                             *)
(***************************************************************************)
\* Every data segment that leaves SendPendingData or a retransmission fits in the
\* receive buffer as it is, however old the ACK m_rWnd comes from and whatever
\* was lost, resent and read since: only probes reach beyond the right edge.
NewDataFits ==
    \A p \in BagToSet(net) : IsProbe(p) \/ p.seq + p.len <= MaxRxSequence(rcv.read)

\* In-order data that no ACK has reported yet has the delayed ACK timer running
\* (ReceivedData, SendEmptyPacket, DelAckTimeout): it is never left for the
\* sender's retransmission timer to find out.
OwedAckHasTimer == rcv.highTxAck < NextRxSequence(rcvd) => rcv.delAck

\* While the persist timer runs nothing is outstanding, so that the item
\* ResetLastSegmentSent takes back from the sent list is the probe itself and not
\* data the receiver may still acknowledge.
ProbeIsUnsent == snd.persist => DOMAIN snd.buf.sent = {}

\* A closed window is found open in the end: the probes go on however many of
\* them and of their answers are lost, and the answer to a probe updates m_rWnd
\* whether the receiver took the byte or refused it.
ZeroWindowEnds == snd.rWnd = 0 ~> snd.rWnd > 0 \/ snd.aborted \/ ~ Running

\* "When the timeout expires, send 1-byte data to probe for the window size at the
\* receiver" (tcp-socket.h): there is a byte to send.
ProbeSendsAByte == Running

\* A sender that waits "for a larger Tx window" (SendPendingData) is told of it:
\* with an application that keeps reading, all that was written is acknowledged.
NoStall == snd.buf.size > 0 ~> snd.buf.size = 0 \/ snd.aborted \/ ~ Running
=============================================================================
