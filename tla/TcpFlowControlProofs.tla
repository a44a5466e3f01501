------------------------ MODULE TcpFlowControlProofs ------------------------
(***************************************************************************)
(* Flow control, for streams, buffers, windows, networks and delayed-ACK   *)
(* counts of every size, on connections with SACK.  What the handlers of   *)
(* the socket do is in TcpSenderProofs; here they meet a receiver whose    *)
(* window closes and opens.  FlowState ties the window the sender believes *)
(* in to the ACKs on their way and to what the receiver has room for.      *)
(***************************************************************************)
EXTENDS TcpFlowControl, TcpSenderProofs

\* The right edge an ACK advertises.
Edge(m) == m.ack + m.wnd

\* The socket between two events.  The persist timer runs only with nothing
\* outstanding, and it does run while the window is closed.
Calm(s) ==
    /\ SockOK(s) /\ Dups(s) /\ Ready(s) /\ s.sack /\ s.failed = {}
    /\ s.persist => s.rWnd = 0 /\ s.buf.sentSize = 0
    /\ s.rWnd = 0 => s.persist \/ s.aborted

\* What was sent lies below the right edge the sender knows, and that edge not
\* beyond the one of the receiver, n being the bytes read.
Credit(s, n) ==
    /\ s.highTx <= s.highRxAck + s.rWnd
    /\ s.highRxAck + s.rWnd <= MaxRxSequence(n)

\* The receiver has the bytes R: all that was acknowledged and sacked, and nothing
\* beyond what was sent but the byte of a probe, while nothing else is outstanding.
Holding(s, R, n) ==
    /\ R \in SUBSET Byte
    /\ 1 .. (s.highRxAck - 1) \subseteq R
    /\ R \subseteq 1 .. s.highTx /\ R \subseteq 1 .. (n + RcvBufSize)
    /\ s.highTx \in R => s.buf.sentSize = 0
    /\ SackedBytes(s.buf) \subseteq R

\* A segment on its way is part of what was sent, a probe one byte, at most the next.
Flight(s, p) ==
    IF IsProbe(p)
    THEN /\ p.len = 1 /\ p.seq \in Byte /\ p.seq <= s.highTx
         /\ p.seq = s.highTx => s.buf.sentSize = 0
    ELSE p \in Segment /\ 1 <= p.seq /\ p.seq + p.len <= s.highTx

\* An ACK on its way tells of bytes the receiver has, and its right edge is not
\* behind the one the sender knows unless the ACK itself is.  An ACK that the
\* window update has overtaken and the buffer has not carries no SACK blocks.
Answer(s, m, R, n) ==
    /\ m.ack \in Nat /\ 1 <= m.ack /\ m.wnd \in Nat
    /\ 1 .. (m.ack - 1) \subseteq R
    /\ m.sack \in Seq(Block) /\ \A i \in 1 .. Len(m.sack) : m.ack < m.sack[i].first
    /\ Blocks(m) \subseteq R
    /\ Edge(m) <= MaxRxSequence(n)
    /\ m.sack # << >> => m.ack < s.highTx
    /\ s.highRxAck < m.ack => s.highRxAck + s.rWnd <= Edge(m)
    /\ s.buf.first <= m.ack /\ m.ack < s.highRxAck => m.sack = << >>
    /\ m.ack \notin SackedBytes(s.buf)

\* The right edge of a later ACK is never to the left of that of an earlier one.
Answers(s, A, R, n) ==
    /\ \A m \in A : Answer(s, m, R, n)
    /\ \A m, k \in A : (m.ack < k.ack => Edge(m) <= Edge(k)) /\ m.ack \notin Blocks(k)

FlowState(s, N, A, R, n) ==
    /\ Calm(s) /\ n \in Nat /\ Credit(s, n) /\ Holding(s, R, n)
    /\ \A p \in N : Flight(s, p)
    /\ Answers(s, A, R, n)

LEMMA SockNumbers ==
    ASSUME NEW s, SockOK(s)
    PROVE  /\ s.highTx \in Nat /\ s.buf.first \in Nat /\ s.buf.sentSize \in Nat /\ 1 <= s.buf.first
           /\ s.highTx = s.buf.first + s.buf.sentSize /\ s.highTx <= StreamLen + 1
           /\ s.highRxAck \in Nat /\ s.rWnd \in Nat /\ s.buf.first <= s.highRxAck
           /\ StreamLen \in Nat /\ RcvBufSize \in Nat
<1>1. Shape(s.buf) /\ s.highTx = SentEnd(s.buf) /\ s.highRxAck \in Nat /\ s.rWnd \in Nat
      /\ s.buf.first <= s.highRxAck
  BY DEF SockOK, Half, Board, Sound
<1>2. StreamLen \in Nat /\ RcvBufSize \in Nat
  BY TxStreamAssumption, SenderAssumption
<1> QED BY <1>1, <1>2, BufferNumbers

\* A part of a handler that leaves the window and what is acknowledged alone.
LEMMA FlowOfWork ==
    ASSUME NEW s, NEW t, NEW N, NEW A, NEW R, NEW n, FlowState(s, N, A, R, n),
           SockOK(t), Dups(t), t.sack = s.sack, t.highRxAck = s.highRxAck, t.rWnd = s.rWnd,
           \/ t.persist = s.persist /\ t.aborted = s.aborted
           \/ t.persist = FALSE /\ t.aborted = TRUE,
           t.buf.first = s.buf.first, s.highTx <= t.highTx, Within(s, t), Ready(s) => Ready(t),
           SackedBytes(t.buf) \subseteq SackedBytes(s.buf), Quiet(s, t)
    PROVE  FlowState(t, N, A, R, n)
<1>0. Calm(s) /\ SockOK(s) /\ n \in Nat
  BY DEF FlowState, Calm
<1>1. /\ s.highTx \in Nat /\ s.buf.first \in Nat /\ s.buf.sentSize \in Nat
      /\ s.highTx = s.buf.first + s.buf.sentSize
      /\ s.highRxAck \in Nat /\ s.rWnd \in Nat /\ s.buf.first <= s.highRxAck
      /\ StreamLen \in Nat /\ RcvBufSize \in Nat
  BY <1>0, SockNumbers
<1>2. t.highTx \in Nat /\ t.buf.sentSize \in Nat /\ t.highTx = t.buf.first + t.buf.sentSize
  BY SockNumbers
<1>3. t.highTx = s.highTx /\ s.buf.sentSize = 0 => t.buf.sentSize = 0
  BY <1>1, <1>2
<1>4. Calm(t)
  <2>1. s.rWnd = 0 /\ s.buf.sentSize = 0 => t.buf.sentSize = 0
    BY <1>1, <1>2 DEF Within
  <2>2. t.failed = {} /\ t.sack /\ Ready(t)
    BY <1>0 DEF Calm, Quiet
  <2> QED BY <1>0, <2>1, <2>2 DEF Calm
<1>5. Credit(t, n)
  <2>1. t.highTx <= s.highTx \/ t.highTx <= s.buf.first + s.rWnd
    BY DEF Within
  <2>2. s.highTx <= s.highRxAck + s.rWnd /\ s.highRxAck + s.rWnd <= MaxRxSequence(n)
    BY DEF FlowState, Credit
  <2>3. t.highTx <= s.highRxAck + s.rWnd
    BY <1>1, <1>2, <2>1, <2>2
  <2> QED BY <2>2, <2>3 DEF Credit
<1>6. Holding(t, R, n)
  <2>1. Holding(s, R, n)
    BY DEF FlowState
  <2>2. R \subseteq 1 .. t.highTx
    BY <1>1, <1>2, <2>1 DEF Holding
  <2>3. t.highTx \in R => t.highTx = s.highTx
    BY <1>1, <1>2, <2>1 DEF Holding
  <2>4. t.highTx \in R => t.buf.sentSize = 0
    BY <1>3, <2>1, <2>3 DEF Holding
  <2> QED BY <2>1, <2>2, <2>4 DEF Holding
<1>7. ASSUME NEW p \in N PROVE Flight(t, p)
  <2>1. Flight(s, p)
    BY DEF FlowState
  <2>2. CASE IsProbe(p)
    <3>1. p.len = 1 /\ p.seq \in Byte /\ p.seq <= s.highTx /\ (p.seq = s.highTx => s.buf.sentSize = 0)
      BY <2>1, <2>2 DEF Flight
    <3>2. p.seq \in Int
      BY <1>1, <3>1 DEF Byte
    <3>3. p.seq <= t.highTx /\ (p.seq = t.highTx => p.seq = s.highTx /\ t.highTx = s.highTx)
      BY <1>1, <1>2, <3>1, <3>2
    <3> QED BY <1>3, <2>2, <3>1, <3>3 DEF Flight
  <2>3. CASE ~ IsProbe(p)
    <3>1. p \in Segment /\ 1 <= p.seq /\ p.seq + p.len <= s.highTx
      BY <2>1, <2>3 DEF Flight
    <3>2. p.seq + p.len \in Int
      BY <3>1 DEF Segment
    <3>3. p.seq + p.len <= t.highTx
      BY <1>1, <1>2, <3>1, <3>2
    <3> QED BY <2>3, <3>1, <3>3 DEF Flight
  <2> QED BY <2>2, <2>3
<1>8. Answers(t, A, R, n)
  <2>1. Answers(s, A, R, n)
    BY DEF FlowState
  <2>2. ASSUME NEW m \in A PROVE Answer(t, m, R, n)
    <3>1. Answer(s, m, R, n)
      BY <2>1 DEF Answers
    <3>2. m.sack # << >> => m.ack < t.highTx
      BY <1>1, <1>2, <3>1 DEF Answer
    <3> QED BY <3>1, <3>2 DEF Answer
  <2> QED BY <2>1, <2>2 DEF Answers
<1> QED BY <1>0, <1>4, <1>5, <1>6, <1>7, <1>8 DEF FlowState

(***************************************************************************)
(* The invariant.  When the persist timer finds no byte the program ends,  *)
(* and only what is in the second part is left to say.                     *)
(***************************************************************************)
FlowOK == snd.out = << >> /\ FlowState(snd, DOMAIN net, DOMAIN acks, rcvd, rcv.read)

\* What is left of it in the state the program ends in.
FlowSafe ==
    /\ NewDataFits /\ ProbeIsUnsent
    /\ Board(snd.buf) /\ NeverForgetsMissing /\ snd.failed \subseteq {NoByte}

\* The receiver and its delayed ACK.
Owing ==
    /\ rcv \in [read : Nat, delAckCount : Nat, delAck : BOOLEAN, highTxAck : Nat]
    /\ OwedAckHasTimer

FlowInv == (Running => FlowOK) /\ FlowSafe /\ Owing

LEMMA FlowOKGives ==
    ASSUME FlowOK
    PROVE  FlowSafe /\ Running
<1>0. /\ Calm(snd) /\ SockOK(snd) /\ Credit(snd, rcv.read) /\ Holding(snd, rcvd, rcv.read)
      /\ rcv.read \in Nat
  BY DEF FlowOK, FlowState, Calm
<1>1. /\ snd.highTx \in Nat /\ snd.highRxAck \in Nat /\ snd.rWnd \in Nat /\ RcvBufSize \in Nat
      /\ snd.buf.first \in Nat /\ snd.buf.first <= snd.highRxAck
  BY <1>0, SockNumbers
<1>2. NewDataFits
  <2> SUFFICES ASSUME NEW p \in BagToSet(net), ~ IsProbe(p)
               PROVE  p.seq + p.len <= MaxRxSequence(rcv.read)
    BY DEF NewDataFits
  <2>1. Flight(snd, p)
    BY DEF FlowOK, FlowState, BagToSet
  <2>2. p \in Segment /\ p.seq + p.len <= snd.highTx
    BY <2>1 DEF Flight
  <2>3. p.seq + p.len \in Int
    BY <2>2 DEF Segment
  <2>4. MaxRxSequence(rcv.read) \in Int
    BY <1>0, <1>1 DEF MaxRxSequence
  <2>5. snd.highTx <= snd.highRxAck + snd.rWnd /\ snd.highRxAck + snd.rWnd <= MaxRxSequence(rcv.read)
    BY <1>0 DEF Credit
  <2> QED BY <1>1, <2>2, <2>3, <2>4, <2>5
<1>3. ProbeIsUnsent
  <2>1. snd.persist => snd.buf.sentSize = 0
    BY <1>0 DEF Calm
  <2>2. snd.buf.sentSize = 0 => DOMAIN snd.buf.sent = {}
    BY <1>0, HeadIsFirst DEF SockOK, Half, Board, Sound
  <2> QED BY <2>1, <2>2 DEF ProbeIsUnsent
<1>4. Board(snd.buf)
  BY <1>0 DEF SockOK, Half
<1>5. NeverForgetsMissing
  <2>1. 1 .. (snd.highRxAck - 1) \subseteq rcvd /\ SackedBytes(snd.buf) \subseteq rcvd
    BY <1>0 DEF Holding
  <2>2. \A x \in Byte : x < snd.buf.first => x \in rcvd
    BY <1>1, <2>1, TxStreamAssumption DEF Byte
  <2> QED BY <2>1, <2>2 DEF NeverForgetsMissing, SackedBytes
<1>6. snd.failed = {}
  BY <1>0 DEF Calm
<1> QED BY <1>2, <1>3, <1>4, <1>5, <1>6 DEF FlowSafe, Running

\* A handler h has run and its segments join those in flight.
LEMMA FlowDispatch ==
    ASSUME NEW h, FlowState(h, DOMAIN net, DOMAIN acks', rcvd', rcv'.read), Dispatch(h)
    PROVE  FlowOK'
<1> DEFINE A == DOMAIN acks'
           R == rcvd'
           n == rcv'.read
           N == DOMAIN net
<1>0. SockOK(h) /\ Dups(h) /\ h.sack
  BY DEF FlowState, Calm
<1>1. DOMAIN h = SocketField /\ h.sendPending \in BOOLEAN /\ Leaving(h)
  BY <1>0 DEF SockOK, Half, Typed
<1>2. snd' = [h EXCEPT !.out = << >>] /\ net' = Enqueue(net, h.out)
  BY DEF Dispatch
<1>3. SameBut(h, snd', {"sendPending", "out"}) /\ snd'.sendPending = h.sendPending /\ snd'.out = << >>
      /\ snd'.aborted = h.aborted
  BY <1>1, <1>2 DEF SameBut, SocketField
<1>4. /\ SockOK(snd') /\ Dups(snd') /\ snd'.sack = h.sack /\ snd'.buf = h.buf /\ snd'.highTx = h.highTx
      /\ snd'.nextTx = h.nextTx /\ snd'.highRxAck = h.highRxAck /\ snd'.rWnd = h.rWnd
      /\ snd'.persist = h.persist /\ snd'.failed = h.failed
  <2> DEFINE t == snd'
  <2>1. SameBut(h, t, {"sendPending", "out"}) /\ t.sendPending \in BOOLEAN /\ (t.out = << >> \/ t.out = h.out)
    BY <1>1, <1>3
  <2>0. SockOK(h) /\ Dups(h)
    BY <1>0
  <2> HIDE DEF t
  <2>2. /\ SockOK(t) /\ Dups(t) /\ t.sack = h.sack /\ t.buf = h.buf /\ t.highTx = h.highTx
        /\ t.nextTx = h.nextTx /\ t.highRxAck = h.highRxAck /\ t.rWnd = h.rWnd
        /\ t.persist = h.persist /\ t.failed = h.failed
    BY <2>0, <2>1, CleanedOK
  <2> QED BY <2>2 DEF t
<1>5. h.highTx \in Nat
  BY <1>0, SockNumbers
<1>6. FlowState(snd', N, A, R, n)
  <2>1. h.highTx <= snd'.highTx /\ Within(h, snd') /\ (Ready(h) => Ready(snd')) /\ Quiet(h, snd')
    BY <1>4, <1>5 DEF Within, Ready, Quiet
  <2>2. FlowState(h, N, A, R, n)
    OBVIOUS
  <2> HIDE DEF N, A, R, n
  <2> QED BY <1>3, <1>4, <2>1, <2>2, FlowOfWork
<1>7. ASSUME NEW p \in DOMAIN net' PROVE Flight(snd', p)
  <2>1. Len(h.out) \in Nat
    BY <1>1 DEF Leaving
  <2>2. p \in DOMAIN net \/ \E i \in 1 .. Len(h.out) : p = h.out[i]
    BY <1>2, <2>1, EnqueueHolds
  <2>3. CASE p \in DOMAIN net
    BY <1>6, <2>3 DEF FlowState
  <2>4. ASSUME NEW i \in 1 .. Len(h.out), p = h.out[i] PROVE Flight(snd', p)
    <3> DEFINE G == Segment
    <3>1. h.out \in Seq(G)
      BY <1>1 DEF Leaving
    <3>2. h.out[i] \in G
      <4> HIDE DEF G
      <4> QED BY <3>1
    <3>3. p \in Segment /\ 1 <= p.seq /\ p.seq + p.len <= snd'.highTx
      BY <1>1, <1>4, <2>4, <3>2 DEF Leaving
    <3>4. ~ IsProbe(p)
      BY <3>3 DEF Segment, IsProbe
    <3> QED BY <3>3, <3>4 DEF Flight
  <2> QED BY <2>2, <2>3, <2>4
<1>8. FlowState(snd', DOMAIN net', A, R, n)
  BY <1>6, <1>7 DEF FlowState
<1> QED BY <1>3, <1>8 DEF FlowOK

\* The events of the socket alone.
LEMMA SendFlows ==
    ASSUME FlowOK, NEW k \in Writes, Send(k), rcv' = rcv
    PROVE  FlowOK'
<1>0. FlowState(snd, DOMAIN net, DOMAIN acks, rcvd, rcv.read) /\ snd.out = << >>
      /\ SockOK(snd) /\ Dups(snd) /\ snd.sack
  BY DEF FlowOK, FlowState, Calm
<1>1. /\ SockOK(snd') /\ Dups(snd') /\ Works(snd, snd')
      /\ snd'.highTx = snd.highTx /\ snd'.out = snd.out /\ snd'.failed = snd.failed
      /\ net' = net /\ acks' = acks /\ rcvd' = rcvd
  BY <1>0, SendWorks
<1>2. FlowState(snd', DOMAIN net, DOMAIN acks, rcvd, rcv.read)
  BY <1>0, <1>1, FlowOfWork DEF Works
<1> QED BY <1>0, <1>1, <1>2 DEF FlowOK

LEMMA SendPendingDataEventFlows ==
    ASSUME FlowOK, SendPendingDataEvent, rcv' = rcv
    PROVE  FlowOK'
<1> DEFINE p == SendPendingData(snd)
           h == [p EXCEPT !.sendPending = FALSE]
<1>0. FlowState(snd, DOMAIN net, DOMAIN acks, rcvd, rcv.read)
      /\ SockOK(snd) /\ Dups(snd) /\ snd.sack
  BY DEF FlowOK, FlowState, Calm
<1>1. Dispatch(h) /\ acks' = acks /\ rcvd' = rcvd
  BY Zenon DEF SendPendingDataEvent
<1>2. Sends(snd, p)
  BY <1>0, SendPendingDataSends
<1> HIDE DEF p
<1>3. SockOK(p) /\ Works(snd, p) /\ Dups(p) /\ DOMAIN p = SocketField
  BY <1>0, <1>2, DupsSame DEF Sends, SockOK, Half, Typed
<1>4. SameBut(p, h, {"sendPending", "out"}) /\ h.sendPending = FALSE /\ h.out = p.out
      /\ h.aborted = p.aborted
  BY <1>3 DEF SameBut, SocketField
<1> HIDE DEF h
<1>5. /\ SockOK(h) /\ Dups(h) /\ h.sack = p.sack /\ h.buf = p.buf /\ h.highTx = p.highTx
      /\ h.nextTx = p.nextTx /\ h.highRxAck = p.highRxAck /\ h.rWnd = p.rWnd
      /\ h.persist = p.persist /\ h.failed = p.failed
  BY <1>3, <1>4, CleanedOK
<1>6. FlowState(h, DOMAIN net, DOMAIN acks, rcvd, rcv.read)
  <2>1. /\ h.sack = snd.sack /\ h.highRxAck = snd.highRxAck /\ h.rWnd = snd.rWnd
        /\ h.persist = snd.persist /\ h.aborted = snd.aborted
        /\ h.buf.first = snd.buf.first /\ snd.highTx <= h.highTx
        /\ Within(snd, h) /\ (Ready(snd) => Ready(h))
        /\ SackedBytes(h.buf) \subseteq SackedBytes(snd.buf) /\ Quiet(snd, h)
    BY <1>0, <1>3, <1>4, <1>5 DEF Works, Within, Ready, Quiet
  <2> QED BY <1>0, <1>5, <2>1, FlowOfWork
<1>7. FlowState(h, DOMAIN net, DOMAIN acks', rcvd', rcv'.read)
  BY <1>1, <1>6
<1> QED BY <1>1, <1>7, FlowDispatch

LEMMA ReTxTimeoutFlows ==
    ASSUME FlowOK, ReTxTimeout, rcv' = rcv
    PROVE  FlowOK'
<1> DEFINE h == ReTxTimeoutOf(snd)
<1>0. FlowState(snd, DOMAIN net, DOMAIN acks, rcvd, rcv.read)
      /\ SockOK(snd) /\ Dups(snd) /\ snd.sack /\ ~ snd.aborted
  BY DEF FlowOK, FlowState, Calm, ReTxTimeout
<1>1. Dispatch(h) /\ acks' = acks /\ rcvd' = rcvd
  BY Zenon DEF ReTxTimeout
<1>2. Expires(snd, h)
  BY <1>0, ReTxTimeoutWorks
<1> HIDE DEF h
<1>3. FlowState(h, DOMAIN net, DOMAIN acks, rcvd, rcv.read)
  <2>1. /\ SockOK(h) /\ Dups(h) /\ h.sack = snd.sack /\ h.highRxAck = snd.highRxAck
        /\ h.rWnd = snd.rWnd
        /\ \/ h.persist = snd.persist /\ h.aborted = snd.aborted
           \/ h.persist = FALSE /\ h.aborted = TRUE
        /\ h.buf.first = snd.buf.first /\ snd.highTx <= h.highTx
        /\ Within(snd, h) /\ (Ready(snd) => Ready(h))
        /\ SackedBytes(h.buf) \subseteq SackedBytes(snd.buf) /\ Quiet(snd, h)
    BY <1>0, <1>2 DEF Expires
  <2> QED BY <1>0, <2>1, FlowOfWork
<1>4. FlowState(h, DOMAIN net, DOMAIN acks', rcvd', rcv'.read)
  BY <1>1, <1>3
<1> QED BY <1>1, <1>4, FlowDispatch

(***************************************************************************)
(* The receiver.                                                           *)
(***************************************************************************)
\* More bytes have arrived or were read, and messages have left the network.
LEMMA FlowGrows ==
    ASSUME NEW s, NEW N, NEW A, NEW R, NEW n, FlowState(s, N, A, R, n),
           NEW M, M \subseteq N, NEW D, D \subseteq A, NEW k \in Nat, n <= k,
           NEW S \in SUBSET Byte, R \subseteq S, S \subseteq 1 .. s.highTx,
           S \subseteq 1 .. (k + RcvBufSize), s.highTx \in S => s.buf.sentSize = 0
    PROVE  FlowState(s, M, D, S, k)
<1>0. Calm(s) /\ SockOK(s) /\ n \in Nat /\ Credit(s, n) /\ Holding(s, R, n) /\ Answers(s, A, R, n)
  BY DEF FlowState, Calm
<1>1. /\ s.highRxAck \in Nat /\ s.rWnd \in Nat /\ RcvBufSize \in Nat
  BY <1>0, SockNumbers
<1>2. MaxRxSequence(n) <= MaxRxSequence(k) /\ MaxRxSequence(n) \in Nat /\ MaxRxSequence(k) \in Nat
  BY <1>0, <1>1 DEF MaxRxSequence
<1>3. Credit(s, k)
  <2>1. s.highRxAck + s.rWnd \in Nat /\ s.highRxAck + s.rWnd <= MaxRxSequence(n)
    BY <1>0, <1>1 DEF Credit
  <2>2. s.highRxAck + s.rWnd <= MaxRxSequence(k)
    BY <1>2, <2>1
  <2> QED BY <1>0, <2>2 DEF Credit
<1>4. Holding(s, S, k)
  BY <1>0 DEF Holding
<1>5. ASSUME NEW m \in D PROVE Answer(s, m, S, k)
  <2>1. Answer(s, m, R, n)
    BY <1>0 DEF Answers
  <2>2. Edge(m) \in Nat /\ Edge(m) <= MaxRxSequence(n)
    BY <2>1 DEF Answer, Edge
  <2>3. Edge(m) <= MaxRxSequence(k)
    BY <1>2, <2>2
  <2> QED BY <2>1, <2>3 DEF Answer
<1>6. Answers(s, D, S, k)
  BY <1>0, <1>5 DEF Answers
<1>7. \A p \in M : Flight(s, p)
  BY DEF FlowState
<1> QED BY <1>0, <1>3, <1>4, <1>6, <1>7 DEF FlowState

\* An ACK is sent with the window as it is.
LEMMA FlowAnswers ==
    ASSUME NEW N, NEW A, NEW R, NEW n, FlowState(snd, N, A, R, n), NEW x \in Int,
           NEW D, \A m \in D : \/ m \in A
                               \/ m = [ack |-> NextRxSequence(R), sack |-> SackList(R, x),
                                       wnd |-> AdvertisedWindowSize(R, n)]
    PROVE  FlowState(snd, N, D, R, n)
<1> DEFINE F == FirstMissing(R)
           L == SackList(R, x)
           a == [ack |-> NextRxSequence(R), sack |-> SackList(R, x),
                 wnd |-> AdvertisedWindowSize(R, n)]
<1>0. /\ Calm(snd) /\ SockOK(snd) /\ snd.sack /\ n \in Nat
      /\ Credit(snd, n) /\ Holding(snd, R, n) /\ Answers(snd, A, R, n)
  BY DEF FlowState, Calm
<1>1. /\ snd.highRxAck \in Nat /\ snd.rWnd \in Nat /\ RcvBufSize \in Nat /\ StreamLen \in Nat
      /\ snd.highTx \in Nat
  BY <1>0, SockNumbers
<1>2. /\ R \in SUBSET Byte /\ R \subseteq 1 .. snd.highTx /\ R \subseteq 1 .. (n + RcvBufSize)
      /\ 1 .. (snd.highRxAck - 1) \subseteq R /\ SackedBytes(snd.buf) \subseteq R
  BY <1>0 DEF Holding
<1>3. F \in 1 .. (StreamLen + 1) /\ F \notin R /\ 1 .. (F - 1) \subseteq R
  BY <1>2, FirstMissingIs
<1>4. L \in Seq(Block) /\ (\A i \in 1 .. Len(L) : L[i] \in BlocksOf(R))
  BY <1>2, SackListIs
<1>5. \A k \in BlocksOf(R) : /\ k \in Block /\ F < k.first /\ k.first \in R
                             /\ \A y \in Int : k.first <= y /\ y < k.second => y \in R
  BY <1>2, BlocksApart, Zenon
<1>6. a.ack = F /\ a.sack = L /\ a.wnd = (n + 1 + RcvBufSize) - F
  <2>0. NextRxSequence(R) = F
    BY DEF NextRxSequence
  <2> HIDE DEF F, L
  <2>1. NextRxSequence(R) = F /\ AdvertisedWindowSize(R, n) = (n + 1 + RcvBufSize) - F
    BY <2>0 DEF AdvertisedWindowSize, MaxRxSequence
  <2>2. a = [ack |-> F, sack |-> L, wnd |-> (n + 1 + RcvBufSize) - F]
    BY <2>1, Zenon DEF L
  <2> HIDE DEF a
  <2> QED BY <2>2
<1>7. \A m \in D : m \in A \/ m = a
  OBVIOUS
<1> HIDE DEF F, L, a
<1>8. F \in Nat /\ 1 <= F /\ F <= n + 1 + RcvBufSize
  <2>1. F \in Nat /\ 1 <= F
    BY <1>1, <1>3
  <2>2. CASE F = 1
    BY <1>0, <1>1, <2>2
  <2>3. CASE F > 1
    <3>1. F - 1 \in R
      BY <1>3, <2>1, <2>3
    <3>2. F - 1 \in 1 .. (n + RcvBufSize)
      BY <1>2, <3>1
    <3> QED BY <1>0, <1>1, <2>1, <3>2
  <2> QED BY <2>1, <2>2, <2>3
<1>9. a.wnd \in Nat /\ Edge(a) = MaxRxSequence(n) /\ MaxRxSequence(n) \in Nat
  BY <1>0, <1>1, <1>6, <1>8 DEF Edge, MaxRxSequence
<1>10. Blocks(a) \subseteq R /\ \A y \in Blocks(a) : F < y
  <2>1. SUFFICES ASSUME NEW y \in Blocks(a) PROVE y \in R /\ F < y
    OBVIOUS
  <2>2. PICK i \in 1 .. Len(L) : L[i].first <= y /\ y < L[i].second
    BY <1>6 DEF Blocks
  <2>3. y \in Int
    BY DEF Blocks
  <2>4. L[i] \in BlocksOf(R)
    BY <1>4
  <2>5. L[i] \in Block /\ F < L[i].first /\ (L[i].first <= y /\ y < L[i].second => y \in R)
    BY <1>5, <2>3, <2>4
  <2>6. L[i].first \in Int
    BY <2>5 DEF Block
  <2> QED BY <1>8, <2>2, <2>3, <2>5, <2>6
<1>11. snd.highRxAck <= F
  <2>1. SUFFICES ASSUME F < snd.highRxAck PROVE FALSE
    BY <1>1, <1>8
  <2>2. F \in 1 .. (snd.highRxAck - 1)
    BY <1>1, <1>8, <2>1
  <2> QED BY <1>2, <1>3, <2>2
<1>12. L # << >> => F < snd.highTx
  <2>1. SUFFICES ASSUME L # << >> PROVE F < snd.highTx
    OBVIOUS
  <2>3. 1 \in 1 .. Len(L)
    <3> DEFINE Bl == Block
    <3>1. L \in Seq(Bl)
      BY <1>4
    <3> HIDE DEF Bl
    <3> QED BY <2>1, <3>1
  <2>4. L[1] \in BlocksOf(R)
    BY <1>4, <2>3
  <2>5. F < L[1].first /\ L[1].first \in 1 .. snd.highTx
    BY <1>2, <1>5, <2>4
  <2> QED BY <1>1, <1>8, <2>5
<1>13. Answer(snd, a, R, n)
  <2>1. \A i \in 1 .. Len(L) : F < L[i].first
    BY <1>4, <1>5
  <2>2. snd.highRxAck + snd.rWnd <= Edge(a)
    BY <1>0, <1>9 DEF Credit
  <2>3. ~ (F < snd.highRxAck)
    BY <1>1, <1>8, <1>11
  <2>4. F \notin SackedBytes(snd.buf)
    BY <1>2, <1>3
  <2>5. Edge(a) <= MaxRxSequence(n)
    BY <1>9
  <2> QED BY <1>3, <1>4, <1>6, <1>8, <1>9, <1>10, <1>12, <2>1, <2>2, <2>3, <2>4, <2>5 DEF Answer
\* The ACKs that were in flight before.
<1>14. ASSUME NEW m \in A
       PROVE  /\ Answer(snd, m, R, n) /\ m.ack \in Nat /\ m.ack <= F
              /\ Blocks(m) \subseteq R /\ Edge(m) <= Edge(a)
  <2>1. Answer(snd, m, R, n)
    BY <1>0 DEF Answers
  <2>2. m.ack \in Nat /\ 1 .. (m.ack - 1) \subseteq R /\ Blocks(m) \subseteq R /\ Edge(m) <= Edge(a)
    BY <1>9, <2>1 DEF Answer
  <2>3. m.ack <= F
    <3>1. SUFFICES ASSUME F < m.ack PROVE FALSE
      BY <1>8, <2>2
    <3>2. F \in 1 .. (m.ack - 1)
      BY <1>8, <2>2, <3>1
    <3> QED BY <1>3, <2>2, <3>2
  <2> QED BY <2>1, <2>2, <2>3
<1>15. ASSUME NEW m \in D, NEW k \in D
       PROVE  (m.ack < k.ack => Edge(m) <= Edge(k)) /\ m.ack \notin Blocks(k)
  <2>1. CASE m \in A /\ k \in A
    BY <1>0, <2>1 DEF Answers
  <2>2. CASE m \in A /\ k = a
    <3>1. m.ack \in Nat /\ m.ack <= F /\ Edge(m) <= Edge(a)
      BY <1>14, <2>2
    <3>2. m.ack \in Blocks(a) => F < m.ack
      BY <1>10
    <3> QED BY <1>8, <2>2, <3>1, <3>2
  <2>3. CASE m = a /\ k \in A
    <3>1. k.ack \in Nat /\ k.ack <= F /\ Blocks(k) \subseteq R
      BY <1>14, <2>3
    <3>2. ~ (F < k.ack) /\ F \notin Blocks(k)
      BY <1>3, <1>8, <3>1
    <3> QED BY <1>6, <2>3, <3>2
  <2>4. CASE m = a /\ k = a
    <3>1. ~ (F < F) /\ F \notin Blocks(a)
      BY <1>3, <1>8, <1>10
    <3> QED BY <1>6, <2>4, <3>1
  <2> QED BY <1>7, <2>1, <2>2, <2>3, <2>4
<1>16. \A m \in D : Answer(snd, m, R, n)
  BY <1>7, <1>13, <1>14
<1>17. Answers(snd, D, R, n)
  BY <1>15, <1>16 DEF Answers
<1> QED BY <1>17 DEF FlowState

\* What SendAck leaves.
LEMMA SendAckFlows ==
    ASSUME NEW R \in SUBSET Byte, NEW n \in Nat, NEW x \in Int, rcv.highTxAck \in Nat,
           rcvd' = R, SendAck(R, n, x), NEW N, FlowState(snd, N, DOMAIN acks, R, n)
    PROVE  FlowState(snd, N, DOMAIN acks', rcvd', rcv'.read) /\ Owing'
<1> DEFINE a == [ack |-> NextRxSequence(R), sack |-> SackList(R, x), wnd |-> AdvertisedWindowSize(R, n)]
           F == NextRxSequence(R)
           M == Max({rcv.highTxAck, F})
<1>1. /\ acks' = Enqueue(acks, <<a>>)
      /\ rcv' = [read |-> n, delAckCount |-> 0, delAck |-> FALSE, highTxAck |-> M]
  BY DEF SendAck
<1>2. F \in Nat
  BY FirstMissingIs, TxStreamAssumption DEF NextRxSequence
<1>3. \A m \in DOMAIN acks' : m \in DOMAIN acks \/ m = a
  <2> HIDE DEF a
  <2>1. Len(<<a>>) = 1 /\ <<a>>[1] = a
    OBVIOUS
  <2>2. Len(<<a>>) \in Nat
    BY <2>1
  <2>3. \A m \in DOMAIN Enqueue(acks, <<a>>) : m \in DOMAIN acks \/ \E i \in 1 .. Len(<<a>>) : m = <<a>>[i]
    BY <2>2, EnqueueHolds
  <2>4. \A i \in 1 .. Len(<<a>>) : i = 1
    BY <2>1
  <2> QED BY <1>1, <2>1, <2>3, <2>4
<1>4. FlowState(snd, N, DOMAIN acks', R, n)
  BY <1>3, FlowAnswers
<1> HIDE DEF F
<1>5. M \in Nat /\ F <= M
  <2>1. M = IF rcv.highTxAck <= F THEN F ELSE rcv.highTxAck
    BY <1>2, MaxOfTwo
  <2> HIDE DEF M
  <2> QED BY <1>2, <2>1
<1> HIDE DEF M, a
<1>6. rcv'.read = n /\ rcv'.highTxAck = M
  BY <1>1
<1>7. rcv' \in [read : Nat, delAckCount : Nat, delAck : BOOLEAN, highTxAck : Nat]
  BY <1>1, <1>5
<1>8. ~ (rcv'.highTxAck < NextRxSequence(rcvd'))
  <2>1. ~ (M < F)
    BY <1>2, <1>5
  <2> QED BY <1>6, <2>1 DEF F
<1>9. Owing'
  BY <1>7, <1>8, Zenon DEF Owing, OwedAckHasTimer
<1> QED BY <1>4, <1>6, <1>9

LEMMA ReceiverTyped ==
    ASSUME Owing
    PROVE  /\ rcv.read \in Nat /\ rcv.highTxAck \in Nat /\ rcv.delAckCount \in Nat
           /\ DOMAIN rcv = {"read", "delAckCount", "delAck", "highTxAck"}
BY DEF Owing

\* The bytes the buffer takes from a segment are below its right edge, and only a
\* probe brings one that was not sent as data.
LEMMA StoredFits ==
    ASSUME FlowOK, NEW p \in DOMAIN net, ~ OutOfRange(p)
    PROVE  LET R == rcvd \cup Stored(p)
           IN  /\ R \in SUBSET Byte /\ R \subseteq 1 .. snd.highTx
               /\ R \subseteq 1 .. (rcv.read + RcvBufSize)
               /\ snd.highTx \in R => snd.buf.sentSize = 0
<1>0. /\ SockOK(snd) /\ Credit(snd, rcv.read) /\ Holding(snd, rcvd, rcv.read) /\ rcv.read \in Nat
      /\ Flight(snd, p)
  BY DEF FlowOK, FlowState, Calm
<1>1. /\ snd.highTx \in Nat /\ snd.highRxAck \in Nat /\ snd.rWnd \in Nat /\ RcvBufSize \in Nat
      /\ StreamLen \in Nat /\ snd.highTx <= StreamLen + 1
  BY <1>0, SockNumbers
<1>2. /\ rcvd \in SUBSET Byte /\ rcvd \subseteq 1 .. snd.highTx
      /\ rcvd \subseteq 1 .. (rcv.read + RcvBufSize) /\ (snd.highTx \in rcvd => snd.buf.sentSize = 0)
  BY <1>0 DEF Holding
<1>3. Stored(p) \subseteq p.seq .. (p.seq + p.len - 1)
  BY Zenon DEF Stored
<1>4. ASSUME NEW x \in Stored(p)
      PROVE  /\ x \in Byte /\ x \in 1 .. snd.highTx /\ x \in 1 .. (rcv.read + RcvBufSize)
             /\ x = snd.highTx => snd.buf.sentSize = 0
  <2>0. x \in p.seq .. (p.seq + p.len - 1)
    BY <1>3
  <2>1. CASE IsProbe(p)
    <3>1. p.len = 1 /\ p.seq \in Byte /\ p.seq <= snd.highTx /\ (p.seq = snd.highTx => snd.buf.sentSize = 0)
      BY <1>0, <2>1 DEF Flight
    <3>2. p.seq \in Nat /\ 1 <= p.seq
      BY <1>1, <3>1 DEF Byte
    <3>3. x = p.seq
      BY <2>0, <3>1, <3>2
    <3>4. p.seq < rcv.read + 1 + RcvBufSize
      BY <1>0, <1>1, <3>2 DEF OutOfRange, MaxRxSequence
    <3> QED BY <1>0, <1>1, <3>1, <3>2, <3>3, <3>4
  <2>2. CASE ~ IsProbe(p)
    <3>1. p \in Segment /\ 1 <= p.seq /\ p.seq + p.len <= snd.highTx
      BY <1>0, <2>2 DEF Flight
    <3>2. p.seq \in Int /\ p.len \in Int
      BY <3>1 DEF Segment
    <3>3. x \in Int /\ 1 <= x /\ x <= snd.highTx - 1
      BY <1>1, <2>0, <3>1, <3>2
    <3>4. snd.highTx <= rcv.read + 1 + RcvBufSize
      BY <1>0, <1>1 DEF Credit, MaxRxSequence
    <3> QED BY <1>0, <1>1, <3>3, <3>4 DEF Byte
  <2> QED BY <2>1, <2>2
<1> QED BY <1>2, <1>4

LEMMA ReceivedDataFlows ==
    ASSUME FlowOK, Owing, NEW p, NEW n \in Nat, ReceivedData(p, n)
    PROVE  FlowOK' /\ Owing'
<1> DEFINE R == rcvd \cup Stored(p)
           next == NextRxSequence(R)
           gap == \E x \in R : x > next
           filled == next > NextRxSequence(rcvd) + p.len
<1>0. /\ FlowState(snd, DOMAIN net, DOMAIN acks, rcvd, rcv.read) /\ snd.out = << >>
      /\ Holding(snd, rcvd, rcv.read)
  BY DEF FlowOK, FlowState
<1>1. rcv.read \in Nat /\ rcv.highTxAck \in Nat /\ rcv.delAckCount \in Nat
      /\ DOMAIN rcv = {"read", "delAckCount", "delAck", "highTxAck"}
  BY ReceiverTyped
<1>2. BagIn(p, net) /\ net' = net (-) SetToBag({p}) /\ snd' = snd
  BY Zenon DEF ReceivedData
<1>3. \/ n = rcv.read /\ rcvd' = rcvd /\ SendAck(rcvd, n, p.seq)
      \/ /\ ~ OutOfRange(p) /\ rcv.read <= n /\ rcvd' = R
         /\ SendAck(R, n, p.seq) \/ DelayAck(n)
  <2>1. \/ n = rcv.read /\ rcvd' = rcvd /\ SendAck(rcvd, n, p.seq)
        \/ /\ ~ OutOfRange(p) /\ rcvd' = R
           /\ n = rcv.read \/ n \in rcv.read .. (next - 1)
           /\ SendAck(R, n, p.seq) \/ DelayAck(n)
    BY Zenon DEF ReceivedData
  <2> HIDE DEF R, next
  <2>2. n = rcv.read \/ n \in rcv.read .. (next - 1) => rcv.read <= n
    BY <1>1
  <2> QED BY <2>1, <2>2
<1>4. p \in DOMAIN net /\ DOMAIN net' \subseteq DOMAIN net
  BY <1>2, BagFacts
<1>5. p.seq \in Int
  <2>1. Flight(snd, p)
    BY <1>0, <1>4 DEF FlowState
  <2> QED BY <2>1, TxStreamAssumption DEF Flight, Segment, Byte
<1>6. ASSUME FlowState(snd, DOMAIN net', DOMAIN acks', rcvd', rcv'.read) PROVE FlowOK'
  BY <1>0, <1>2, <1>6 DEF FlowOK
<1>7. CASE n = rcv.read /\ rcvd' = rcvd /\ SendAck(rcvd, n, p.seq)
  <2>1. rcvd \in SUBSET Byte
    BY <1>0 DEF Holding
  <2>2. FlowState(snd, DOMAIN net', DOMAIN acks, rcvd, n)
    BY <1>0, <1>4, <1>7 DEF FlowState
  <2> QED BY <1>1, <1>5, <1>6, <1>7, <2>1, <2>2, SendAckFlows
<1>8. CASE /\ ~ OutOfRange(p) /\ rcv.read <= n /\ rcvd' = R
           /\ SendAck(R, n, p.seq) \/ DelayAck(n)
  <2>1. /\ R \in SUBSET Byte /\ R \subseteq 1 .. snd.highTx
        /\ R \subseteq 1 .. (rcv.read + RcvBufSize)
        /\ snd.highTx \in R => snd.buf.sentSize = 0
    BY <1>4, <1>8, StoredFits
  <2>2. rcvd \subseteq R
    OBVIOUS
  <2> HIDE DEF R
  <2>3. RcvBufSize \in Nat
    BY SenderAssumption
  <2>4. R \subseteq 1 .. (n + RcvBufSize)
    BY <1>1, <1>8, <2>1, <2>3
  <2>5. FlowState(snd, DOMAIN net', DOMAIN acks, R, n)
    BY <1>0, <1>4, <1>8, <2>1, <2>2, <2>4, FlowGrows
  <2>6. CASE SendAck(R, n, p.seq)
    BY <1>1, <1>5, <1>6, <1>8, <2>1, <2>5, <2>6, SendAckFlows
  <2>7. CASE DelayAck(n)
    <3>1. acks' = acks /\ rcv' = [rcv EXCEPT !.read = n, !.delAckCount = @ + 1, !.delAck = TRUE]
      BY <2>7 DEF DelayAck
    <3>2. rcv' \in [read : Nat, delAckCount : Nat, delAck : BOOLEAN, highTxAck : Nat]
      <4>1. rcv.delAckCount + 1 \in Nat
        BY <1>1
      <4>2. rcv \in [read : Nat, delAckCount : Nat, delAck : BOOLEAN, highTxAck : Nat]
        BY DEF Owing
      <4> QED BY <3>1, <4>1, <4>2, Zenon
    <3>3. rcv'.read = n /\ rcv'.delAck = TRUE
      BY <1>1, <3>1
    <3>4. Owing'
      BY <3>2, <3>3, Zenon DEF Owing, OwedAckHasTimer
    <3>5. FlowState(snd, DOMAIN net', DOMAIN acks', rcvd', rcv'.read)
      BY <1>8, <2>5, <3>1, <3>3
    <3> QED BY <1>6, <3>4, <3>5
  <2> QED BY <1>8, <2>6, <2>7
<1> QED BY <1>3, <1>7, <1>8

LEMMA DelAckTimeoutFlows ==
    ASSUME FlowOK, Owing, DelAckTimeout
    PROVE  FlowOK' /\ Owing'
<1>0. /\ FlowState(snd, DOMAIN net, DOMAIN acks, rcvd, rcv.read) /\ snd.out = << >>
      /\ rcvd \in SUBSET Byte
  BY DEF FlowOK, FlowState, Holding
<1>1. rcv.read \in Nat /\ rcv.highTxAck \in Nat
  BY ReceiverTyped
<1>2. snd' = snd /\ net' = net /\ rcvd' = rcvd /\ SendAck(rcvd, rcv.read, 0)
  BY DEF DelAckTimeout
<1>3. FlowState(snd, DOMAIN net, DOMAIN acks', rcvd', rcv'.read) /\ Owing'
  BY <1>0, <1>1, <1>2, SendAckFlows
<1> QED BY <1>0, <1>2, <1>3 DEF FlowOK

LEMMA RecvFlows ==
    ASSUME FlowOK, Owing, NEW n \in Byte, Recv(n)
    PROVE  FlowOK' /\ Owing'
<1>0. /\ FlowState(snd, DOMAIN net, DOMAIN acks, rcvd, rcv.read) /\ snd.out = << >>
      /\ Holding(snd, rcvd, rcv.read)
  BY DEF FlowOK, FlowState
<1>1. rcv.read \in Nat /\ DOMAIN rcv = {"read", "delAckCount", "delAck", "highTxAck"}
      /\ RcvBufSize \in Nat /\ n \in Nat
  BY ReceiverTyped, SenderAssumption, TxStreamAssumption DEF Byte
<1>2. n \in (rcv.read + 1) .. (NextRxSequence(rcvd) - 1)
      /\ rcv' = [rcv EXCEPT !.read = n] /\ snd' = snd /\ net' = net /\ acks' = acks /\ rcvd' = rcvd
  BY DEF Recv
<1>3. rcv.read <= n
  BY <1>1, <1>2
<1>4. rcv'.read = n /\ rcv'.delAck = rcv.delAck /\ rcv'.highTxAck = rcv.highTxAck
  BY <1>1, <1>2
<1>5. FlowState(snd, DOMAIN net, DOMAIN acks, rcvd, n)
  <2>1. rcvd \in SUBSET Byte /\ rcvd \subseteq 1 .. snd.highTx /\ (snd.highTx \in rcvd => snd.buf.sentSize = 0)
    BY <1>0 DEF Holding
  <2>2. rcvd \subseteq 1 .. (n + RcvBufSize)
    BY <1>0, <1>1, <1>3 DEF Holding
  <2> QED BY <1>0, <1>1, <1>3, <2>1, <2>2, FlowGrows
<1>6. rcv' \in [read : Nat, delAckCount : Nat, delAck : BOOLEAN, highTxAck : Nat]
  BY <1>1, <1>2 DEF Owing
<1>7. Owing'
  BY <1>2, <1>4, <1>6 DEF Owing, OwedAckHasTimer
<1> QED BY <1>0, <1>2, <1>4, <1>5, <1>7 DEF FlowOK

LEMMA LossFlows ==
    ASSUME FlowOK, NEW p, LoseSegment(p) \/ LoseAck(p), rcv' = rcv
    PROVE  FlowOK'
<1>0. FlowState(snd, DOMAIN net, DOMAIN acks, rcvd, rcv.read) /\ snd.out = << >>
  BY DEF FlowOK
<1>1. snd' = snd /\ rcvd' = rcvd
  BY DEF LoseSegment, LoseAck
<1>2. DOMAIN net' \subseteq DOMAIN net /\ DOMAIN acks' \subseteq DOMAIN acks
  BY BagFacts DEF LoseSegment, LoseAck
<1>3. FlowState(snd, DOMAIN net', DOMAIN acks', rcvd, rcv.read)
  <2>1. Answers(snd, DOMAIN acks', rcvd, rcv.read)
    BY <1>0, <1>2 DEF FlowState, Answers
  <2> QED BY <1>0, <1>2, <2>1 DEF FlowState
<1> QED BY <1>0, <1>1, <1>3 DEF FlowOK

(***************************************************************************)
(* The persist timer.                                                      *)
(***************************************************************************)
\* With nothing outstanding, the byte of a probe leaves the buffer and comes back.
LEMMA ProbeTakenBack ==
    ASSUME NEW b, Board(b), b.sentSize = 0, b.size > 0
    PROVE  LET d == ResetLastSegmentSent(CopyFromSequence(b, 1, SentEnd(b)))
           IN  /\ Board(d) /\ d.first = b.first /\ d.size = b.size /\ d.sentSize = 0
               /\ DOMAIN d.sent = {} /\ SackedBytes(d) = {}
<1> DEFINE e == SentEnd(b)
           c == CopyFromSequence(b, 1, e)
           d == ResetLastSegmentSent(c)
<1>0. Sound(b) /\ Shape(b) /\ Live(b) /\ DOMAIN b.sent = {} /\ b.size > b.sentSize
  BY HeadIsFirst DEF Board, Sound
<1>1. e \in Nat /\ e = b.first
  BY <1>0, BufferNumbers
<1>2. \A f : With(b, f) = {}
  BY <1>0 DEF With
<1>3. /\ Sound(c) /\ c.first = b.first /\ c.size = b.size /\ c.highest = b.highest
      /\ DOMAIN c.sent = {e} /\ c.sent[e].len <= 1 /\ SentEnd(c) = e + c.sent[e].len
      /\ With(c, "sacked") = {} /\ With(c, "lost") = {} /\ With(c, "retrans") = {}
  <2>1. /\ Sound(c) /\ c.first = b.first /\ c.size = b.size /\ c.highest = b.highest
        /\ DOMAIN c.sent = DOMAIN b.sent \cup {e} /\ c.sent[e].len <= 1
        /\ SentEnd(c) = e + c.sent[e].len
        /\ SameSacks(b, c) /\ With(c, "lost") = With(b, "lost")
        /\ With(c, "retrans") = With(b, "retrans")
    BY <1>0, CopyNewSound
  <2> HIDE DEF c, e
  <2> QED BY <1>0, <1>2, <2>1 DEF SameSacks
<1> HIDE DEF c
<1>4. /\ Shape(c) /\ Numbers(c) /\ c.sent[e].off = e /\ c.sent[e].len = 1 /\ ~ c.sent[e].retrans
      /\ c.sentSize = 1
  <2>1. Shape(c) /\ Numbers(c) /\ c.sent[e].off = e
    BY <1>3 DEF Sound, Shape, ItemsInPlace
  <2>2. c.sent[e].len = 1
    BY <1>3, <2>1, ItemNumbers
  <2>3. ~ c.sent[e].retrans
    BY <1>3 DEF With
  <2>4. c.sentSize = 1
    BY <1>1, <1>3, <2>1, <2>2, BufferNumbers
  <2> QED BY <2>1, <2>2, <2>3, <2>4
<1>5. Max(DOMAIN c.sent) = e
  <2>1. Max({e, e}) = e
    BY <1>1, MaxOfTwo
  <2>2. DOMAIN c.sent = {e, e}
    BY <1>3
  <2> QED BY <2>1, <2>2
<1> HIDE DEF e
<1> DEFINE S == [j \in DOMAIN c.sent \ {e} |-> c.sent[j]]
           C == [c.count EXCEPT !["retrans"] = @]
<1>6. DOMAIN S = {}
  BY <1>3
<1>7. d = [c EXCEPT !.sent = S, !.sentSize = c.sentSize - c.sent[e].len, !.app = c.sent[e].off,
                    !.count["retrans"] = @]
  <2>1. DOMAIN c.sent # {}
    BY <1>3
  <2> DEFINE k == Max(DOMAIN c.sent)
  <2>2. d = [c EXCEPT !.sent = [j \in DOMAIN c.sent \ {k} |-> c.sent[j]],
                      !.sentSize = @ - c.sent[k].len, !.app = c.sent[k].off,
                      !.count["retrans"] = IF c.sent[k].retrans THEN @ - c.sent[k].len ELSE @]
    BY <2>1 DEF ResetLastSegmentSent
  <2>3. k = e
    BY <1>5
  <2> HIDE DEF k, d
  <2> QED BY <1>4, <2>2, <2>3
<1> HIDE DEF S
<1>8. /\ DOMAIN d = BufferField /\ d.first = c.first /\ d.size = c.size /\ d.highest = c.highest
      /\ d.sent = S /\ d.sentSize = 0 /\ d.app = e /\ d.count = C
  <2>1. DOMAIN c = BufferField
    BY <1>4 DEF Numbers
  <2> HIDE DEF d
  <2>2. /\ DOMAIN d = BufferField /\ d.first = c.first /\ d.size = c.size /\ d.highest = c.highest
        /\ d.sent = S /\ d.sentSize = c.sentSize - c.sent[e].len /\ d.app = c.sent[e].off /\ d.count = C
    BY <1>7, <2>1 DEF BufferField
  <2> QED BY <1>4, <2>2
<1>9. C \in [Flag -> Int] /\ \A f \in Flag : C[f] = c.count[f]
  BY <1>4 DEF Numbers
<1> HIDE DEF d, C
<1>10. \A f : With(d, f) = {}
  BY <1>6, <1>8 DEF With
<1>11. Shape(d)
  <2>1. Numbers(d)
    <3>1. /\ c.first \in Nat /\ c.size \in Nat /\ c.highest \in Nat /\ 1 <= c.first /\ c.size <= MaxBuffer
          /\ c.first + c.size <= StreamLen + 1
      BY <1>4 DEF Numbers
    <3>2. d.app = d.first + d.sentSize /\ d.sentSize <= d.size /\ d.sentSize \in Nat
      BY <1>1, <1>3, <1>8, <3>1
    <3> QED BY <1>8, <1>9, <3>1, <3>2 DEF Numbers
  <2>2. ItemsInPlace(d) /\ ItemsApart(d)
    BY <1>6, <1>8 DEF ItemsInPlace, ItemsApart
  <2>3. NoHole(d)
    BY <2>1, <1>8 DEF NoHole, Numbers
  <2> QED BY <2>1, <2>2, <2>3 DEF Shape
<1>12. Counted(d)
  <2>1. \A f \in Flag : With(c, f) = {}
    BY <1>3 DEF Flag
  <2>2. \A f \in Flag : c.count[f] = BytesOf(c, With(c, f))
    BY <1>3 DEF Sound, Counted
  <2>3. \A f \in Flag : c.count[f] = 0
    BY <2>1, <2>2, NoBytes
  <2> QED BY <1>8, <1>9, <1>10, <2>3, NoBytes DEF Counted
<1>13. Live(d)
  BY <1>0, <1>2, <1>3, <1>8 DEF Live
<1>14. Board(d)
  BY <1>6, <1>8, <1>10, <1>11, <1>12, <1>13 DEF Board, Sound, Exclusive, Short
<1>15. SackedBytes(d) = {}
  BY <1>10 DEF SackedBytes, Covered
<1> QED BY <1>3, <1>6, <1>8, <1>14, <1>15 DEF d, c, e

\* There is a byte to probe with.
LEMMA ProbeFlows ==
    ASSUME FlowOK, snd.persist, SizeFromSequence(snd.buf, snd.nextTx) # 0,
           NEW q, q = [seq |-> snd.nextTx, len |-> 1, probe |-> TRUE],
           snd' = [snd EXCEPT !.buf = ResetLastSegmentSent(CopyFromSequence(snd.buf, 1, snd.nextTx)),
                              !.out = << >>],
           net' = Enqueue(net, <<q>>), acks' = acks, rcvd' = rcvd, rcv' = rcv
    PROVE  FlowOK'
<1> DEFINE b == snd.buf
           t == snd'
           d == ResetLastSegmentSent(CopyFromSequence(snd.buf, 1, snd.nextTx))
<1>0. /\ FlowState(snd, DOMAIN net, DOMAIN acks, rcvd, rcv.read) /\ snd.out = << >>
      /\ SockOK(snd) /\ Half(snd) /\ Typed(snd) /\ Dups(snd) /\ Ready(snd) /\ snd.sack
      /\ snd.rWnd = 0 /\ snd.buf.sentSize = 0
  BY DEF FlowOK, FlowState, Calm, SockOK, Half
<1>1. Board(b) /\ Shape(b) /\ snd.highTx = SentEnd(b) /\ snd.nextTx = SentEnd(b)
  BY <1>0 DEF Half, Board, Sound, Ready
<1>2. /\ b.first \in Nat /\ b.size \in Nat /\ 1 <= b.first /\ SentEnd(b) = b.first
      /\ TailSequence(b) = b.first + b.size /\ b.first + b.size <= StreamLen + 1 /\ StreamLen \in Nat
  BY <1>0, <1>1, BufferNumbers, TxStreamAssumption
<1>3. b.size > 0
  <2>1. SizeFromSequence(b, SentEnd(b)) # 0
    BY <1>1
  <2>2. SizeFromSequence(b, SentEnd(b)) = Max({0, TailSequence(b) - SentEnd(b)})
    BY DEF SizeFromSequence
  <2> DEFINE z == TailSequence(b) - SentEnd(b)
  <2>3. z \in Int /\ z = b.size
    BY <1>2
  <2>4. Max({0, z}) = IF 0 <= z THEN z ELSE 0
    BY <2>3, MaxOfTwo
  <2> QED BY <1>2, <2>1, <2>2, <2>3, <2>4
<1>4. /\ Board(d) /\ d.first = b.first /\ d.size = b.size /\ d.sentSize = 0
      /\ SackedBytes(d) = {}
  BY <1>0, <1>1, <1>3, ProbeTakenBack
<1> HIDE DEF d
<1>5. SameBut(snd, t, {"buf", "out"}) /\ t.buf = d /\ t.out = << >>
  <2>1. DOMAIN snd = SocketField
    BY <1>0 DEF Typed
  <2>2. snd' = [snd EXCEPT !.buf = d, !.out = << >>]
    BY DEF d
  <2> QED BY <2>1, <2>2 DEF SameBut, SocketField
<1> HIDE DEF t
<1>6. /\ DOMAIN t = SocketField
      /\ t.sack = snd.sack /\ t.highTx = snd.highTx /\ t.failed = snd.failed
      /\ t.congState = snd.congState /\ t.cWnd = snd.cWnd /\ t.nextTx = snd.nextTx
      /\ t.highRxAck = snd.highRxAck /\ t.rWnd = snd.rWnd /\ t.dupAckCount = snd.dupAckCount
      /\ t.recover = snd.recover /\ t.recoverActive = snd.recoverActive
      /\ t.isFirstPartialAck = snd.isFirstPartialAck /\ t.notProcessed = snd.notProcessed
      /\ t.retrCount = snd.retrCount /\ t.retx = snd.retx /\ t.persist = snd.persist
      /\ t.aborted = snd.aborted /\ t.sendPending = snd.sendPending
  BY <1>5 DEF SameBut, SocketField
<1>7. SentEnd(t.buf) = SentEnd(b) /\ t.buf.first = b.first
  BY <1>0, <1>4, <1>5 DEF SentEnd
<1>8. SockOK(t) /\ Works(snd, t)
  <2>1. Kept(snd, t)
    BY <1>0, <1>5, <1>6 DEF Kept, KeptField
  <2>2. Typed(t)
    BY <1>0, <1>6 DEF Typed
  <2>3. Guess(t)
    BY <1>0, <1>6 DEF Guess
  <2>4. t.recover <= t.highTx
    BY <1>0, <1>6 DEF Half
  <2>5. SackedBytes(t.buf) \subseteq SackedBytes(snd.buf) /\ Timed(t)
    BY <1>4, <1>5 DEF Timed
  <2> QED BY <1>0, <1>4, <1>5, <1>6, <1>7, <2>1, <2>2, <2>3, <2>4, <2>5, Altered
<1>9. FlowState(t, DOMAIN net, DOMAIN acks, rcvd, rcv.read)
  <2>1. Dups(t)
    BY <1>0, <1>6 DEF Dups
  <2> QED BY <1>0, <1>8, <2>1, FlowOfWork DEF Works
<1>10. Flight(t, q)
  <2>1. q.len = 1 /\ q.seq = snd.nextTx /\ "probe" \in DOMAIN q
    OBVIOUS
  <2>2. q.seq \in Byte /\ q.seq <= t.highTx
    BY <1>1, <1>2, <1>3, <1>6, <2>1 DEF Byte
  <2>3. t.buf.sentSize = 0
    BY <1>4, <1>5
  <2> QED BY <2>1, <2>2, <2>3 DEF Flight, IsProbe
<1>11. \A p \in DOMAIN net' : p \in DOMAIN net \/ p = q
  <2>1. Len(<<q>>) = 1 /\ <<q>>[1] = q
    OBVIOUS
  <2>2. Len(<<q>>) \in Nat
    BY <2>1
  <2>3. \A p \in DOMAIN Enqueue(net, <<q>>) : p \in DOMAIN net \/ \E i \in 1 .. Len(<<q>>) : p = <<q>>[i]
    BY <2>2, EnqueueHolds
  <2>4. \A i \in 1 .. Len(<<q>>) : i = 1
    BY <2>1
  <2> QED BY <2>1, <2>3, <2>4
<1>12. FlowState(t, DOMAIN net', DOMAIN acks, rcvd, rcv.read)
  BY <1>9, <1>10, <1>11 DEF FlowState
<1> QED BY <1>5, <1>12 DEF FlowOK, t

LEMMA PersistTimeoutFlows ==
    ASSUME FlowOK, Owing, PersistTimeout
    PROVE  (Running' => FlowOK') /\ FlowSafe' /\ Owing'
<1> DEFINE h == PersistTimeoutOf(snd)
<1>0. FlowState(snd, DOMAIN net, DOMAIN acks, rcvd, rcv.read) /\ snd.out = << >>
      /\ DOMAIN snd = SocketField /\ snd.failed = {}
  BY DEF FlowOK, FlowState, Calm, SockOK, Half, Typed
<1>1. /\ snd.persist /\ acks' = acks /\ rcvd' = rcvd /\ rcv' = rcv
      /\ snd' = [h EXCEPT !.out = << >>] /\ net' = Enqueue(net, h.out)
  BY Zenon DEF PersistTimeout, Dispatch
<1>2. Owing'
  BY <1>1 DEF Owing, OwedAckHasTimer
<1>3. CASE SizeFromSequence(snd.buf, snd.nextTx) = 0
  <2>1. h = [snd EXCEPT !.failed = snd.failed \cup {NoByte}]
    BY <1>3 DEF PersistTimeoutOf
  <2> HIDE DEF h
  <2>2. h.out = << >> /\ snd'.buf = snd.buf /\ snd'.persist = snd.persist /\ snd'.sack = snd.sack
        /\ snd'.failed = snd.failed \cup {NoByte}
    BY <1>0, <1>1, <2>1 DEF SocketField
  <2>3. snd'.failed = {NoByte}
    BY <1>0, <2>2
  <2>4. ~ Running'
    BY <2>3 DEF Running
  <2>5. DOMAIN net' \subseteq DOMAIN net
    <3>1. Len(<< >>) = 0
      OBVIOUS
    <3>2. \A p \in DOMAIN Enqueue(net, << >>) : p \in DOMAIN net \/ \E i \in 1 .. Len(<< >>) : p = << >>[i]
      BY <3>1, EnqueueHolds
    <3> QED BY <1>1, <2>2, <3>1, <3>2
  <2>6. FlowSafe
    BY FlowOKGives
  <2>7. NewDataFits'
    BY <1>1, <2>5, <2>6 DEF FlowSafe, NewDataFits, BagToSet
  <2>8. ProbeIsUnsent' /\ NeverForgetsMissing'
    BY <1>1, <2>2, <2>6 DEF FlowSafe, ProbeIsUnsent, NeverForgetsMissing
  <2>9. FlowSafe'
    BY <2>2, <2>3, <2>6, <2>7, <2>8 DEF FlowSafe
  <2> QED BY <1>2, <2>4, <2>9
<1>4. CASE SizeFromSequence(snd.buf, snd.nextTx) # 0
  <2> DEFINE q == [seq |-> snd.nextTx, len |-> 1, probe |-> TRUE]
             d == ResetLastSegmentSent(CopyFromSequence(snd.buf, 1, snd.nextTx))
  <2>1. h = [snd EXCEPT !.buf = d, !.out = <<q>>]
    BY <1>4 DEF PersistTimeoutOf
  <2> HIDE DEF h
  <2>2. h.out = <<q>> /\ snd' = [snd EXCEPT !.buf = d, !.out = << >>]
    <3> HIDE DEF q, d
    <3> QED BY <1>0, <1>1, <2>1 DEF SocketField
  <2>3. FlowOK'
    <3>1. net' = Enqueue(net, <<q>>)
      BY <1>1, <2>2
    <3> QED BY <1>1, <1>4, <2>2, <3>1, ProbeFlows
  <2>4. FlowSafe'
    BY <2>3, FlowOKGives, PTL
  <2> QED BY <1>2, <2>3, <2>4
<1> QED BY <1>3, <1>4

(***************************************************************************)
(* An acknowledgement arrives.                                             *)
(***************************************************************************)
\* The window the socket knows is that of s, or the one m advertised later.
WindowOf(s, m, q) ==
    \/ q.highRxAck = s.highRxAck /\ q.rWnd = s.rWnd /\ m.ack <= s.highRxAck
    \/ /\ q.highRxAck = m.ack /\ q.rWnd = m.wnd
       /\ s.highRxAck <= m.ack /\ s.highRxAck + s.rWnd <= Edge(m)

\* What an ACK may leave the socket as.
LEMMA FlowOfAck ==
    ASSUME NEW s, NEW N, NEW A, NEW R, NEW n, FlowState(s, N, A, R, n), NEW m \in A,
           NEW D, D \subseteq A, NEW q,
           SockOK(q), Dups(q), Ready(q), q.sack, q.failed = {}, WindowOf(s, m, q),
           q.persist => q.rWnd = 0, q.rWnd = 0 => q.persist /\ q.buf.sentSize = 0,
           s.buf.first <= q.buf.first, s.highTx <= q.highTx,
           q.highTx <= s.highTx \/ q.highTx <= q.highRxAck + q.rWnd,
           SackedBytes(q.buf) \subseteq SackedBytes(s.buf) \cup Blocks(m),
           \A k \in A : q.buf.first <= k.ack /\ k.ack < q.highRxAck => k.sack = << >>
    PROVE  FlowState(q, N, D, R, n)
<1>0. /\ Calm(s) /\ SockOK(s) /\ n \in Nat /\ Credit(s, n) /\ Holding(s, R, n)
      /\ Answers(s, A, R, n) /\ Answer(s, m, R, n)
  BY DEF FlowState, Calm, Answers
<1>1. /\ s.highTx \in Nat /\ s.buf.first \in Nat /\ s.buf.sentSize \in Nat
      /\ s.highTx = s.buf.first + s.buf.sentSize /\ s.highRxAck \in Nat /\ s.rWnd \in Nat
      /\ RcvBufSize \in Nat /\ StreamLen \in Nat
  BY <1>0, SockNumbers
<1>2. /\ q.highTx \in Nat /\ q.buf.first \in Nat /\ q.buf.sentSize \in Nat
      /\ q.highTx = q.buf.first + q.buf.sentSize /\ q.highRxAck \in Nat /\ q.rWnd \in Nat
  BY SockNumbers
<1>3. m.ack \in Nat /\ m.wnd \in Nat /\ Edge(m) = m.ack + m.wnd /\ Edge(m) <= MaxRxSequence(n)
  BY <1>0 DEF Answer, Edge
<1>4. q.highTx = s.highTx /\ s.buf.sentSize = 0 => q.buf.sentSize = 0
  BY <1>1, <1>2
<1>5. Calm(q)
  BY DEF Calm
<1>6. MaxRxSequence(n) \in Nat
  BY <1>0, <1>1 DEF MaxRxSequence
<1>7. Credit(q, n)
  <2>1. s.highTx <= s.highRxAck + s.rWnd /\ s.highRxAck + s.rWnd <= MaxRxSequence(n)
    BY <1>0 DEF Credit
  <2>2. s.highRxAck + s.rWnd <= q.highRxAck + q.rWnd /\ q.highRxAck + q.rWnd <= MaxRxSequence(n)
    BY <1>1, <1>2, <1>3, <2>1 DEF WindowOf
  <2>3. q.highTx <= q.highRxAck + q.rWnd
    BY <1>1, <1>2, <2>1, <2>2
  <2> QED BY <2>2, <2>3 DEF Credit
<1>8. Holding(q, R, n)
  <2>0. /\ R \in SUBSET Byte /\ 1 .. (s.highRxAck - 1) \subseteq R /\ R \subseteq 1 .. s.highTx
        /\ R \subseteq 1 .. (n + RcvBufSize) /\ (s.highTx \in R => s.buf.sentSize = 0)
        /\ SackedBytes(s.buf) \subseteq R
    BY <1>0 DEF Holding
  <2>1. 1 .. (m.ack - 1) \subseteq R /\ Blocks(m) \subseteq R
    BY <1>0 DEF Answer
  <2>2. 1 .. (q.highRxAck - 1) \subseteq R
    BY <2>0, <2>1 DEF WindowOf
  <2>3. R \subseteq 1 .. q.highTx
    BY <1>1, <1>2, <2>0
  <2>4. q.highTx \in R => q.highTx = s.highTx
    BY <1>1, <1>2, <2>0
  <2>5. q.highTx \in R => q.buf.sentSize = 0
    BY <1>4, <2>0, <2>4
  <2>6. SackedBytes(q.buf) \subseteq R
    BY <2>0, <2>1
  <2> QED BY <2>0, <2>2, <2>3, <2>5, <2>6 DEF Holding
<1>9. ASSUME NEW p \in N PROVE Flight(q, p)
  <2>1. Flight(s, p)
    BY DEF FlowState
  <2>2. CASE IsProbe(p)
    <3>1. p.len = 1 /\ p.seq \in Byte /\ p.seq <= s.highTx /\ (p.seq = s.highTx => s.buf.sentSize = 0)
      BY <2>1, <2>2 DEF Flight
    <3>2. p.seq \in Int
      BY <1>1, <3>1 DEF Byte
    <3>3. p.seq <= q.highTx /\ (p.seq = q.highTx => p.seq = s.highTx /\ q.highTx = s.highTx)
      BY <1>1, <1>2, <3>1, <3>2
    <3> QED BY <1>4, <2>2, <3>1, <3>3 DEF Flight
  <2>3. CASE ~ IsProbe(p)
    <3>1. p \in Segment /\ 1 <= p.seq /\ p.seq + p.len <= s.highTx
      BY <2>1, <2>3 DEF Flight
    <3>2. p.seq + p.len \in Int
      BY <3>1 DEF Segment
    <3>3. p.seq + p.len <= q.highTx
      BY <1>1, <1>2, <3>1, <3>2
    <3> QED BY <2>3, <3>1, <3>3 DEF Flight
  <2> QED BY <2>2, <2>3
<1>10. ASSUME NEW k \in D PROVE Answer(q, k, R, n)
  <2>0. k \in A
    OBVIOUS
  <2>1. Answer(s, k, R, n) /\ k.ack \in Nat
    BY <1>0, <2>0 DEF Answers, Answer
  <2>2. k.sack # << >> => k.ack < q.highTx
    BY <1>1, <1>2, <2>1 DEF Answer
  <2>3. q.highRxAck < k.ack => q.highRxAck + q.rWnd <= Edge(k)
    <3>1. CASE q.highRxAck = s.highRxAck /\ q.rWnd = s.rWnd
      BY <2>1, <3>1 DEF Answer
    <3>2. CASE q.highRxAck = m.ack /\ q.rWnd = m.wnd
      <4>1. m.ack < k.ack => Edge(m) <= Edge(k)
        BY <1>0, <2>0 DEF Answers
      <4> QED BY <1>3, <3>2, <4>1
    <3> QED BY <3>1, <3>2 DEF WindowOf
  <2>4. k.ack \notin SackedBytes(q.buf)
    BY <1>0, <2>0, <2>1 DEF Answers, Answer
  <2>5. q.buf.first <= k.ack /\ k.ack < q.highRxAck => k.sack = << >>
    BY <2>0
  <2> QED BY <2>1, <2>2, <2>3, <2>4, <2>5 DEF Answer
<1>11. Answers(q, D, R, n)
  BY <1>0, <1>10 DEF Answers
<1> QED BY <1>0, <1>5, <1>7, <1>8, <1>9, <1>11 DEF FlowState

\* The window is updated and the persist timer started, before the ACK is processed.
LEMMA WindowUpdated ==
    ASSUME NEW s, NEW N, NEW A, NEW R, NEW n, FlowState(s, N, A, R, n), NEW m \in A, ~ s.aborted
    PROVE  LET e == EnterPersist(UpdateWindowSize(s, m))
           IN  /\ SameBut(s, e, {"highRxAck", "rWnd", "persist", "retx"})
               /\ e.persist \in BOOLEAN /\ e.retx \in BOOLEAN
               /\ WindowOf(s, m, e) /\ m.ack <= e.highRxAck
               /\ e.highRxAck = m.ack \/ e = s
               /\ e.rWnd = 0 => e.persist
               /\ e.highRxAck \in Nat /\ e.rWnd \in Nat /\ s.highRxAck <= e.highRxAck
<1> DEFINE u == UpdateWindowSize(s, m)
           e == EnterPersist(u)
<1>0. /\ Calm(s) /\ SockOK(s) /\ Half(s) /\ Typed(s) /\ Answer(s, m, R, n)
      /\ s.rWnd = 0 => s.persist
  BY DEF FlowState, Calm, Answers, SockOK, Half
<1>1. /\ s.highRxAck \in Nat /\ s.rWnd \in Nat /\ DOMAIN s = SocketField
      /\ s.persist \in BOOLEAN /\ s.retx \in BOOLEAN
  BY <1>0 DEF Half, Typed
<1>2. /\ m.ack \in Nat /\ m.wnd \in Nat /\ Edge(m) = m.ack + m.wnd
      /\ s.highRxAck < m.ack => s.highRxAck + s.rWnd <= Edge(m)
  BY <1>0 DEF Answer, Edge
<1>3. CASE ~ (m.ack > s.highRxAck \/ (m.ack = s.highRxAck /\ m.wnd > s.rWnd))
  <2>1. u = s
    BY <1>3 DEF UpdateWindowSize
  <2>2. e = s
    BY <1>0, <2>1 DEF EnterPersist
  <2> HIDE DEF e
  <2>3. m.ack <= s.highRxAck /\ s.highRxAck <= s.highRxAck
    BY <1>1, <1>2, <1>3
  <2>4. SameBut(s, s, {"highRxAck", "rWnd", "persist", "retx"}) /\ WindowOf(s, m, s)
    BY <1>1, <2>3 DEF SameBut, WindowOf
  <2>5. /\ SameBut(s, e, {"highRxAck", "rWnd", "persist", "retx"})
        /\ e.persist \in BOOLEAN /\ e.retx \in BOOLEAN
        /\ WindowOf(s, m, e) /\ m.ack <= e.highRxAck
        /\ e.highRxAck = m.ack \/ e = s
        /\ e.rWnd = 0 => e.persist
        /\ e.highRxAck \in Nat /\ e.rWnd \in Nat /\ s.highRxAck <= e.highRxAck
    BY <1>0, <1>1, <2>2, <2>3, <2>4
  <2> QED BY <2>5 DEF e
<1>4. CASE m.ack > s.highRxAck \/ (m.ack = s.highRxAck /\ m.wnd > s.rWnd)
  <2>1. u = [s EXCEPT !.highRxAck = m.ack, !.rWnd = m.wnd]
    BY <1>4 DEF UpdateWindowSize
  <2>2. SameBut(s, u, {"highRxAck", "rWnd"}) /\ u.highRxAck = m.ack /\ u.rWnd = m.wnd
    BY <1>1, <2>1 DEF SameBut, SocketField
  <2> HIDE DEF u
  <2>3. DOMAIN u = SocketField /\ u.persist = s.persist /\ u.retx = s.retx
    BY <2>2 DEF SameBut, SocketField
  <2>4. /\ SameBut(u, e, {"persist", "retx"})
        /\ e.persist \in BOOLEAN /\ e.retx \in BOOLEAN /\ (u.rWnd = 0 => e.persist)
    <3>1. CASE u.rWnd = 0 /\ ~ u.persist
      <4>1. e = [u EXCEPT !.persist = TRUE, !.retx = FALSE]
        BY <3>1 DEF EnterPersist
      <4> HIDE DEF e
      <4>2. SameBut(u, e, {"persist", "retx"}) /\ e.persist = TRUE /\ e.retx = FALSE
        BY <2>3, <4>1 DEF SameBut, SocketField
      <4> QED BY <4>2, Zenon
    <3>2. CASE ~ (u.rWnd = 0 /\ ~ u.persist)
      <4>1. e = u
        BY <3>2 DEF EnterPersist
      <4> HIDE DEF e
      <4> QED BY <1>1, <2>3, <3>2, <4>1 DEF SameBut
    <3> QED BY <3>1, <3>2
  <2> HIDE DEF e
  <2>5. /\ SameBut(s, e, {"highRxAck", "rWnd", "persist", "retx"})
        /\ e.highRxAck = m.ack /\ e.rWnd = m.wnd
    BY <2>2, <2>4 DEF SameBut, SocketField
  <2>6. s.highRxAck <= m.ack /\ s.highRxAck + s.rWnd <= Edge(m) /\ m.ack <= m.ack
    BY <1>1, <1>2, <1>4
  <2>7. WindowOf(s, m, e)
    BY <2>5, <2>6 DEF WindowOf
  <2>8. e.rWnd = 0 => e.persist
    BY <2>2, <2>4, <2>5
  <2>9. /\ SameBut(s, e, {"highRxAck", "rWnd", "persist", "retx"})
        /\ e.persist \in BOOLEAN /\ e.retx \in BOOLEAN
        /\ WindowOf(s, m, e) /\ m.ack <= e.highRxAck
        /\ e.highRxAck = m.ack \/ e = s
        /\ e.rWnd = 0 => e.persist
        /\ e.highRxAck \in Nat /\ e.rWnd \in Nat /\ s.highRxAck <= e.highRxAck
    BY <1>2, <2>4, <2>5, <2>6, <2>7, <2>8
  <2> QED BY <2>9 DEF e, u
<1> QED BY <1>3, <1>4

\* With another window, other timers and the same buffer the socket is as sound.
LEMMA WindowKeeps ==
    ASSUME NEW s, SockOK(s), Dups(s), NEW e, SameBut(s, e, {"highRxAck", "rWnd", "persist", "retx"}),
           e.persist \in BOOLEAN, e.retx \in BOOLEAN, e.highRxAck \in Nat, e.rWnd \in Nat,
           s.highRxAck <= e.highRxAck
    PROVE  /\ SockOK(e) /\ Half(e) /\ Dups(e) /\ e.buf = s.buf /\ e.highTx = s.highTx
           /\ e.nextTx = s.nextTx /\ e.sack = s.sack /\ e.aborted = s.aborted /\ e.failed = s.failed
<1>1. /\ DOMAIN e = SocketField
      /\ e.sack = s.sack /\ e.buf = s.buf /\ e.highTx = s.highTx /\ e.failed = s.failed
      /\ e.congState = s.congState /\ e.cWnd = s.cWnd /\ e.nextTx = s.nextTx
      /\ e.dupAckCount = s.dupAckCount /\ e.recover = s.recover /\ e.recoverActive = s.recoverActive
      /\ e.isFirstPartialAck = s.isFirstPartialAck /\ e.notProcessed = s.notProcessed
      /\ e.retrCount = s.retrCount /\ e.aborted = s.aborted /\ e.sendPending = s.sendPending
      /\ e.out = s.out
  BY DEF SameBut, SocketField
<1>2. /\ Half(s) /\ Typed(s) /\ s.buf.first <= s.highRxAck /\ s.highRxAck \in Nat
      /\ s.buf.first \in Nat
  BY SockNumbers DEF SockOK, Half
<1>3. Typed(e)
  BY <1>1, <1>2 DEF Typed
<1>4. Half(e)
  BY <1>1, <1>2, <1>3 DEF Half, Guess, Leaving
<1>5. e.buf.first <= e.highRxAck
  BY <1>1, <1>2
<1>6. Dups(e)
  BY <1>1 DEF Dups
<1> QED BY <1>1, <1>4, <1>5, <1>6 DEF SockOK

\* An ACK in flight whose number is in the range of the sent list may be processed.
LEMMA AnswerAcceptable ==
    ASSUME NEW s, NEW N, NEW A, NEW R, NEW n, FlowState(s, N, A, R, n), NEW m \in A,
           s.buf.first <= m.ack, m.ack <= s.highTx,
           NEW e, e.buf = s.buf, e.highTx = s.highTx, e.sack = s.sack
    PROVE  Acceptable(e, m, Blocks(m))
<1>1. Answer(s, m, R, n) /\ s.sack /\ m.ack \notin Blocks(m)
  BY DEF FlowState, Answers, Calm
<1>2. \A i \in 1 .. Len(m.sack) :
         \A x \in Int : m.sack[i].first <= x /\ x < m.sack[i].second => x \in Blocks(m)
  BY DEF Blocks
<1>3. m.ack \notin SackedBytes(e.buf) \cup Blocks(m)
  BY <1>1 DEF Answer
<1>4. m.sack # << >> => e.sack /\ m.ack < e.highTx
  BY <1>1 DEF Answer
<1>5. /\ m.ack \in Nat /\ e.buf.first <= m.ack /\ m.ack <= e.highTx /\ m.sack \in Seq(Block)
      /\ \A i \in 1 .. Len(m.sack) : m.ack < m.sack[i].first
  BY <1>1 DEF Answer
<1> QED BY <1>2, <1>3, <1>4, <1>5 DEF Acceptable

\* The socket when the ACK has been processed, and before LeavePersist.
Processed(s, A, m, p) ==
    /\ SockOK(p) /\ Dups(p) /\ Ready(p) /\ p.sack /\ p.failed = {} /\ WindowOf(s, m, p)
    /\ p.rWnd = 0 => p.persist /\ p.buf.sentSize = 0
    /\ s.buf.first <= p.buf.first /\ s.highTx <= p.highTx
    /\ p.highTx <= s.highTx \/ p.highTx <= p.highRxAck + p.rWnd
    /\ SackedBytes(p.buf) \subseteq SackedBytes(s.buf) \cup Blocks(m)
    /\ \A k \in A : p.buf.first <= k.ack /\ k.ack < p.highRxAck => k.sack = << >>

\* An ACK below the sent list is not looked at, nor one of the byte of a probe that
\* the buffer counts as unsent; every other is processed.
LEMMA AckProcessed ==
    ASSUME NEW s, NEW N, NEW A, NEW R, NEW n, FlowState(s, N, A, R, n), NEW m \in A, ~ s.aborted,
           NEW w \in Windows
    PROVE  Processed(s, A, m, ProcessEstablished(EnterPersist(UpdateWindowSize(s, m)), m, w))
<1> DEFINE e == EnterPersist(UpdateWindowSize(s, m))
           p == ProcessEstablished(e, m, w)
<1>0. /\ Calm(s) /\ SockOK(s) /\ Dups(s) /\ Ready(s) /\ s.sack /\ s.failed = {} /\ n \in Nat
      /\ Credit(s, n) /\ Holding(s, R, n) /\ Answers(s, A, R, n) /\ Answer(s, m, R, n)
      /\ s.persist => s.rWnd = 0 /\ s.buf.sentSize = 0
      /\ s.rWnd = 0 => s.persist
  BY DEF FlowState, Calm, Answers
<1>1. /\ SameBut(s, e, {"highRxAck", "rWnd", "persist", "retx"})
      /\ e.persist \in BOOLEAN /\ e.retx \in BOOLEAN
      /\ WindowOf(s, m, e) /\ m.ack <= e.highRxAck
      /\ e.highRxAck = m.ack \/ e = s
      /\ e.rWnd = 0 => e.persist
      /\ e.highRxAck \in Nat /\ e.rWnd \in Nat /\ s.highRxAck <= e.highRxAck
  BY WindowUpdated
<1> HIDE DEF e
<1>2. /\ SockOK(e) /\ Half(e) /\ Dups(e) /\ e.buf = s.buf /\ e.highTx = s.highTx
      /\ e.nextTx = s.nextTx /\ e.sack = s.sack /\ e.aborted = s.aborted /\ e.failed = s.failed
  BY <1>0, <1>1, WindowKeeps
<1>3. /\ s.highTx \in Nat /\ s.buf.first \in Nat /\ s.buf.sentSize \in Nat
      /\ s.highTx = s.buf.first + s.buf.sentSize /\ s.highRxAck \in Nat /\ s.rWnd \in Nat
      /\ s.buf.first <= s.highRxAck
  BY <1>0, SockNumbers
<1>4. /\ m.ack \in Nat /\ m.wnd \in Nat /\ 1 <= m.ack /\ Edge(m) = m.ack + m.wnd
      /\ 1 .. (m.ack - 1) \subseteq R /\ (m.sack # << >> => m.ack < s.highTx)
  BY <1>0 DEF Answer, Edge
<1>5. s.highTx <= s.highRxAck + s.rWnd
  BY <1>0 DEF Credit
<1>6. \A k \in A : /\ k.ack \in Nat /\ (k.sack # << >> => k.ack < s.highTx)
                   /\ s.buf.first <= k.ack /\ k.ack < s.highRxAck => k.sack = << >>
  BY <1>0 DEF Answers, Answer
<1>7. CASE m.ack < s.buf.first \/ s.highTx < m.ack
  <2>1. p = e
    BY <1>2, <1>7 DEF ProcessEstablished
  <2> HIDE DEF p
  <2>2. e = s \/ s.buf.sentSize = 0
    <3>1. CASE m.ack < s.buf.first
      BY <1>1, <1>3, <1>4, <3>1
    <3>2. CASE s.highTx < m.ack
      <4>1. R \subseteq 1 .. s.highTx /\ (s.highTx \in R => s.buf.sentSize = 0)
        BY <1>0 DEF Holding
      <4>2. CASE s.highTx = 0
        BY <1>3, <4>2
      <4>3. CASE s.highTx > 0
        <5>1. s.highTx \in R
          BY <1>3, <1>4, <3>2, <4>3
        <5> QED BY <4>1, <5>1
      <4> QED BY <1>3, <4>2, <4>3
    <3> QED BY <1>7, <3>1, <3>2
  <2>3. e.rWnd = 0 => e.persist /\ e.buf.sentSize = 0
    BY <1>0, <1>1, <1>2, <2>2
  <2>4. ASSUME NEW k \in A, e.buf.first <= k.ack, k.ack < e.highRxAck PROVE k.sack = << >>
    <3>1. CASE e = s
      BY <1>6, <2>4, <3>1
    <3>2. CASE s.buf.sentSize = 0
      BY <1>2, <1>3, <1>6, <2>4, <3>2
    <3> QED BY <2>2, <3>1, <3>2
  <2>5. Ready(e)
    BY <1>0, <1>2 DEF Ready
  <2>6. Processed(s, A, m, e)
    BY <1>0, <1>1, <1>2, <1>3, <2>3, <2>4, <2>5 DEF Processed
  <2> QED BY <2>1, <2>6 DEF p, e
<1>8. CASE ~ (m.ack < s.buf.first \/ s.highTx < m.ack)
  <2>0. s.buf.first <= m.ack /\ m.ack <= s.highTx
    BY <1>3, <1>4, <1>8
  <2>1. p = ReceivedAck(e, m, w)
    BY <1>2, <1>8 DEF ProcessEstablished
  <2>2. Acceptable(e, m, Blocks(m))
    BY <1>2, <2>0, AnswerAcceptable
  <2>3. m.sack # << >> => e.highRxAck = m.ack
    <3>1. SUFFICES ASSUME m.sack # << >>, e = s PROVE e.highRxAck = m.ack
      BY <1>1
    <3>2. ~ (m.ack < s.highRxAck)
      BY <1>6, <2>0, <3>1
    <3> QED BY <1>1, <1>3, <1>4, <3>1, <3>2
  <2>4. ~ e.sack \/ m.sack # << >> => e.highRxAck = m.ack
    BY <1>0, <1>2, <2>3
  <2>5. Acked(e, p, m, Blocks(m)) /\ p.highRxAck = e.highRxAck
    BY <1>1, <1>2, <2>1, <2>2, <2>4, ReceivedAckWorks
  <2> HIDE DEF p
  <2>6. /\ SockOK(p) /\ Dups(p) /\ p.sack = e.sack /\ p.rWnd = e.rWnd /\ p.persist = e.persist
        /\ p.buf.first = m.ack /\ e.highTx <= p.highTx
        /\ p.highTx <= e.highTx \/ p.highTx <= m.ack + e.rWnd
        /\ Ready(e) => Ready(p)
        /\ e.sack => SackedBytes(p.buf) \subseteq SackedBytes(e.buf) \cup Blocks(m)
        /\ Quiet(e, p)
    BY <2>5, Zenon DEF Acked
  <2>7. /\ p.highTx \in Nat /\ p.buf.first \in Nat /\ p.buf.sentSize \in Nat
        /\ p.highTx = p.buf.first + p.buf.sentSize
    BY <2>6, SockNumbers
  <2>8. Ready(p) /\ p.sack /\ p.failed = {}
    BY <1>0, <1>2, <2>6 DEF Ready, Quiet
  <2>9. WindowOf(s, m, p)
    BY <1>1, <2>5, <2>6 DEF WindowOf
  <2>10. p.highTx <= s.highTx \/ p.highTx <= p.highRxAck + p.rWnd
    <3>1. m.ack + e.rWnd <= e.highRxAck + e.rWnd
      BY <1>1, <1>4
    <3>2. p.highTx <= s.highTx \/ p.highTx <= m.ack + e.rWnd
      BY <1>2, <2>6
    <3>3. p.highTx <= s.highTx \/ p.highTx <= e.highRxAck + e.rWnd
      BY <1>1, <1>4, <2>7, <3>1, <3>2
    <3> QED BY <2>5, <2>6, <3>3
  <2>11. ASSUME p.rWnd = 0 PROVE p.persist /\ p.buf.sentSize = 0
    <3>1. e.rWnd = 0 /\ e.persist /\ p.persist
      BY <1>1, <2>6, <2>11
    <3>2. s.highTx <= m.ack
      <4>1. CASE e = s
        BY <1>0, <1>3, <2>0, <3>1, <4>1
      <4>2. CASE e.highRxAck = m.ack
        <5>1. s.highTx <= e.highRxAck + e.rWnd
          BY <1>1, <1>3, <1>4, <1>5 DEF WindowOf
        <5> QED BY <1>4, <3>1, <4>2, <5>1
      <4> QED BY <1>1, <4>1, <4>2
    <3>3. p.highTx <= m.ack
      BY <1>2, <1>3, <1>4, <2>6, <2>7, <3>1, <3>2
    <3> QED BY <2>6, <2>7, <3>1, <3>3
  <2>12. ASSUME NEW k \in A, p.buf.first <= k.ack, k.ack < p.highRxAck PROVE k.sack = << >>
    <3>1. CASE e = s
      <4>1. s.buf.first <= k.ack /\ k.ack < s.highRxAck
        BY <1>3, <1>4, <1>6, <2>0, <2>5, <2>6, <2>12, <3>1
      <4> QED BY <1>6, <4>1
    <3>2. CASE e.highRxAck = m.ack
      BY <1>4, <1>6, <2>5, <2>6, <2>12, <3>2
    <3> QED BY <1>1, <3>1, <3>2
  <2>13. SackedBytes(p.buf) \subseteq SackedBytes(s.buf) \cup Blocks(m)
    BY <1>0, <1>2, <2>6
  <2>14. s.buf.first <= p.buf.first /\ s.highTx <= p.highTx
    BY <1>2, <2>0, <2>6
  <2>15. Processed(s, A, m, p)
    BY <2>6, <2>8, <2>9, <2>10, <2>11, <2>12, <2>13, <2>14 DEF Processed
  <2> QED BY <2>15 DEF p, e
<1> QED BY <1>7, <1>8

LEMMA ReceiveAckFlows ==
    ASSUME FlowOK, NEW m, NEW w \in Windows, ReceiveAck(m, w), rcv' = rcv
    PROVE  FlowOK'
<1> DEFINE s == snd
           p == ProcessEstablished(EnterPersist(UpdateWindowSize(snd, m)), m, w)
           h == LeavePersist(p)
           N == DOMAIN net
           A == DOMAIN acks
           D == DOMAIN acks'
           c == [p EXCEPT !.persist = FALSE]
<1>0. FlowState(s, N, A, rcvd, rcv.read)
  BY DEF FlowOK
<1>1. BagIn(m, acks) /\ ~ snd.aborted /\ acks' = acks (-) SetToBag({m}) /\ Dispatch(h) /\ rcvd' = rcvd
  BY Zenon DEF ReceiveAck, DoForwardUp
<1>2. m \in A /\ D \subseteq A
  BY <1>1, BagFacts
<1>3. Processed(s, A, m, p)
  BY <1>0, <1>1, <1>2, AckProcessed
<1> HIDE DEF p
<1>4. CASE ~ (p.rWnd # 0 /\ p.persist)
  <2>1. h = p
    BY <1>4 DEF LeavePersist
  <2> HIDE DEF h, s, N, A, D
  <2>2. FlowState(p, N, D, rcvd, rcv.read)
    BY <1>0, <1>2, <1>3, <1>4, FlowOfAck DEF Processed
  <2>3. FlowState(h, DOMAIN net, DOMAIN acks', rcvd', rcv'.read)
    BY <1>1, <2>1, <2>2 DEF N, D
  <2> QED BY <1>1, <2>3, FlowDispatch
<1>5. CASE p.rWnd # 0 /\ p.persist
  <2>1. h = SendPendingData(c)
    BY <1>5 DEF LeavePersist
  <2>0. SockOK(p) /\ Dups(p) /\ Half(p) /\ Typed(p) /\ p.highRxAck \in Nat /\ p.rWnd \in Nat
        /\ p.retx \in BOOLEAN /\ DOMAIN p = SocketField
    BY <1>3 DEF Processed, SockOK, Half, Typed
  <2>2. /\ SameBut(p, c, {"highRxAck", "rWnd", "persist", "retx"})
        /\ c.persist = FALSE /\ c.retx = p.retx /\ c.highRxAck = p.highRxAck /\ c.rWnd = p.rWnd
    BY <2>0 DEF SameBut, SocketField
  <2> HIDE DEF c
  <2>3. c.persist \in BOOLEAN /\ p.highRxAck <= c.highRxAck
    <3>1. c.persist \in BOOLEAN
      BY <2>2, Zenon
    <3>2. p.highRxAck <= c.highRxAck
      BY <2>0, <2>2
    <3> QED BY <3>1, <3>2
  <2>4. /\ SockOK(c) /\ Dups(c) /\ c.buf = p.buf /\ c.highTx = p.highTx
        /\ c.nextTx = p.nextTx /\ c.sack = p.sack /\ c.aborted = p.aborted /\ c.failed = p.failed
    BY <2>0, <2>2, <2>3, WindowKeeps
  <2> HIDE DEF s, N, A, D
  <2>5. Processed(s, A, m, p) /\ c.rWnd # 0 /\ ~ c.persist
    BY <1>3, <1>5, <2>2
  <2>6. /\ SockOK(c) /\ Dups(c) /\ Ready(c) /\ c.sack /\ c.failed = {} /\ WindowOf(s, m, c)
        /\ s.buf.first <= c.buf.first /\ s.highTx <= c.highTx
        /\ c.highTx <= s.highTx \/ c.highTx <= c.highRxAck + c.rWnd
        /\ SackedBytes(c.buf) \subseteq SackedBytes(s.buf) \cup Blocks(m)
        /\ \A k \in A : c.buf.first <= k.ack /\ k.ack < c.highRxAck => k.sack = << >>
    BY <2>2, <2>4, <2>5 DEF Processed, Ready, WindowOf
  <2>7. FlowState(c, N, D, rcvd, rcv.read)
    BY <1>0, <1>2, <2>5, <2>6, FlowOfAck
  <2>8. Sends(c, h)
    BY <2>1, <2>4, SendPendingDataSends
  <2> HIDE DEF h
  <2>9. SockOK(h) /\ Works(c, h) /\ Dups(h)
    BY <2>4, <2>8, DupsSame DEF Sends
  <2>10. FlowState(h, N, D, rcvd, rcv.read)
    BY <2>6, <2>7, <2>9, FlowOfWork DEF Works
  <2>11. FlowState(h, DOMAIN net, DOMAIN acks', rcvd', rcv'.read)
    BY <1>1, <2>10 DEF N, D
  <2> QED BY <1>1, <2>11, FlowDispatch
<1> QED BY <1>4, <1>5

(***************************************************************************)
(* The invariant holds.                                                    *)
(***************************************************************************)
LEMMA InitFlowInv ==
    ASSUME SackModes = {TRUE}, FlowInit
    PROVE  FlowInv
<1>0. SenderInv /\ rcv = ReceiverInit /\ Init
  BY InitSenderInv DEF FlowInit
<1>1. /\ SockOK(snd) /\ Typed(snd) /\ Open(snd) /\ Dups(snd) /\ snd.out = << >>
      /\ Receipts(snd, DOMAIN acks, rcvd)
  BY <1>0 DEF SenderInv, SockOK, Half
<1>2. net = EmptyBag /\ acks = EmptyBag /\ rcvd = {}
  BY <1>0 DEF Init
<1>3. DOMAIN net = {} /\ DOMAIN acks = {}
  BY <1>2, BagFacts
<1>4. /\ snd.highTx = 1 /\ snd.nextTx = 1 /\ snd.highRxAck = 1 /\ snd.rWnd = RcvBufSize
      /\ snd.failed = {} /\ snd.persist = FALSE /\ snd.buf.first = 1
  <2>1. PICK w \in Windows, sack \in SackModes : snd = SenderInit(w, sack)
    BY <1>0 DEF Init
  <2>2. /\ snd.highTx = 1 /\ snd.nextTx = 1 /\ snd.highRxAck = 1 /\ snd.rWnd = RcvBufSize
        /\ snd.failed = {} /\ snd.persist = FALSE
    BY <2>1 DEF SenderInit
  <2> QED BY <1>1, <2>2 DEF Open
<1>5. snd.sack
  BY <1>1 DEF Typed
<1>6. RcvBufSize \in Nat /\ RcvBufSize > 0
  BY SenderAssumption, TxSegmentAssumption
<1>7. rcv.read = 0 /\ rcv.highTxAck = 1
      /\ rcv \in [read : Nat, delAckCount : Nat, delAck : BOOLEAN, highTxAck : Nat]
  BY <1>0 DEF ReceiverInit
<1>8. Calm(snd)
  BY <1>1, <1>4, <1>5, <1>6 DEF Calm, Ready
<1>9. Credit(snd, 0)
  BY <1>4, <1>6 DEF Credit, MaxRxSequence
<1>10. Holding(snd, rcvd, 0)
  <2>1. SackedBytes(snd.buf) \subseteq rcvd
    BY <1>1, <1>5 DEF Receipts
  <2>2. 1 .. (snd.highRxAck - 1) \subseteq rcvd
    BY <1>4
  <2> QED BY <1>2, <2>1, <2>2 DEF Holding
<1>11. Answers(snd, DOMAIN acks, rcvd, 0)
  BY <1>3 DEF Answers
<1>12. FlowState(snd, DOMAIN net, DOMAIN acks, rcvd, rcv.read)
  BY <1>3, <1>7, <1>8, <1>9, <1>10, <1>11 DEF FlowState
<1>13. FlowOK
  BY <1>1, <1>12 DEF FlowOK
<1>14. OwedAckHasTimer
  <2> DEFINE F == FirstMissing(rcvd)
  <2>1. F \in 1 .. (StreamLen + 1) /\ 1 .. (F - 1) \subseteq {}
    BY <1>2, FirstMissingIs
  <2>2. NextRxSequence(rcvd) = F
    BY DEF NextRxSequence
  <2> HIDE DEF F
  <2>3. ~ (1 < F)
    <3>1. SUFFICES ASSUME 1 < F PROVE FALSE
      OBVIOUS
    <3>2. 1 \in 1 .. (F - 1)
      BY <2>1, <3>1, TxStreamAssumption
    <3> QED BY <2>1, <3>2
  <2> QED BY <1>7, <2>2, <2>3 DEF OwedAckHasTimer
<1> QED BY <1>7, <1>13, <1>14, FlowOKGives DEF FlowInv, Owing

\* Every step keeps the invariant.
LEMMA NextFlowInv ==
    ASSUME FlowInv, [FlowNext]_flowVars
    PROVE  FlowInv'
<1>1. FlowOK' /\ Owing' => FlowInv'
  <2>1. FlowOK' => FlowSafe'
    BY FlowOKGives, PTL
  <2> QED BY <2>1 DEF FlowInv
<1>2. CASE UNCHANGED flowVars
  <2>1. snd' = snd /\ net' = net /\ acks' = acks /\ rcvd' = rcvd /\ rcv' = rcv
    BY <1>2 DEF flowVars
  <2>2. (Running => FlowOK)' /\ Owing' /\ FlowSafe'
    BY <2>1 DEF FlowInv, Running, FlowOK, Owing, OwedAckHasTimer, FlowSafe, NewDataFits,
                ProbeIsUnsent, NeverForgetsMissing
  <2> QED BY <2>2 DEF FlowInv
<1>3. CASE FlowNext
  <2>0. FlowOK /\ Owing
    BY <1>3 DEF FlowNext, FlowInv
  <2>1. ASSUME SenderStep, rcv' = rcv PROVE FlowInv'
    <3>1. FlowOK'
      <4>1. ASSUME NEW n \in Writes, Send(n) PROVE FlowOK'
        BY <2>0, <2>1, <4>1, SendFlows
      <4>2. ASSUME SendPendingDataEvent PROVE FlowOK'
        BY <2>0, <2>1, <4>2, SendPendingDataEventFlows
      <4>3. ASSUME NEW m, NEW w \in Windows, ReceiveAck(m, w) PROVE FlowOK'
        BY <2>0, <2>1, <4>3, ReceiveAckFlows
      <4>4. ASSUME ReTxTimeout PROVE FlowOK'
        BY <2>0, <2>1, <4>4, ReTxTimeoutFlows
      <4>5. ASSUME NEW p, LoseSegment(p) \/ LoseAck(p) PROVE FlowOK'
        BY <2>0, <2>1, <4>5, LossFlows
      <4> QED BY <2>1, <4>1, <4>2, <4>3, <4>4, <4>5 DEF SenderStep
    <3>2. rcvd' = rcvd
      BY <2>1 DEF SenderStep, Send, SendPendingDataEvent, ReceiveAck, ReTxTimeout, LoseSegment, LoseAck
    <3>3. Owing'
      BY <2>0, <2>1, <3>2 DEF Owing, OwedAckHasTimer
    <3> QED BY <1>1, <3>1, <3>3
  <2>2. CASE PersistTimeout
    <3>1. (Running' => FlowOK') /\ FlowSafe' /\ Owing'
      BY <2>0, <2>2, PersistTimeoutFlows
    <3> QED BY <3>1 DEF FlowInv
  <2>3. ASSUME NEW p, NEW n \in 0 .. StreamLen, ReceivedData(p, n) PROVE FlowInv'
    <3>1. n \in Nat
      BY TxStreamAssumption
    <3> QED BY <1>1, <2>0, <2>3, <3>1, ReceivedDataFlows
  <2>4. CASE DelAckTimeout
    BY <1>1, <2>0, <2>4, DelAckTimeoutFlows
  <2>5. ASSUME NEW n \in Byte, Recv(n) PROVE FlowInv'
    BY <1>1, <2>0, <2>5, RecvFlows
  <2> QED BY <1>3, <2>1, <2>2, <2>3, <2>4, <2>5 DEF FlowNext
<1> QED BY <1>2, <1>3

\* On a connection with SACK the window the sender believes in, the ACKs on their
\* way and the room of the receiver fit together in every state, however ACKs are
\* delayed, overtaken and lost, windows close and reopen, probes are sent and
\* refused and timers expire (DoForwardUp, PersistTimeout, ReceivedData).
THEOREM FlowInvHolds == SackModes = {TRUE} /\ FlowSpec => []FlowInv
<1>1. SackModes = {TRUE} /\ FlowInit => FlowInv
  BY InitFlowInv
<1>2. FlowInv /\ [FlowNext]_flowVars => FlowInv'
  BY NextFlowInv
<1> QED BY <1>1, <1>2, PTL DEF FlowSpec

\* Every data segment in flight fits in the receive buffer as it is when the segment
\* arrives: SendPendingData and the retransmissions work from m_rWnd, which may come
\* from any earlier ACK, and no window the receiver advertised is ever taken back.
THEOREM FlowNewDataFits == SackModes = {TRUE} /\ FlowSpec => []NewDataFits
<1>1. FlowInv => NewDataFits
  BY DEF FlowInv, FlowSafe
<1> QED BY <1>1, FlowInvHolds, PTL

\* While the persist timer runs nothing is outstanding: the item that PersistTimeout
\* takes back with ResetLastSegmentSent is the probe it has just sent.
THEOREM FlowProbeIsUnsent == SackModes = {TRUE} /\ FlowSpec => []ProbeIsUnsent
<1>1. FlowInv => ProbeIsUnsent
  BY DEF FlowInv, FlowSafe
<1> QED BY <1>1, FlowInvHolds, PTL

\* In-order data that no ACK has reported has the delayed ACK timer running, for every
\* delayed-ACK count and however ReceivedData, SendEmptyPacket, DelAckTimeout and the
\* reads of the application follow one another.
THEOREM FlowOwedAckHasTimer == SackModes = {TRUE} /\ FlowSpec => []OwedAckHasTimer
<1>1. FlowInv => OwedAckHasTimer
  BY DEF FlowInv, Owing
<1> QED BY <1>1, FlowInvHolds, PTL

\* The scoreboard survives closed windows and probes: the sent list is what was sent,
\* its counters are what a recount would give, also after PersistTimeout has put a
\* byte into the list and taken it back (ResetLastSegmentSent).
THEOREM FlowScoreboardSound == SackModes = {TRUE} /\ FlowSpec => []ScoreboardSound
<1>1. FlowInv => ScoreboardSound
  BY SoundScoreboard DEF FlowInv, FlowSafe, Board, ScoreboardSound
<1> QED BY <1>1, FlowInvHolds, PTL

\* The sender forgets or takes for received only what the receiver has, although
\* the receiver trims segments to its room, takes single bytes from probes, and the
\* window update of an ACK is applied even when its number is not.
THEOREM FlowForgetsNothing == SackModes = {TRUE} /\ FlowSpec => []NeverForgetsMissing
<1>1. FlowInv => NeverForgetsMissing
  BY DEF FlowInv, FlowSafe
<1> QED BY <1>1, FlowInvHolds, PTL

\* The only way the sending side fails under flow control is PersistTimeout with no
\* byte left to probe with: no NS_ASSERT of its handlers does.
THEOREM FlowAssertsHold == SackModes = {TRUE} /\ FlowSpec => [](snd.failed \subseteq {NoByte})
<1>1. FlowInv => snd.failed \subseteq {NoByte}
  BY DEF FlowInv, FlowSafe
<1> QED BY <1>1, FlowInvHolds, PTL
=============================================================================
