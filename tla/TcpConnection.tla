--------------------------- MODULE TcpConnection ---------------------------
(***************************************************************************)
(* The life of a TCP connection in tcp-socket-base.cc, from the SYN to     *)
(* TIME_WAIT: two sockets, their applications, their timers, the           *)
(* demultiplexer of tcp-l4-protocol.cc, and a network that loses, delays   *)
(* and reorders.                                                           *)
(*                                                                         *)
(* Data is counted in segments: the SYN has number 0, the data 1, 2, and   *)
(* the FIN the number after the last.  A direction carries at most two     *)
(* segments of data, fewer than the duplicate ACKs that start a fast       *)
(* retransmission (TcpSender has those), so that only the timer marks      *)
(* segments lost.  A handler is a function from the state of a socket to   *)
(* the state it leaves, with the messages it sends in out.                 *)
(***************************************************************************)
EXTENDS Integers, Sequences, FiniteSets, FiniteSetsExt

CONSTANTS
    ClientData, ServerData,  \* segments each application may write
    HalfClosers,             \* applications that may call ShutdownSend
    SynRetries,              \* m_synRetries
    DataRetries,             \* m_dataRetries
    NetCapacity              \* messages the network holds, both directions together

Node == {"c", "s"}

ASSUME ConnectionAssumption ==
    /\ {ClientData, ServerData} \subseteq 0 .. 2
    /\ HalfClosers \subseteq Node
    /\ {SynRetries, DataRetries, NetCapacity} \subseteq Nat \ {0}

Data == [n \in Node |-> IF n = "c" THEN ClientData ELSE ServerData]
Peer(n) == IF n = "c" THEN "s" ELSE "c"

State == {"CLOSED", "SYN_SENT", "SYN_RCVD", "ESTABLISHED", "CLOSE_WAIT", "LAST_ACK",
          "FIN_WAIT_1", "FIN_WAIT_2", "CLOSING", "TIME_WAIT"}

VARIABLES
    sock,     \* the two sockets
    app,      \* what each application has done
    net       \* net[n]: messages on their way to n

vars == <<sock, app, net>>

\* state, ep            m_state; m_endPoint is allocated
\* una, size            m_txBuffer: its first segment and how many it holds
\* nxt, high            m_nextTxSequence, m_highTxMark
\* lost, sacked         segments marked lost and not resent, and sacked
\* cwnd                 m_cWnd: one segment after a timeout, else no limit
\* closeOnEmpty, shutdownSend
\* rcvNxt, held, unread m_rxBuffer: next number, those beyond a hole, in-order ones not read
\* gotFin, finSeq       m_rxBuffer's end of the stream
\* got                  data segments put in order so far (an auxiliary count)
\* synCount, retr       m_synCount, m_dataRetrCount
\* retx                 what m_retxEvent will do: SendEmptyPacket of SYN, SYNACK or FIN,
\*                      ReTxTimeout ("RTO"), or "none"
\* lastAck, timewait, sendPending   the other pending events
\* out                  messages handed to TcpL4Protocol by the current handler
NewSocket ==
    [state |-> "CLOSED", ep |-> FALSE, una |-> 0, size |-> 0, nxt |-> 0, high |-> 0,
     lost |-> {}, sacked |-> {}, cwnd |-> 2, closeOnEmpty |-> FALSE, shutdownSend |-> FALSE,
     rcvNxt |-> 0, held |-> {}, unread |-> 0, gotFin |-> FALSE, finSeq |-> 0, got |-> 0,
     synCount |-> SynRetries, retr |-> DataRetries, retx |-> "none", lastAck |-> FALSE,
     timewait |-> FALSE, sendPending |-> FALSE, out |-> << >>]

(***************************************************************************)
(* Sending segments without data.                                          *)
(***************************************************************************)
\* A RST is judged by its flag alone; no handler reads its numbers.
Segment(kind, seq, len, ack, sack) ==
    IF kind = "RST" THEN [kind |-> kind, seq |-> 0, len |-> 0, ack |-> 0, sack |-> {}]
    ELSE [kind |-> kind, seq |-> seq, len |-> len, ack |-> ack, sack |-> sack]

\* All timers are cancelled.  Of the other members, which nothing reads any
\* more, only what was acknowledged and received is kept.
DeallocateEndPoint(s) ==
    [NewSocket EXCEPT !.state = s.state, !.out = s.out, !.una = s.una,
                      !.rcvNxt = s.rcvNxt, !.gotFin = s.gotFin, !.finSeq = s.finSeq,
                      !.got = s.got]

CloseAndNotify(s) == DeallocateEndPoint([s EXCEPT !.state = "CLOSED"])

\* A faulty variant: SYNs are not counted.
SendEmptyPacketEndless(s, kind) ==
    LET pastFin == kind # "FIN" /\ s.state \in {"FIN_WAIT_1", "LAST_ACK", "CLOSING"}
        seq == IF pastFin THEN s.nxt + 1 ELSE s.nxt
    IN  IF ~ s.ep THEN s
        ELSE [s EXCEPT !.retx = IF @ = "none" /\ kind \in {"SYN", "SYNACK", "FIN"} THEN kind ELSE @,
                       !.out = Append(@, Segment(kind, seq, 0, s.rcvNxt, s.held))]

\* kind "FIN" is FIN with ACK, which the code always adds.  The segment is
\* repeated by m_retxEvent, unless that is waiting for something else.
SendEmptyPacket(s, kind) ==
    LET pastFin == kind # "FIN" /\ s.state \in {"FIN_WAIT_1", "LAST_ACK", "CLOSING"}
        seq == IF pastFin THEN s.nxt + 1 ELSE s.nxt
        syn == kind \in {"SYN", "SYNACK"}
    IN  IF ~ s.ep THEN s
        ELSE IF syn /\ s.synCount = 0 THEN CloseAndNotify(s)
        ELSE [s EXCEPT !.synCount = IF syn THEN @ - 1 ELSE @,
                       !.retx = IF @ = "none" /\ (syn \/ kind = "FIN") THEN kind ELSE @,
                       !.out = Append(@, Segment(kind, seq, 0, s.rcvNxt, s.held))]

\* The state is left as it is: only the end point is gone.
SendRST(s) == DeallocateEndPoint(SendEmptyPacket(s, "RST"))

ResetAndClose(s) == CloseAndNotify(SendRST(s))

TimeWait(s) ==
    [s EXCEPT !.state = "TIME_WAIT", !.retx = "none", !.lastAck = FALSE,
              !.sendPending = FALSE, !.timewait = TRUE]

(***************************************************************************)
(* Sending data.                                                           *)
(***************************************************************************)
TailSequence(s) == s.una + s.size
SizeFromSequence(s, seq) == Max({0, TailSequence(s) - seq})

SentList(s) == s.una .. (Min({s.high, TailSequence(s)}) - 1)
BytesInFlight(s) == Cardinality(SentList(s) \ (s.lost \cup s.sacked))

\* The last segment carries the FIN of a close that waited for it.
SendDataPacket(s, seq) ==
    LET fin == s.closeOnEmpty /\ SizeFromSequence(s, seq + 1) = 0
    IN  [s EXCEPT !.lost = @ \ {seq},
                  !.nxt = seq + 1,
                  !.high = Max({@, seq + 1}),
                  !.retx = IF @ = "none" THEN "RTO" ELSE @,
                  !.state = CASE fin /\ @ = "ESTABLISHED" -> "FIN_WAIT_1"
                              [] fin /\ @ = "CLOSE_WAIT" -> "LAST_ACK"
                              [] OTHER -> @,
                  !.out = Append(@, Segment(IF fin THEN "FIN" ELSE "ACK",
                                            seq, 1, s.rcvNxt, {}))]

\* Lost segments first, then new ones, while the window allows.
SendOne(s) ==
    LET candidates == s.lost \cup (s.high .. (TailSequence(s) - 1))
    IN  IF candidates = {} \/ BytesInFlight(s) >= s.cwnd THEN s
        ELSE SendDataPacket(s, Min(candidates))

SendPendingData(s) == IF s.size = 0 \/ ~ s.ep THEN s ELSE SendOne(SendOne(s))

(***************************************************************************)
(* Closing.                                                                *)
(***************************************************************************)
DoClose(s) ==
    CASE s.state \in {"SYN_RCVD", "ESTABLISHED"} ->
            [SendEmptyPacket(s, "FIN") EXCEPT !.state = "FIN_WAIT_1"]
      [] s.state = "CLOSE_WAIT" -> [SendEmptyPacket(s, "FIN") EXCEPT !.state = "LAST_ACK"]
      [] s.state \in {"SYN_SENT", "CLOSING"} -> ResetAndClose(s)
      [] OTHER -> s

\* Unread data turns a close into a reset, unsent data defers it.
CloseOf(s) ==
    IF s.unread > 0 \/ s.held # {} THEN SendRST(s)
    ELSE IF SizeFromSequence(s, s.nxt) > 0 THEN [s EXCEPT !.closeOnEmpty = TRUE]
    ELSE DoClose(s)

ShutdownSendOf(s) ==
    LET t == [s EXCEPT !.shutdownSend = TRUE, !.closeOnEmpty = TRUE]
    IN  IF s.size = 0 /\ s.state \in {"ESTABLISHED", "CLOSE_WAIT"}
        THEN [SendEmptyPacket(t, "FIN") EXCEPT
                 !.state = IF @ = "ESTABLISHED" THEN "FIN_WAIT_1" ELSE "LAST_ACK"]
        ELSE t

Finished(s) == s.gotFin /\ s.finSeq < s.rcvNxt

\* What the application does when NotifyNormalClose calls it is a later action.
DoPeerClose(s) ==
    LET w == [s EXCEPT !.state = "CLOSE_WAIT"]
        a == IF s.shutdownSend THEN CloseOf(w) ELSE SendEmptyPacket(w, "ACK")
    IN  IF a.state = "LAST_ACK" THEN [a EXCEPT !.retr = DataRetries, !.lastAck = TRUE] ELSE a

(***************************************************************************)
(* Receiving.                                                              *)
(***************************************************************************)
SetFinSequence(s, seq) ==
    [s EXCEPT !.gotFin = TRUE, !.finSeq = seq,
              !.rcvNxt = IF @ = seq THEN @ + 1 ELSE @]

\* TcpRxBuffer::Add of one segment; what follows a FIN is cut off.
AddToBuffer(s, seq) ==
    LET all == s.held \cup {seq}
        next == Min({x \in s.rcvNxt .. (seq + 3) : x \notin all})
        fin == s.gotFin /\ next = s.finSeq
    IN  IF seq < s.rcvNxt \/ seq \in s.held \/ (s.gotFin /\ s.finSeq <= seq) THEN s
        ELSE [s EXCEPT !.held = {x \in all : next < x},
                       !.unread = @ + next - s.rcvNxt,
                       !.got = @ + next - s.rcvNxt,
                       !.rcvNxt = IF fin THEN next + 1 ELSE next]

\* Every segment of data is acknowledged (DelAckCount is 1), by DoPeerClose if
\* it completes a stream whose FIN came earlier.
ReceivedData(s, m) ==
    LET b == AddToBuffer(s, m.seq)
    IN  IF s.rcvNxt < b.rcvNxt /\ Finished(b) /\ m.kind # "FIN" THEN DoPeerClose(b)
        ELSE SendEmptyPacket(b, "ACK")

\* A faulty variant: a FIN is taken wherever it is.
PeerCloseEarly(s, m) ==
    IF m.seq < s.rcvNxt THEN s
    ELSE DoPeerClose([s EXCEPT !.gotFin = TRUE, !.finSeq = m.seq, !.rcvNxt = m.seq + 1])

\* A FIN in ESTABLISHED or SYN_RCVD; its ACK number is not looked at.  An application
\* that calls Close from inside NotifyDataRecv, for which the code has a transition to
\* CLOSING, is not modelled: its Close comes before or after the FIN.
PeerClose(s, m) ==
    LET f == SetFinSequence(s, m.seq + m.len)
        d == IF m.len > 0 THEN ReceivedData(f, m) ELSE f
    IN  IF m.seq < s.rcvNxt \/ (s.gotFin /\ s.finSeq < m.seq) THEN s
        ELSE IF Finished(d) THEN DoPeerClose(d) ELSE d

\* A faulty variant: no data left, no timer left, the FIN forgotten.
NewAckNoTimer(s, ack) ==
    [s EXCEPT !.retr = DataRetries, !.cwnd = 2, !.nxt = Max({@, ack}),
              !.retx = IF s.size = 0 THEN "none" ELSE "RTO"]

NewAck(s, ack) ==
    [s EXCEPT !.retr = DataRetries, !.cwnd = 2, !.nxt = Max({@, ack}),
              !.retx = IF s.size = 0 /\ s.state \notin {"FIN_WAIT_1", "CLOSING"}
                       THEN "none" ELSE "RTO"]

DiscardUpTo(s, ack) ==
    [s EXCEPT !.size = SizeFromSequence(s, ack), !.una = Max({@, ack}),
              !.lost = {x \in @ : ack <= x}, !.sacked = {x \in @ : ack <= x}]

\* ReadOptions, DiscardUpTo, ProcessAck, then the data and what may now be sent.
\* An ACK of the FIN moves nxt past it even when repeated.
ReceivedAck(s, m) ==
    LET u == [s EXCEPT !.sacked = @ \cup (m.sack \cap SentList(s)), !.lost = @ \ m.sack]
        d == DiscardUpTo(u, m.ack)
        p == IF s.una < m.ack THEN NewAck(d, m.ack)
             ELSE IF s.high < m.ack THEN [d EXCEPT !.nxt = m.ack] ELSE d
        data(t) == IF m.len > 0 THEN ReceivedData(t, m) ELSE t
    IN  IF m.ack < s.una THEN data(u) ELSE SendPendingData(data(p))

ProcessEstablished(s, m) ==
    CASE m.kind = "ACK" /\ m.ack < s.una -> s
      [] m.kind = "ACK" /\ s.high < m.ack -> SendEmptyPacket(s, "ACK")
      [] m.kind = "ACK" /\ s.una <= m.ack /\ m.ack <= s.high -> ReceivedAck(s, m)
      [] m.kind \in {"SYN", "SYNACK"} -> s
      [] m.kind = "FIN" -> PeerClose(s, m)
      [] m.kind = "RST" -> CloseAndNotify(s)

\* The SYN has been acknowledged: its number is used up, and m_synCount, which
\* is not read again, is put back.
Connected(s) ==
    [s EXCEPT !.retx = "none", !.una = s.nxt + 1, !.nxt = s.nxt + 1, !.high = s.nxt + 1,
              !.synCount = SynRetries]

ProcessSynSent(s, m) ==
    CASE m.kind \in {"ACK", "FIN"} -> s
      [] m.kind = "SYN" ->
            SendEmptyPacket([s EXCEPT !.state = "SYN_RCVD", !.synCount = SynRetries,
                                      !.rcvNxt = m.seq + 1], "SYNACK")
      [] m.kind = "SYNACK" /\ m.ack = s.nxt + 1 ->
            SendPendingData(SendEmptyPacket(
                [Connected(s) EXCEPT !.state = "ESTABLISHED", !.rcvNxt = m.seq + 1], "ACK"))
      [] m.kind = "SYNACK" /\ m.ack # s.nxt + 1 -> ResetAndClose(s)
      [] m.kind = "RST" -> CloseAndNotify(s)

ProcessSynRcvd(s, m) ==
    CASE m.kind = "ACK" /\ m.ack = s.nxt + 1 ->
            ReceivedAck([Connected(s) EXCEPT !.state = "ESTABLISHED"], m)
      [] m.kind = "SYN" -> SendEmptyPacket([s EXCEPT !.rcvNxt = m.seq + 1], "SYNACK")
      [] m.kind = "FIN" -> IF m.seq = s.rcvNxt THEN PeerClose(Connected(s), m) ELSE s
      [] m.kind = "RST" -> CloseAndNotify(s)
      [] OTHER -> ResetAndClose(s)

\* A faulty variant: an ACK of the data is taken for one of the FIN.
FinAckedByData(s, m) == s.size = 0

\* The ACK of our own FIN.
FinAcked(s, m) == s.size = 0 /\ m.ack = s.high + 1

\* FIN_WAIT_1, FIN_WAIT_2 and CLOSE_WAIT.  A FIN is recorded at the number of
\* its segment, also when data comes before it in the segment.
ProcessWait(s, m) ==
    LET a == ReceivedAck(s, m)
        f == CASE m.kind = "ACK" ->
                    IF a.state = "FIN_WAIT_1" /\ FinAcked(a, m)
                    THEN [a EXCEPT !.state = "FIN_WAIT_2"] ELSE a
               [] m.kind = "FIN" -> SetFinSequence(a, m.seq)
               [] OTHER -> s
        c == IF f.state = "FIN_WAIT_1" /\ ~ FinAcked(f, m)
             THEN [f EXCEPT !.state = "CLOSING"] ELSE TimeWait(f)
    IN  CASE m.kind = "RST" -> CloseAndNotify(s)
          [] m.kind \in {"SYN", "SYNACK"} -> s
          [] OTHER -> IF f.state \in {"FIN_WAIT_1", "FIN_WAIT_2"} /\ Finished(f)
                      THEN SendEmptyPacket(c, "ACK") ELSE f

ProcessClosing(s, m) ==
    CASE m.kind = "ACK" -> IF m.seq = s.rcvNxt THEN TimeWait(s) ELSE s
      [] m.kind = "FIN" -> CloseAndNotify(SendEmptyPacket(s, "ACK"))
      [] m.kind = "RST" -> CloseAndNotify(s)
      [] OTHER -> ResetAndClose(s)

ProcessLastAck(s, m) ==
    CASE m.kind = "ACK" -> IF m.seq = s.rcvNxt THEN CloseAndNotify(s) ELSE s
      [] m.kind \in {"FIN", "RST"} -> CloseAndNotify(s)
      [] OTHER -> ResetAndClose(s)

OutOfRange(s, m) ==
    CASE s.state \in {"SYN_SENT", "SYN_RCVD"} -> FALSE
      [] s.state \in {"LAST_ACK", "CLOSING", "CLOSE_WAIT"} -> m.seq # s.rcvNxt
      [] OTHER -> m.seq + m.len < s.rcvNxt \/ (s.gotFin /\ s.finSeq <= m.seq)

\* IsValidTcpSegment and DoForwardUp; any SYN resets the window.
ForwardUp(s, m) ==
    LET t == IF m.kind \in {"SYN", "SYNACK"} THEN [s EXCEPT !.cwnd = 2] ELSE s
    IN  IF m.len > 0 /\ OutOfRange(s, m) THEN SendEmptyPacket(s, "ACK")
        ELSE CASE s.state = "ESTABLISHED" -> ProcessEstablished(t, m)
               [] s.state = "SYN_SENT" -> ProcessSynSent(t, m)
               [] s.state = "SYN_RCVD" -> ProcessSynRcvd(t, m)
               [] s.state \in {"FIN_WAIT_1", "FIN_WAIT_2", "CLOSE_WAIT"} -> ProcessWait(t, m)
               [] s.state = "CLOSING" -> ProcessClosing(t, m)
               [] s.state = "LAST_ACK" -> ProcessLastAck(t, m)
               [] s.state = "TIME_WAIT" -> t

(***************************************************************************)
(* Timers.                                                                 *)
(***************************************************************************)
\* A faulty variant: the retries are not limited.
ReTxTimeoutNoLimit(s) ==
    IF s.size = 0
    THEN IF s.state \in {"FIN_WAIT_1", "CLOSING"} THEN SendEmptyPacket(s, "FIN") ELSE s
    ELSE SendPendingData([s EXCEPT !.retr = @ - 1, !.cwnd = 1,
                                   !.lost = SentList(s) \ s.sacked])

ReTxTimeout(s) ==
    IF s.size = 0
    THEN IF s.state \in {"FIN_WAIT_1", "CLOSING"} THEN SendEmptyPacket(s, "FIN") ELSE s
    ELSE IF s.retr = 0 THEN DeallocateEndPoint(s)
    ELSE SendPendingData([s EXCEPT !.retr = @ - 1, !.cwnd = 1,
                                   !.lost = SentList(s) \ s.sacked])

\* m_retxEvent expires.
RetxEvent(s) ==
    LET t == [s EXCEPT !.retx = "none"]
    IN  IF s.retx = "RTO" THEN ReTxTimeout(t) ELSE SendEmptyPacket(t, s.retx)

\* A faulty variant: the retries are not counted.
LastAckTimeoutEndless(s) ==
    LET t == [s EXCEPT !.lastAck = FALSE]
    IN  IF s.state # "LAST_ACK" THEN t
        ELSE [SendEmptyPacket(t, "FIN") EXCEPT !.lastAck = TRUE]

LastAckTimeout(s) ==
    LET t == [s EXCEPT !.lastAck = FALSE]
    IN  IF s.state # "LAST_ACK" THEN t
        ELSE IF s.retr = 0 THEN DeallocateEndPoint(t)
        ELSE [SendEmptyPacket([t EXCEPT !.retr = @ - 1], "FIN") EXCEPT !.lastAck = TRUE]

(***************************************************************************)
(* The two nodes and the network.                                          *)
(***************************************************************************)
\* What fits of the messages ms joins those on their way; a full queue drops the
\* rest, and of two equal messages one is lost.
Enqueue(waiting, others, ms) ==
    LET put[i \in 0 .. Len(ms)] ==
            IF i = 0 THEN waiting
            ELSE IF Cardinality(put[i - 1]) + Cardinality(others) < NetCapacity
            THEN put[i - 1] \cup {ms[i]} ELSE put[i - 1]
    IN  put[Len(ms)]

\* The handler of socket n left it as h; rest is what is still on its way to n.
Dispatch(n, h, rest) ==
    /\ sock' = [sock EXCEPT ![n] = [h EXCEPT !.out = << >>]]
    /\ net' = [net EXCEPT ![n] = rest, ![Peer(n)] = Enqueue(@, rest, h.out)]

Init ==
    /\ sock = [n \in Node |-> NewSocket]
    /\ app = [n \in Node |-> [opened |-> FALSE, wrote |-> 0, closed |-> FALSE, shut |-> FALSE]]
    /\ net = [n \in Node |-> {}]

\* Bind and Connect.
Connect ==
    /\ ~ app["c"].opened
    /\ app' = [app EXCEPT !["c"].opened = TRUE]
    /\ Dispatch("c", [SendEmptyPacket([NewSocket EXCEPT !.ep = TRUE], "SYN")
                         EXCEPT !.state = "SYN_SENT"], net["c"])

\* The application writes a segment; it is sent by an event of its own.
Send(n) ==
    LET s == sock[n]
        t == [s EXCEPT !.size = @ + 1]
    IN  /\ s.state \in {"ESTABLISHED", "SYN_SENT", "CLOSE_WAIT"} /\ s.ep
        /\ app[n].wrote < Data[n] /\ ~ app[n].closed /\ ~ app[n].shut
        /\ app' = [app EXCEPT ![n].wrote = @ + 1]
        /\ Dispatch(n, [t EXCEPT !.sendPending =
                @ \/ (s.state # "SYN_SENT" /\ BytesInFlight(s) < s.cwnd)], net[n])

Recv(n) ==
    /\ sock[n].unread > 0
    /\ Dispatch(n, [sock[n] EXCEPT !.unread = 0], net[n])
    /\ UNCHANGED app

Close(n) ==
    /\ sock[n].ep /\ ~ app[n].closed
    /\ n = "s" => sock[n].state # "SYN_RCVD"
    /\ app' = [app EXCEPT ![n].closed = TRUE]
    /\ Dispatch(n, CloseOf(sock[n]), net[n])

ShutdownSend(n) ==
    /\ n \in HalfClosers
    /\ sock[n].ep /\ ~ app[n].closed /\ ~ app[n].shut
    /\ n = "s" => sock[n].state # "SYN_RCVD"
    /\ app' = [app EXCEPT ![n].shut = TRUE]
    /\ Dispatch(n, ShutdownSendOf(sock[n]), net[n])

SendPendingDataEvent(n) ==
    /\ sock[n].sendPending
    /\ Dispatch(n, SendPendingData([sock[n] EXCEPT !.sendPending = FALSE]), net[n])
    /\ UNCHANGED app

RetxTimer(n) ==
    /\ sock[n].retx # "none"
    /\ Dispatch(n, RetxEvent(sock[n]), net[n])
    /\ UNCHANGED app

LastAckTimer(n) ==
    /\ sock[n].lastAck
    /\ Dispatch(n, LastAckTimeout(sock[n]), net[n])
    /\ UNCHANGED app

TimeWaitTimer(n) ==
    /\ sock[n].timewait
    /\ Dispatch(n, CloseAndNotify(sock[n]), net[n])
    /\ UNCHANGED app

\* A segment arrives at its socket.
Receive(n, m) ==
    /\ m \in net[n]
    /\ sock[n].ep
    /\ Dispatch(n, ForwardUp(sock[n], m), net[n] \ {m})
    /\ UNCHANGED app

\* ProcessListen and CompleteFork: the listener takes a SYN for which there is
\* no connection, the first of them only (bound).
Fork(m) ==
    /\ m \in net["s"]
    /\ m.kind = "SYN" /\ ~ app["s"].opened
    /\ app' = [app EXCEPT !["s"].opened = TRUE]
    /\ Dispatch("s", SendEmptyPacket([NewSocket EXCEPT !.ep = TRUE, !.state = "SYN_RCVD",
                                                        !.rcvNxt = m.seq + 1], "SYNACK"),
                 net["s"] \ {m})

\* TcpL4Protocol finds no end point.  At "s" the listener ignores the segment;
\* at "c" it is answered by a RST.
NoEndPoint(n, m) ==
    LET gone == net[n] \ {m}
    IN  /\ m \in net[n]
        /\ ~ sock[n].ep
        /\ n = "s" => m.kind # "SYN" \/ app[n].opened
        /\ net' = [net EXCEPT ![n] = gone,
                              ![Peer(n)] = IF n = "s" \/ m.kind \in {"SYN", "RST"} THEN @
                                           ELSE Enqueue(@, gone, <<Segment("RST", 0, 0, 0, {})>>)]
        /\ UNCHANGED <<sock, app>>

Lose(n, m) ==
    /\ m \in net[n]
    /\ net' = [net EXCEPT ![n] = @ \ {m}]
    /\ UNCHANGED <<sock, app>>

Next ==
    \/ Connect
    \/ \E n \in Node :
          \/ Send(n) \/ Recv(n) \/ Close(n) \/ ShutdownSend(n)
          \/ SendPendingDataEvent(n) \/ RetxTimer(n) \/ LastAckTimer(n) \/ TimeWaitTimer(n)
          \/ \E m \in net[n] : Receive(n, m) \/ NoEndPoint(n, m) \/ Lose(n, m)
    \/ \E m \in net["s"] : Fork(m)

Spec == Init /\ [][Next]_vars

\* The simulator runs every event that is scheduled and not cancelled: weak
\* fairness of the two timers that count down.  Such a step always changes its
\* counter, so it is enabled when the event is pending.  Nothing is assumed of
\* the network or of the applications.
SynTimer(n) == sock[n].retx \in {"SYN", "SYNACK"} /\ RetxTimer(n)

FairSpec ==
    /\ Spec
    /\ \A n \in Node :
          /\ <>[] (sock[n].retx \in {"SYN", "SYNACK"}) => []<> <<SynTimer(n)>>_vars
          /\ <>[] sock[n].lastAck => []<> <<LastAckTimer(n)>>_vars

-----------------------------------------------------------------------------
(***************************************************************************)
(* Properties.                                                             *)
(***************************************************************************)
\* Type invariant.
TypeOK ==
    \A n \in Node :
        LET s == sock[n]
        IN  /\ s.state \in State
            /\ {s.una, s.nxt, s.high, s.rcvNxt, s.finSeq} \subseteq 0 .. 4
            /\ {s.size, s.unread, s.got} \subseteq 0 .. 2
            /\ s.lost \cup s.sacked \subseteq SentList(s)
            /\ s.lost \cap s.sacked = {} /\ s.held \subseteq {2}
            /\ s.synCount \in 0 .. SynRetries /\ s.retr \in 0 .. DataRetries
            /\ s.retx \in {"none", "SYN", "SYNACK", "FIN", "RTO"}

\* The FIN of the side that closes first ends a complete stream: while that
\* side is in FIN_WAIT_1, FIN_WAIT_2, CLOSING or TIME_WAIT, a receiver that has
\* its FIN in order has every segment its application wrote, whatever was
\* lost, reordered or sent again (Close, SendDataPacket, PeerClose, ReTxTimeout).
ActiveCloseIsComplete ==
    \A n \in Node :
        /\ Finished(sock[n])
        /\ sock[Peer(n)].state \in {"FIN_WAIT_1", "FIN_WAIT_2", "CLOSING", "TIME_WAIT"}
        => sock[n].got = app[Peer(n)].wrote

\* What a sender takes for acknowledged (DiscardUpTo, and FIN_WAIT_2 for the
\* FIN in ProcessWait) the other side has received.
AckedIsReceived ==
    \A n \in Node :
        /\ sock[n].una - 1 <= sock[Peer(n)].got \/ Finished(sock[Peer(n)])
        /\ sock[n].state = "FIN_WAIT_2" => Finished(sock[Peer(n)])

\* A socket that waits for the acknowledgement of a SYN, of data or of a FIN has
\* a timer running: m_retxEvent, which SendEmptyPacket, SendDataPacket and
\* NewAck take from each other, or m_lastAckEvent.
OutstandingHasTimer ==
    \A n \in Node :
        LET s == sock[n]
        IN  s.ep /\ (\/ SentList(s) # {} /\ s.state # "TIME_WAIT"
                     \/ s.state \in {"SYN_SENT", "SYN_RCVD", "FIN_WAIT_1", "CLOSING", "LAST_ACK"})
            => s.retx # "none" \/ s.lastAck

\* No socket stays in the handshake: it is answered, closed or reset, or
\* m_synCount runs out (SendEmptyPacket), also when SYNs of both sides repeat,
\* cross and get lost.
HandshakeEnds ==
    \A n \in Node : sock[n].state \in {"SYN_SENT", "SYN_RCVD"} ~>
                     sock[n].state \notin {"SYN_SENT", "SYN_RCVD"}

\* A socket whose m_lastAckEvent is pending gives up its end point in the end,
\* if the last ACK never comes (LastAckTimeout, started by DoPeerClose).
LastAckEnds ==
    \A n \in Node : sock[n].lastAck ~> ~ sock[n].ep

\* A stream that has ended is complete, whichever side closed first: in LAST_ACK
\* "there may still be data in our buffer that we have to finish sending"
\* (tcp-socket.h).  It does not hold: LastAckTimeout sends the FIN at
\* m_nextTxSequence, which a retransmission has moved back.
FinMeansComplete ==
    \A n \in Node : Finished(sock[n]) => sock[n].got = app[Peer(n)].wrote
=============================================================================
